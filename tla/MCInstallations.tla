--------------------------- MODULE MCInstallations ---------------------------
(***************************************************************************)
(* What a new version changes on a user's machine: the executable, the      *)
(* database that is migrated, the configuration of another program.  They   *)
(* share no state, so that nothing is lost when only one of them leaves its *)
(* initial state.                                                           *)
(***************************************************************************)
EXTENDS DistributionManager, MigrationManager, HostInstallation

CONSTANTS settings, skill

MCTargets == <<settings, skill>>

installationVars == <<distributionVars, migrationVars, hostVars>>

InstallationsInit == DistributionInit /\ MigrationInit /\ HostInit

InstallationsNext ==
    \/ MigrationInit    /\ HostInit      /\ DistributionNext /\ UNCHANGED <<migrationVars, hostVars>>
    \/ DistributionInit /\ HostInit      /\ MigrationNext    /\ UNCHANGED <<distributionVars, hostVars>>
    \/ DistributionInit /\ MigrationInit /\ HostNext         /\ UNCHANGED <<distributionVars, migrationVars>>

InstallationsSpec == InstallationsInit /\ [][InstallationsNext]_installationVars

\* Files, receipts and transactions keep their types.
InstallationsTypeOK == DistributionTypeOK /\ HostTypeOK
=============================================================================
