------------------------------ MODULE MCStorage ------------------------------
(***************************************************************************)
(* The databases and the installations side by side, where nothing is said  *)
(* of what must eventually happen.  They share no state, so that nothing is *)
(* lost when only one of them leaves its initial state.                     *)
(***************************************************************************)
EXTENDS MCDatabases, MCInstallations

storageVars == <<databaseVars, installationVars>>

StorageInit == DatabasesInit /\ InstallationsInit

StorageNext ==
    \/ InstallationsInit /\ DatabasesNext     /\ UNCHANGED installationVars
    \/ DatabasesInit     /\ InstallationsNext /\ UNCHANGED databaseVars

StorageSpec == StorageInit /\ [][StorageNext]_storageVars
=============================================================================
