------------------------------ MODULE MCDatabases ------------------------------
(***************************************************************************)
(* Three databases side by side: sessions, headless jobs and policy         *)
(* rollouts.  They share no state, so that nothing is lost when only one of *)
(* them leaves its initial state.                                           *)
(***************************************************************************)
EXTENDS SessionRuntime, HeadlessRuntime, PolicyRollout

CONSTANTS s1, s2, s3, c1, c2, w1, w2, o1, p1, p2, m1, m2

databaseVars == <<sessionVars, headlessVars, rolloutVars>>

DatabasesInit == SessionInit /\ HeadlessInit /\ RolloutInit

DatabasesNext ==
    \/ HeadlessInit /\ RolloutInit  /\ SessionNext  /\ UNCHANGED <<headlessVars, rolloutVars>>
    \/ SessionInit  /\ RolloutInit  /\ HeadlessNext /\ UNCHANGED <<sessionVars, rolloutVars>>
    \/ SessionInit  /\ HeadlessInit /\ RolloutNext  /\ UNCHANGED <<sessionVars, headlessVars>>

DatabasesSpec == DatabasesInit /\ [][DatabasesNext]_databaseVars

\* The tables and the memory of the processes that use them keep their types.
DatabasesTypeOK == SessionTypeOK /\ HeadlessTypeOK /\ RolloutTypeOK
=============================================================================
