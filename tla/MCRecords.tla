------------------------------ MODULE MCRecords ------------------------------
(***************************************************************************)
(* What is kept of commands: the broker's records of how they ended and the *)
(* store of their evidence.  They share no state, so that nothing is lost   *)
(* when only one of them leaves its initial state.                          *)
(***************************************************************************)
EXTENDS MCEvidenceStore, MCProcessBroker

recordsVars == <<vars, brokerVars>>

RecordsInit == Init /\ BrokerInit

RecordsNext ==
    \/ BrokerInit /\ Next       /\ UNCHANGED brokerVars
    \/ Init       /\ BrokerNext /\ UNCHANGED vars

RecordsSpec == RecordsInit /\ [][RecordsNext]_recordsVars
=============================================================================
