-------------------------- MODULE MCProcessBroker --------------------------
(* One job given to submit and one given to run: what they share is the event *)
(* table, the process that recovers and the consumer.                         *)
EXTENDS ProcessBroker, TLC

CONSTANTS b, i
=============================================================================
