---------------------------- MODULE CompletionQueue ----------------------------
(***************************************************************************)
(* What the completion events of the broker promise a consumer, without     *)
(* sequence numbers or cursors: a job that has ended is recorded, once      *)
(* whoever does it, and the consumer is handed the jobs in the order they   *)
(* were recorded, each once, at most PageLimit at a time.  ProcessBroker    *)
(* implements it (ProcessBroker!Completions).                               *)
(***************************************************************************)
EXTENDS Naturals, FiniteSets

CONSTANTS
    Job,       \* the jobs
    PageLimit  \* how many the consumer takes at a time

VARIABLES
    recorded,  \* the jobs whose end is recorded
    earlier,   \* the jobs recorded before each of them
    given      \* the jobs the consumer was handed

vars == <<recorded, earlier, given>>

Init ==
    /\ recorded = {} /\ given = {}
    /\ earlier = [j \in Job |-> {}]

Record(j) ==
    /\ j \notin recorded
    /\ recorded' = recorded \cup {j}
    /\ earlier' = [earlier EXCEPT ![j] = recorded]
    /\ given' = given

\* The next jobs, none of which overtakes another.
Hand(page) ==
    /\ page # {} /\ page \subseteq recorded \ given
    /\ Cardinality(page) <= PageLimit
    /\ \A j \in page : earlier[j] \subseteq given \cup page
    /\ given' = given \cup page
    /\ UNCHANGED <<recorded, earlier>>

Next == (\E j \in Job : Record(j)) \/ (\E page \in SUBSET Job : Hand(page))

Spec == Init /\ [][Next]_vars
=============================================================================
