--------------------------- MODULE MCJobScheduler ---------------------------
(* Three jobs of two projects.  b waits for a; in the runs of MCproject c is   *)
(* another project's job, in those of MCcontended a and c compete for one      *)
(* place of the same project.                                                  *)
EXTENDS JobScheduler, TLC

CONSTANTS a, b, c, w1, w2, p, q

MCproject      == [j \in Job |-> IF j = c THEN q ELSE p]
MCcontended    == [j \in Job |-> IF j = b THEN q ELSE p]
MCpriority     == [j \in Job |-> 0]
MCdependencies == [j \in Job |-> IF j = b THEN {a} ELSE {}]
MCmax_attempts == [j \in Job |-> IF j = a THEN 2 ELSE 1]
MCAccepts      == [w \in Worker |-> Job]

(* For liveness the clock must not meet a bound: it advances only while a     *)
(* lease or a scheduled time lies ahead of it, and then needs no bound, since *)
(* attempts are limited and no lease is extended beyond Horizon.              *)
Pending ==
    \E j \in Job :
        \/ jobs[j].state = "running" /\ jobs[j].lease_until > clock
        \/ jobs[j].state = "queued" /\ jobs[j].scheduled_at > clock

LiveSpec ==
    /\ SchedulerInit
    /\ [][SchedulerNext /\ (clock' # clock => Pending)]_schedulerVars
    /\ WF_schedulerVars(Pending /\ Tick)
    /\ \A w \in Worker : WF_schedulerVars(Claim(w)) /\ WF_schedulerVars(Complete(w) \/ Fail(w))
=============================================================================
