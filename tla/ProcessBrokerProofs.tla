------------------------- MODULE ProcessBrokerProofs -------------------------
(* What the broker guarantees for any jobs, clients, supervisors, cancellers, *)
(* passes of recover and pages of drain_completions, proved.                  *)
EXTENDS ProcessBroker, FiniteSetTheorems, WellFoundedInduction, TLAPS

-----------------------------------------------------------------------------
(* The inductive invariant.                                                   *)

Early == {"none", "started", "launched"}  \* the row does not name the command yet

\* Where a supervisor is tells how far its client has come and its command.
SupervisorFollows ==
    \A j \in Job :
        /\ client[j] \in {"idle", "accepted"} => worker[j] = "none"
        /\ client[j] = "spawned" => worker[j] # "none"
        /\ worker[j] \in {"none", "started"} => child[j] = "none"
        /\ worker[j] \in {"launched"} \cup Waiting => child[j] # "none"
        /\ worker[j] \in {"collected", "recorded", "reported"} => Ended(child[j])

\* A supervisor stops its command for a reason.
StoppedForReason ==
    \A j \in Job : /\ why[j] = "timed_out" => j \in overdue
                   /\ why[j] = "cancelled" => j \in marked

\* An unfinished row names the process that works on the job; until the supervisor
\* has announced its command nobody has finished it.
RowsNameProcess ==
    \A j \in Job :
        /\ client[j] = "idle" => rows[j].state = "absent"
        /\ worker[j] = "none" => rows[j].state \in {"absent", "ACCEPTED"}
        /\ worker[j] \in Early => rows[j].state \in {"absent", "ACCEPTED", "QUEUED"}
        /\ rows[j].state = "QUEUED" => rows[j].pid = "worker"
        /\ rows[j].state = "RUNNING" => rows[j].pid = "child"

\* The list of recover keeps what such rows said.
ListNamesProcess ==
    \A r \in recovery.list : /\ r.pid # "none"
                             /\ worker[r.job] # "none"
                             /\ r.pid = "child" => worker[r.job] \notin Early

\* Who is about to append a line has recorded the event.
AppendersRecorded ==
    /\ \A j \in Job : worker[j] = "reported" => events[j].sequence > 0
    /\ recovery.at \in {"report", "append"} => recovery.job \in Job
    /\ recovery.at = "append" => events[recovery.job].sequence > 0

\* The table's counter is ahead of the numbers of all events, and of the cursor.
NumbersCounted ==
    /\ \A j \in Job : events[j].sequence <= issued
    /\ consumer.cursor <= issued

IInv ==
    /\ BrokerTypeOK /\ SupervisorFollows /\ StoppedForReason /\ TruthfulRecords
    /\ RowsNameProcess /\ ListNamesProcess
    /\ AppendersRecorded /\ LinesBehindEvents
    /\ NumbersCounted /\ HandedOverOnce

-----------------------------------------------------------------------------
(* The operators the actions are made of.                                     *)

LEMMA OutcomeFinal ==
    ASSUME NEW c, NEW flag PROVE Outcome(c, flag) \in FINAL_STATES
<1>1. Outcome(c, flag) \in {"TIMED_OUT", "CANCELLED", "COMPLETED", "FAILED"}
  BY Zenon DEF Outcome
<1>2. QED
  BY <1>1 DEF FINAL_STATES

\* What a recorded outcome says of the command and of the reason it was stopped.
LEMMA OutcomeSays ==
    ASSUME NEW c, NEW flag \in {"none", "timed_out", "cancelled"}
    PROVE  /\ Outcome(c, flag) # "ORPHANED"
           /\ Outcome(c, flag) = "TIMED_OUT" => flag = "timed_out"
           /\ Outcome(c, flag) = "CANCELLED" => flag = "cancelled"
           /\ Outcome(c, flag) = "COMPLETED" => c = "zero"
           /\ Outcome(c, flag) = "FAILED" => c # "zero"
<1>1. CASE flag = "timed_out"
  <2>1. Outcome(c, flag) = "TIMED_OUT"
    BY <1>1, Zenon DEF Outcome
  <2>2. QED
    BY <1>1, <2>1
<1>2. CASE flag = "cancelled"
  <2>1. Outcome(c, flag) = "CANCELLED"
    BY <1>2, Zenon DEF Outcome
  <2>2. QED
    BY <1>2, <2>1
<1>3. CASE flag = "none"
  <2>1. flag # "timed_out" /\ flag # "cancelled"
    BY <1>3
  <2>2. Outcome(c, flag) = IF c = "zero" THEN "COMPLETED" ELSE "FAILED"
    BY <2>1, Zenon DEF Outcome
  <2>3. QED
    BY <2>2
<1>4. QED
  BY <1>1, <1>2, <1>3

LEMMA RecordedType ==
    ASSUME BrokerTypeOK, NEW j \in Job, NEW state \in FINAL_STATES
    PROVE  /\ Recorded(j, state) \in [Job -> [state: {"absent"} \cup FINAL_STATES, sequence: Nat]]
           /\ Recorded(j, state)[j].state = state
           /\ Recorded(j, state)[j].sequence =
                 IF events[j].sequence = 0 THEN issued + 1 ELSE events[j].sequence
           /\ Recorded(j, state)[j].sequence > 0
           /\ \A k \in Job \ {j} : Recorded(j, state)[k] = events[k]
<1>1. NextSequence = issued + 1 /\ issued \in Nat
  BY DEF NextSequence, BrokerTypeOK
<1>2. events \in [Job -> [state: {"absent"} \cup FINAL_STATES, sequence: Nat]]
  BY DEF BrokerTypeOK
<1>3. DEFINE sequence == IF events[j].sequence = 0 THEN NextSequence ELSE events[j].sequence
<1>4. Recorded(j, state) = [events EXCEPT ![j] = [state |-> state, sequence |-> sequence]]
  BY DEF Recorded
<1>5. sequence \in Nat /\ sequence > 0
  BY <1>1, <1>2
<1>6. QED
  BY <1>1, <1>2, <1>4, <1>5

\* A finite set of bounded numbers has a largest one.
LEMMA BoundedMaximum ==
    ASSUME NEW S \in SUBSET Nat, S # {}, NEW bound \in Nat, \A n \in S : n <= bound
    PROVE  \E m \in S : \A n \in S : n <= m
<1> DEFINE Distances == {d \in Nat : bound - d \in S}
<1>1. Distances # {}
  <2>1. PICK n \in S : TRUE
    OBVIOUS
  <2>2. bound - n \in Nat /\ bound - (bound - n) = n
    BY <2>1
  <2>3. QED
    BY <2>2
<1>2. Distances \subseteq Nat
  OBVIOUS
<1> HIDE DEF Distances
<1>3. PICK d \in Distances : \A e \in Distances : <<e, d>> \notin OpToRel(<, Nat)
  BY <1>1, <1>2, NatLessThanWellFounded, WFMin, Zenon
<1>4. \A e \in Distances : ~(e < d)
  BY <1>2, <1>3, Zenon DEF OpToRel
<1>5. bound - d \in S /\ d \in Nat
  BY DEF Distances
<1>6. ASSUME NEW n \in S PROVE n <= bound - d
  <2>1. bound - n \in Nat /\ bound - (bound - n) = n
    OBVIOUS
  <2>2. bound - n \in Distances
    BY <2>1 DEF Distances
  <2>3. ~(bound - n < d)
    BY <1>4, <2>2
  <2>4. QED
    BY <2>1, <2>3, <1>5
<1>7. QED
  BY <1>5, <1>6

-----------------------------------------------------------------------------
(* Who writes what.                                                           *)

Writes ==
    /\ \/ rows' = rows \/ RecoverCheck
       \/ \E j \in Job : Accept(j) \/ Enqueue(j) \/ Announce(j) \/ Record(j) \/
                         GiveUp(j) \/ CancelFlag(j)
    /\ \/ client' = client
       \/ \E j \in Job : Accept(j) \/ Spawn(j) \/ Enqueue(j) \/ ClientDies(j)
    /\ \/ worker' = worker
       \/ \E j \in Job : Accept(j) \/ Spawn(j) \/ Launch(j) \/ Announce(j) \/ Poll(j) \/
                         Check(j) \/ Wait(j) \/ Record(j) \/ Report(j) \/ Append(j) \/
                         GiveUp(j) \/ Raise(j) \/ SupervisorDies(j) \/ CancelSignal(j)
    /\ \/ why' = why
       \/ \E j \in Job : Check(j)
    /\ \/ child' = child
       \/ \E j \in Job : Launch(j) \/ Check(j) \/ Wait(j) \/ ChildExits(j) \/
                         CancelSignal(j)
    /\ \/ overdue' = overdue
       \/ \E j \in Job : DeadlinePasses(j)
    /\ \/ marked' = marked
       \/ \E j \in Job : CancelMark(j)
    /\ recovery' = recovery \/ Recoverer
    /\ \/ events' = events /\ issued' = issued
       \/ RecoverReport
       \/ \E j \in Job : Report(j)
    /\ \/ lines' = lines \/ RecoverAppend
       \/ \E j \in Job : Append(j)
    /\ consumer' = consumer \/ Drain

LEMMA Writers == [BrokerNext]_brokerVars => Writes
<1>1. CASE \E j \in Job : Client(j) \/ ClientDies(j)
  BY <1>1 DEF Writes, Client, Accept, Spawn, Enqueue, ClientDies
<1>2. CASE \E j \in Job : Launch(j) \/ Announce(j) \/ Poll(j) \/ Check(j) \/ Wait(j)
  BY <1>2 DEF Writes, Launch, Announce, Poll, Check, Wait
<1>3. CASE \E j \in Job : Record(j) \/ Report(j) \/ Append(j) \/ GiveUp(j) \/ Raise(j)
  BY <1>3 DEF Writes, Record, Report, Append, GiveUp, Raise
<1>4. CASE \E j \in Job : SupervisorDies(j) \/ ChildExits(j) \/ DeadlinePasses(j)
  BY <1>4 DEF Writes, SupervisorDies, ChildExits, DeadlinePasses
<1>5. CASE \E j \in Job : Canceller(j)
  BY <1>5 DEF Writes, Canceller, CancelRead, CancelMark, CancelSignal, CancelFlag
<1>6. CASE Recoverer
  BY <1>6 DEF Writes, Recoverer, RecoverList, RecoverCheck, RecoverReport, RecoverAppend, RecoverEnds
<1>7. CASE Drain \/ UNCHANGED brokerVars
  BY <1>7 DEF Writes, Drain, brokerVars
<1>8. QED
  BY <1>1, <1>2, <1>3, <1>4, <1>5, <1>6, <1>7 DEF BrokerNext, Supervisor

\* The cursor moves to the number of the page's last event.
LEMMA CursorIsLast ==
    ASSUME BrokerTypeOK, \A j \in Job : events[j].sequence <= issued,
           NEW after \in Nat, Page(after) # {}
    PROVE  /\ \E j \in Page(after) : Cursor(after, Page(after)) = events[j].sequence
           /\ \A j \in Page(after) : events[j].sequence <= Cursor(after, Page(after))
<1> DEFINE S == {events[j].sequence : j \in Page(after)}
<1>1. S \in SUBSET Nat /\ S # {} /\ issued \in Nat
  <2>1. Page(after) \subseteq Job
    BY DEF Page
  <2>2. \A j \in Job : events[j].sequence \in Nat
    BY DEF BrokerTypeOK
  <2>3. QED
    BY <2>1, <2>2 DEF BrokerTypeOK
<1>2. \A n \in S : n <= issued
  BY DEF Page
<1>3. \E n \in S : \A m \in S : m <= n
  BY <1>1, <1>2, BoundedMaximum
<1>4. \E n \in S : \A j \in Page(after) : events[j].sequence <= n
  BY <1>3
<1>5. Cursor(after, Page(after)) = CHOOSE n \in S : \A j \in Page(after) : events[j].sequence <= n
  BY DEF Cursor
<1>6. /\ Cursor(after, Page(after)) \in S
      /\ \A j \in Page(after) : events[j].sequence <= Cursor(after, Page(after))
  BY <1>4, <1>5
<1>7. QED
  BY <1>6

-----------------------------------------------------------------------------
(* Types.                                                                     *)

Row == [state: States, pid: Pid, cancelled: BOOLEAN]

LEMMA RowUpdates ==
    ASSUME NEW row \in Row, NEW state \in States, NEW pid \in Pid, NEW cancelled \in BOOLEAN
    PROVE  /\ [row EXCEPT !.state = state] \in Row
           /\ [row EXCEPT !.state = state, !.pid = pid] \in Row
           /\ [row EXCEPT !.cancelled = cancelled] \in Row
           /\ [row EXCEPT !.state = state, !.cancelled = cancelled] \in Row
BY DEF Row

\* One step of one job's client, supervisor, command or canceller.
JobStep(j) ==
    \/ Client(j) \/ ClientDies(j) \/ Supervisor(j) \/ Raise(j) \/ SupervisorDies(j)
    \/ ChildExits(j) \/ DeadlinePasses(j) \/ Canceller(j)

LEMMA JobStepKeepsTypes ==
    ASSUME BrokerTypeOK, NEW j \in Job, JobStep(j) PROVE BrokerTypeOK'
<1>0. rows \in [Job -> Row] /\ "worker" \in Pid /\ "child" \in Pid /\ "absent" \in States
      /\ TRUE \in BOOLEAN /\ rows[j] \in Row
  BY DEF BrokerTypeOK, Row, Pid, States
<1>1. CASE Accept(j)
  <2>1. [rows[j] EXCEPT !.state = "ACCEPTED"] \in Row
    BY <1>0, RowUpdates DEF States, Pid, FINAL_STATES
  <2>2. rows' \in [Job -> Row]
    BY <1>0, <1>1, <2>1 DEF Accept
  <2>3. QED
    BY <1>1, <2>2 DEF Accept, BrokerTypeOK, Row, Waiting
<1>2. CASE Spawn(j)
  BY <1>2 DEF Spawn, BrokerTypeOK
<1>3. CASE Enqueue(j)
  <2>1. [rows[j] EXCEPT !.state = "QUEUED", !.pid = "worker"] \in Row
    BY <1>0, RowUpdates DEF States, Pid, FINAL_STATES
  <2>2. rows' \in [Job -> Row]
    BY <1>0, <1>3, <2>1 DEF Enqueue
  <2>3. QED
    BY <1>3, <2>2 DEF Enqueue, BrokerTypeOK, Row, Waiting
<1>4. CASE ClientDies(j)
  BY <1>4 DEF ClientDies, BrokerTypeOK
<1>5. CASE Launch(j)
  BY <1>5 DEF Launch, BrokerTypeOK
<1>6. CASE Announce(j)
  <2>1. [rows[j] EXCEPT !.state = "RUNNING", !.pid = "child"] \in Row
    BY <1>0, RowUpdates DEF States, Pid, FINAL_STATES
  <2>2. rows' \in [Job -> Row]
    BY <1>0, <1>6, <2>1 DEF Announce
  <2>3. QED
    BY <1>6, <2>2 DEF Announce, BrokerTypeOK, Row, Waiting
<1>7. CASE Poll(j)
  BY <1>7 DEF Poll, BrokerTypeOK, Waiting
<1>8. CASE Check(j)
  BY <1>8 DEF Check, BrokerTypeOK, Waiting, Signalled
<1>9. CASE Wait(j)
  BY <1>9 DEF Wait, BrokerTypeOK, Waiting
<1>10. CASE Record(j)
  <2>0. Outcome(child[j], why[j]) \in States /\ (why[j] = "cancelled") \in BOOLEAN
    BY OutcomeFinal DEF States
  <2>1. [rows[j] EXCEPT !.state = Outcome(child[j], why[j]), !.cancelled = (why[j] = "cancelled")] \in Row
    BY <2>0, <1>0, RowUpdates DEF States, Pid, FINAL_STATES
  <2>2. rows' \in [Job -> Row]
    BY <1>0, <1>10, <2>1 DEF Record
  <2>3. QED
    BY <1>10, <2>2 DEF Record, BrokerTypeOK, Row, Waiting
<1>11. CASE Report(j)
  <2>1. Outcome(child[j], why[j]) \in FINAL_STATES
    BY OutcomeFinal
  <2>2. Recorded(j, Outcome(child[j], why[j]))
          \in [Job -> [state: {"absent"} \cup FINAL_STATES, sequence: Nat]]
    BY <2>1, RecordedType
  <2>3. QED
    BY <1>11, <2>2 DEF Report, NextSequence, BrokerTypeOK
<1>12. CASE Append(j)
  <2>1. Outcome(child[j], why[j]) \in FINAL_STATES
    BY OutcomeFinal
  <2>2. QED
    BY <1>12, <2>1 DEF Append, BrokerTypeOK
<1>13. CASE GiveUp(j)
  <2>1. [rows[j] EXCEPT !.state = "FAILED"] \in Row
    BY <1>0, RowUpdates DEF States, Pid, FINAL_STATES
  <2>2. rows' \in [Job -> Row]
    BY <1>0, <1>13, <2>1 DEF GiveUp
  <2>3. QED
    BY <1>13, <2>2 DEF GiveUp, BrokerTypeOK, Row, Waiting
<1>14. CASE Raise(j)
  BY <1>14 DEF Raise, BrokerTypeOK
<1>15. CASE SupervisorDies(j)
  BY <1>15 DEF SupervisorDies, BrokerTypeOK
<1>16. CASE ChildExits(j)
  BY <1>16 DEF ChildExits, BrokerTypeOK
<1>17. CASE DeadlinePasses(j)
  BY <1>17 DEF DeadlinePasses, BrokerTypeOK
<1>18. CASE CancelRead(j)
  BY <1>18 DEF CancelRead, BrokerTypeOK, Pid
<1>19. CASE CancelMark(j)
  <2> DEFINE Cancel == [at: {"idle", "read", "marked", "signalled", "done"}, pid: Pid]
  <2>1. cancel \in [Job -> Cancel] /\ cancel[j] \in Cancel
    BY DEF BrokerTypeOK
  <2>2. [cancel[j] EXCEPT !.at = "marked"] \in Cancel
    BY <2>1
  <2>3. cancel' \in [Job -> Cancel]
    BY <1>19, <2>1, <2>2 DEF CancelMark
  <2>4. QED
    BY <1>19, <2>3 DEF CancelMark, BrokerTypeOK
<1>20. CASE CancelSignal(j)
  BY <1>20 DEF CancelSignal, BrokerTypeOK, Signalled
<1>21. CASE CancelFlag(j)
  <2>1. [rows[j] EXCEPT !.cancelled = TRUE] \in Row
    BY <1>0, RowUpdates
  <2>2. rows' \in [Job -> Row]
    BY <1>0, <1>21, <2>1 DEF CancelFlag
  <2>3. cancel' \in [Job -> [at: {"idle", "read", "marked", "signalled", "done"}, pid: Pid]]
    BY <1>21 DEF CancelFlag, BrokerTypeOK
  <2>4. QED
    BY <1>21, <2>2, <2>3 DEF CancelFlag, BrokerTypeOK, Row
<1>22. QED
  BY <1>1, <1>2, <1>3, <1>4, <1>5, <1>6, <1>7, <1>8, <1>9, <1>10, <1>11, <1>12, <1>13, <1>14, <1>15, <1>16, <1>17, <1>18, <1>19, <1>20, <1>21
  DEF JobStep, Client, Supervisor, Canceller

LEMMA TypeStep ==
    ASSUME BrokerTypeOK, AppendersRecorded, NumbersCounted, [BrokerNext]_brokerVars PROVE BrokerTypeOK'
<1>1. ASSUME NEW j \in Job, JobStep(j) PROVE BrokerTypeOK'
  BY <1>1, JobStepKeepsTypes
<1>2. CASE RecoverList
  <2>1. recovery'.list \in SUBSET [job: Job, pid: Pid]
    <3>1. \A j \in Job : rows[j].pid \in Pid
      BY DEF BrokerTypeOK
    <3>2. recovery'.list = {[job |-> j, pid |-> rows[j].pid] :
                              j \in {k \in Job : rows[k].state \in {"QUEUED", "RUNNING"}}}
      BY <1>2 DEF RecoverList
    <3>3. QED
      BY <3>1, <3>2
  <2>2. recovery' = [passes |-> recovery.passes + 1, list |-> recovery'.list,
                     job |-> NoJob, at |-> "scan"]
    BY <1>2 DEF RecoverList
  <2>3. recovery.passes + 1 \in 0 .. Passes
    BY <1>2, BrokerAssumption DEF RecoverList, BrokerTypeOK
  <2>4. QED
    BY <1>2, <2>1, <2>2, <2>3 DEF RecoverList, BrokerTypeOK
<1>3. CASE RecoverCheck
  <2>1. PICK r \in recovery.list :
           \/ rows' = rows /\ recovery' = [recovery EXCEPT !.list = @ \ {r}]
           \/ /\ rows' = [rows EXCEPT ![r.job] = Orphaned(@)]
              /\ recovery' = [recovery EXCEPT !.list = @ \ {r}, !.job = r.job, !.at = "report"]
    BY <1>3 DEF RecoverCheck
  <2>2. r.job \in Job
    BY DEF BrokerTypeOK
  <2>3. recovery' \in [passes: 0 .. Passes, list: SUBSET [job: Job, pid: Pid],
                       job: Job \cup {NoJob}, at: {"idle", "scan", "report", "append"}]
    <3>1. recovery.list \ {r} \in SUBSET [job: Job, pid: Pid]
      BY DEF BrokerTypeOK
    <3>2. QED
      BY <2>1, <2>2, <3>1 DEF BrokerTypeOK
  <2>4. rows' \in [Job -> Row]
    <3>1. rows \in [Job -> Row]
      BY DEF BrokerTypeOK, Row
    <3>2. Orphaned(rows[r.job]) \in Row
      BY <2>2, <3>1 DEF Orphaned, Row, States, FINAL_STATES
    <3>3. QED
      BY <2>1, <2>2, <3>1, <3>2
  <2>5. QED
    BY <1>3, <2>3, <2>4 DEF RecoverCheck, BrokerTypeOK, Row
<1>4. CASE RecoverReport
  <2>1. recovery.job \in Job
    BY <1>4 DEF RecoverReport, AppendersRecorded
  <2>2. events' \in [Job -> [state: {"absent"} \cup FINAL_STATES, sequence: Nat]]
    BY <1>4, <2>1, RecordedType DEF RecoverReport, FINAL_STATES
  <2>3. issued' \in Nat
    BY <1>4 DEF RecoverReport, NextSequence, BrokerTypeOK
  <2>4. recovery' \in [passes: 0 .. Passes, list: SUBSET [job: Job, pid: Pid],
                       job: Job \cup {NoJob}, at: {"idle", "scan", "report", "append"}]
    BY <1>4 DEF RecoverReport, BrokerTypeOK
  <2>5. QED
    BY <1>4, <2>2, <2>3, <2>4 DEF RecoverReport, BrokerTypeOK
<1>5. CASE RecoverAppend
  BY <1>5 DEF RecoverAppend, BrokerTypeOK, FINAL_STATES
<1>6. CASE RecoverEnds
  BY <1>6 DEF RecoverEnds, BrokerTypeOK
<1>7. CASE Drain
  <2>1. consumer' = [cursor |-> Cursor(consumer.cursor, Page(consumer.cursor)),
                     seen |-> [j \in Job |-> consumer.seen[j]
                                 + IF j \in Page(consumer.cursor) THEN 1 ELSE 0]]
    BY <1>7 DEF Drain
  <2>2. Cursor(consumer.cursor, Page(consumer.cursor)) \in Nat
    <3>1. consumer.cursor \in Nat /\ Page(consumer.cursor) # {}
      BY <1>7 DEF Drain, BrokerTypeOK
    <3>2. PICK j \in Page(consumer.cursor) :
             Cursor(consumer.cursor, Page(consumer.cursor)) = events[j].sequence
      BY <3>1, CursorIsLast DEF NumbersCounted
    <3>3. j \in Job
      BY DEF Page
    <3>4. QED
      BY <3>2, <3>3 DEF BrokerTypeOK
  <2>3. QED
    BY <1>7, <2>1, <2>2 DEF Drain, BrokerTypeOK
<1>8. CASE UNCHANGED brokerVars
  BY <1>8 DEF BrokerTypeOK, brokerVars
<1>9. QED
  BY <1>1, <1>2, <1>3, <1>4, <1>5, <1>6, <1>7, <1>8 DEF BrokerNext, Recoverer, JobStep

-----------------------------------------------------------------------------
(* The parts of the invariant, one after the other.                           *)

\* Only the client, the supervisor, the command and a cancel's signal move them.
LEMMA SupervisorFollowsStep ==
    ASSUME BrokerTypeOK, SupervisorFollows, [BrokerNext]_brokerVars PROVE SupervisorFollows'
<1> USE DEF SupervisorFollows
<1>0. /\ client \in [Job -> {"idle", "accepted", "spawned", "done", "dead"}]
      /\ worker \in [Job -> {"none", "started", "launched", "collected", "recorded", "reported",
                             "failing", "exited", "dead"} \cup Waiting]
      /\ child \in [Job -> {"none", "running", "signalled", "zero", "nonzero"}]
  BY DEF BrokerTypeOK
<1>1. ASSUME NEW j \in Job, Accept(j) PROVE SupervisorFollows'
  BY <1>0, <1>1 DEF Accept, Waiting
<1>2. ASSUME NEW j \in Job, Spawn(j) PROVE SupervisorFollows'
  BY <1>0, <1>2 DEF Spawn, Waiting
<1>3. ASSUME NEW j \in Job, Enqueue(j) PROVE SupervisorFollows'
  BY <1>0, <1>3 DEF Enqueue
<1>4. ASSUME NEW j \in Job, ClientDies(j) PROVE SupervisorFollows'
  BY <1>0, <1>4 DEF ClientDies
<1>5. ASSUME NEW j \in Job, Launch(j) PROVE SupervisorFollows'
  BY <1>0, <1>5 DEF Launch, Waiting
<1>6. ASSUME NEW j \in Job, Announce(j) PROVE SupervisorFollows'
  BY <1>0, <1>6 DEF Announce, Waiting
<1>7. ASSUME NEW j \in Job, Poll(j) PROVE SupervisorFollows'
  BY <1>0, <1>7 DEF Poll, Waiting, Live, Ended
<1>8. ASSUME NEW j \in Job, Check(j) PROVE SupervisorFollows'
  BY <1>0, <1>8 DEF Check, Waiting, Signalled
<1>9. ASSUME NEW j \in Job, Wait(j) PROVE SupervisorFollows'
  BY <1>0, <1>9 DEF Wait, Waiting, Live, Ended
<1>10. ASSUME NEW j \in Job, Record(j) PROVE SupervisorFollows'
  BY <1>0, <1>10 DEF Record, Waiting
<1>11. ASSUME NEW j \in Job, Report(j) PROVE SupervisorFollows'
  BY <1>0, <1>11 DEF Report, Waiting
<1>12. ASSUME NEW j \in Job, Append(j) PROVE SupervisorFollows'
  BY <1>0, <1>12 DEF Append, Waiting
<1>13. ASSUME NEW j \in Job, GiveUp(j) PROVE SupervisorFollows'
  BY <1>0, <1>13 DEF GiveUp, Waiting
<1>14. ASSUME NEW j \in Job, Raise(j) PROVE SupervisorFollows'
  BY <1>0, <1>14 DEF Raise, Waiting, Supervising
<1>15. ASSUME NEW j \in Job, SupervisorDies(j) PROVE SupervisorFollows'
  BY <1>0, <1>15 DEF SupervisorDies, Waiting, Supervising
<1>16. ASSUME NEW j \in Job, ChildExits(j) PROVE SupervisorFollows'
  BY <1>0, <1>16 DEF ChildExits, Waiting, Live, Ended
<1>17. ASSUME NEW j \in Job, CancelSignal(j) PROVE SupervisorFollows'
  BY <1>0, <1>17 DEF CancelSignal, Waiting, Supervising, Signalled, Ended
<1>18. CASE client' = client /\ worker' = worker /\ child' = child
  BY <1>18
<1>19. QED
  BY <1>1, <1>2, <1>3, <1>4, <1>5, <1>6, <1>7, <1>8, <1>9, <1>10, <1>11, <1>12, <1>13,
     <1>14, <1>15, <1>16, <1>17, <1>18, Writers DEF Writes

LEMMA StoppedForReasonStep ==
    ASSUME BrokerTypeOK, StoppedForReason, [BrokerNext]_brokerVars PROVE StoppedForReason'
<1> USE DEF StoppedForReason
<1>1. ASSUME NEW j \in Job, Check(j) PROVE StoppedForReason'
  BY <1>1 DEF Check, BrokerTypeOK
<1>2. ASSUME NEW j \in Job, DeadlinePasses(j) \/ CancelMark(j) PROVE StoppedForReason'
  BY <1>2 DEF DeadlinePasses, CancelMark
<1>3. CASE why' = why /\ overdue' = overdue /\ marked' = marked
  BY <1>3
<1>4. QED
  BY <1>1, <1>2, <1>3, Writers DEF Writes

\* A command that has ended stays as it ended.
LEMMA EndedForEver ==
    ASSUME BrokerTypeOK, SupervisorFollows, [BrokerNext]_brokerVars, NEW k \in Job, Ended(child[k])
    PROVE  child'[k] = child[k]
<1> USE DEF Ended
<1>1. ASSUME NEW j \in Job, Launch(j) PROVE child'[k] = child[k]
  BY <1>1 DEF Launch, SupervisorFollows, BrokerTypeOK
<1>2. ASSUME NEW j \in Job, Check(j) \/ CancelSignal(j) PROVE child'[k] = child[k]
  BY <1>2 DEF Check, CancelSignal, Signalled, BrokerTypeOK
<1>3. ASSUME NEW j \in Job, Wait(j) \/ ChildExits(j) PROVE child'[k] = child[k]
  BY <1>3 DEF Wait, ChildExits, Live, BrokerTypeOK
<1>4. CASE child' = child
  BY <1>4
<1>5. QED
  BY <1>1, <1>2, <1>3, <1>4, Writers DEF Writes

\* A recorded state stands for what happened to the command.
Truthful(j, state) ==
    /\ state = "COMPLETED" => child[j] = "zero"
    /\ state = "TIMED_OUT" => Ended(child[j]) /\ j \in overdue
    /\ state = "CANCELLED" => Ended(child[j]) /\ j \in marked

\* What is true of a command stays true.
LEMMA TruthLasts ==
    ASSUME BrokerTypeOK, SupervisorFollows, [BrokerNext]_brokerVars, NEW j \in Job, NEW state, Truthful(j, state)
    PROVE  Truthful(j, state)' /\ (child[j] = "nonzero" => child'[j] = "nonzero")
<1>1. overdue \subseteq overdue' /\ marked \subseteq marked'
  <2>1. ASSUME NEW k \in Job, DeadlinePasses(k) \/ CancelMark(k)
        PROVE  overdue \subseteq overdue' /\ marked \subseteq marked'
    BY <2>1 DEF DeadlinePasses, CancelMark
  <2>2. CASE overdue' = overdue /\ marked' = marked
    BY <2>2
  <2>3. QED
    BY <2>1, <2>2, Writers DEF Writes
<1>2. Ended(child[j]) => child'[j] = child[j]
  BY EndedForEver
<1>3. QED
  BY <1>1, <1>2 DEF Truthful, Ended

\* What may happen to a row, and by whom.
RowMove(j) ==
    \/ rows'[j].state = rows[j].state /\ rows'[j].pid = rows[j].pid
    \/ Accept(j) /\ rows'[j].state = "ACCEPTED" /\ rows'[j].pid = rows[j].pid
    \/ Enqueue(j) /\ rows'[j].state = "QUEUED" /\ rows'[j].pid = "worker"
    \/ Announce(j) /\ rows'[j].state = "RUNNING" /\ rows'[j].pid = "child"
    \/ Record(j) /\ rows'[j].state = Outcome(child[j], why[j]) /\ rows'[j].pid = rows[j].pid
    \/ GiveUp(j) /\ rows'[j].state = "FAILED" /\ rows'[j].pid = rows[j].pid
    \/ /\ RecoverCheck /\ rows'[j].state = "ORPHANED" /\ rows'[j].pid = rows[j].pid
       /\ \E r \in recovery.list :
             r.job = j /\ \E alive \in PidAlive(j, r.pid) : ~alive

LEMMA RowMoves ==
    ASSUME BrokerTypeOK, [BrokerNext]_brokerVars, NEW j \in Job PROVE RowMove(j)
<1> USE DEF RowMove
<1>0. rows \in [Job -> Row]
  BY DEF BrokerTypeOK, Row
<1>1. ASSUME NEW k \in Job, Accept(k) PROVE RowMove(j)
  BY <1>0, <1>1 DEF Accept, Row
<1>2. ASSUME NEW k \in Job, Enqueue(k) PROVE RowMove(j)
  BY <1>0, <1>2 DEF Enqueue, Row
<1>3. ASSUME NEW k \in Job, Announce(k) PROVE RowMove(j)
  BY <1>0, <1>3 DEF Announce, Row
<1>4. ASSUME NEW k \in Job, Record(k) PROVE RowMove(j)
  BY <1>0, <1>4 DEF Record, Row
<1>5. ASSUME NEW k \in Job, GiveUp(k) PROVE RowMove(j)
  BY <1>0, <1>5 DEF GiveUp, Row
<1>6. ASSUME NEW k \in Job, CancelFlag(k) PROVE RowMove(j)
  BY <1>0, <1>6 DEF CancelFlag, Row
<1>7. CASE RecoverCheck
  <2>1. PICK r \in recovery.list :
           \/ rows' = rows
           \/ /\ \E alive \in PidAlive(r.job, r.pid) : ~alive
              /\ rows' = [rows EXCEPT ![r.job] = Orphaned(@)]
    BY <1>7 DEF RecoverCheck
  <2>2. CASE rows' = rows
    BY <2>2
  <2>3. CASE r.job # j
    BY <1>0, <2>1, <2>3
  <2>4. CASE r.job = j /\ rows' # rows
    <3>1. rows'[j] = [rows[j] EXCEPT !.state = "ORPHANED"]
      BY <1>0, <2>1, <2>4 DEF Orphaned
    <3>2. rows'[j].state = "ORPHANED" /\ rows'[j].pid = rows[j].pid
      BY <1>0, <3>1 DEF Row
    <3>3. \E alive \in PidAlive(j, r.pid) : ~alive
      BY <2>1, <2>4
    <3>4. QED
      BY <1>7, <2>4, <3>2, <3>3
  <2>5. QED
    BY <2>2, <2>3, <2>4
<1>8. CASE rows' = rows
  BY <1>8
<1>9. QED
  BY <1>1, <1>2, <1>3, <1>4, <1>5, <1>6, <1>7, <1>8, Writers DEF Writes

\* What may happen to an event, and by whom.
EventMove(j) ==
    \/ events'[j] = events[j]
    \/ Report(j) /\ events' = Recorded(j, Outcome(child[j], why[j]))
    \/ RecoverReport /\ recovery.job = j /\ events' = Recorded(j, "ORPHANED")

LEMMA EventMoves ==
    ASSUME BrokerTypeOK, AppendersRecorded, [BrokerNext]_brokerVars, NEW j \in Job PROVE EventMove(j)
<1> USE DEF EventMove
<1>1. ASSUME NEW k \in Job, Report(k) PROVE EventMove(j)
  <2>1. Outcome(child[k], why[k]) \in FINAL_STATES
    BY OutcomeFinal
  <2>2. events' = Recorded(k, Outcome(child[k], why[k]))
    BY <1>1 DEF Report
  <2>3. j # k => events'[j] = events[j]
    BY <2>1, <2>2, RecordedType
  <2>4. QED
    BY <1>1, <2>2, <2>3
<1>2. CASE RecoverReport
  <2>1. PICK k \in Job : k = recovery.job
    BY <1>2 DEF RecoverReport, AppendersRecorded
  <2>2. events' = Recorded(k, "ORPHANED")
    BY <1>2, <2>1 DEF RecoverReport
  <2>3. j # k => events'[j] = events[j]
    BY <2>2, RecordedType DEF FINAL_STATES
  <2>4. QED
    BY <1>2, <2>1, <2>2, <2>3
<1>3. CASE events' = events
  BY <1>3
<1>4. QED
  BY <1>1, <1>2, <1>3, Writers DEF Writes

LEMMA TruthfulRecordsStep ==
    ASSUME BrokerTypeOK, SupervisorFollows, StoppedForReason, TruthfulRecords, AppendersRecorded,
           [BrokerNext]_brokerVars
    PROVE  TruthfulRecords'
<1> SUFFICES ASSUME NEW j \in Job
             PROVE  /\ events'[j].state = "FAILED" => child'[j] = "nonzero"
                    /\ \A state \in {rows'[j].state, events'[j].state} :
                          /\ state = "COMPLETED" => child'[j] = "zero"
                          /\ state = "TIMED_OUT" => Ended(child'[j]) /\ j \in overdue'
                          /\ state = "CANCELLED" => Ended(child'[j]) /\ j \in marked'
  BY DEF TruthfulRecords
<1>1. Truthful(j, rows[j].state) /\ Truthful(j, events[j].state)
  BY DEF TruthfulRecords, Truthful
<1>2. events[j].state = "FAILED" => child[j] = "nonzero"
  BY DEF TruthfulRecords
<1>3. ASSUME worker[j] \in {"collected", "recorded"}
      PROVE  /\ Truthful(j, Outcome(child[j], why[j]))
             /\ Outcome(child[j], why[j]) = "FAILED" => child[j] = "nonzero"
  <2>1. Ended(child[j]) /\ why[j] \in {"none", "timed_out", "cancelled"}
    BY <1>3 DEF SupervisorFollows, BrokerTypeOK
  <2>2. QED
    BY <2>1, OutcomeSays DEF Truthful, Ended, StoppedForReason
<1>4. Truthful(j, rows'[j].state)
  <2>1. ASSUME NEW state \in {"ACCEPTED", "QUEUED", "RUNNING", "FAILED", "ORPHANED"}
        PROVE  Truthful(j, state)
    BY DEF Truthful
  <2>2. Record(j) => Truthful(j, Outcome(child[j], why[j]))
    BY <1>3 DEF Record
  <2>3. QED
    BY <1>1, <2>1, <2>2, RowMoves DEF RowMove
<1>5. /\ Truthful(j, events'[j].state)
      /\ events'[j].state = "FAILED" => child[j] = "nonzero"
  <2>1. CASE events'[j] = events[j]
    BY <1>1, <1>2, <2>1
  <2>2. CASE Report(j) /\ events' = Recorded(j, Outcome(child[j], why[j]))
    <3>1. events'[j].state = Outcome(child[j], why[j])
      BY <2>2, OutcomeFinal, RecordedType
    <3>2. QED
      BY <1>3, <2>2, <3>1 DEF Report
  <2>3. CASE events' = Recorded(j, "ORPHANED")
    <3>1. events'[j].state = "ORPHANED"
      BY <2>3, RecordedType DEF FINAL_STATES
    <3>2. QED
      BY <3>1 DEF Truthful
  <2>4. QED
    BY <2>1, <2>2, <2>3, EventMoves DEF EventMove
<1>6. PICK row, event : row = rows'[j].state /\ event = events'[j].state
  OBVIOUS
<1>7. /\ Truthful(j, row)' /\ Truthful(j, event)'
      /\ child[j] = "nonzero" => child'[j] = "nonzero"
  BY <1>4, <1>5, <1>6, TruthLasts
<1>8. QED
  BY <1>5, <1>6, <1>7 DEF Truthful

\* Nobody goes back to where he began.
LEMMA NoReturn ==
    ASSUME BrokerTypeOK, SupervisorFollows, [BrokerNext]_brokerVars, NEW j \in Job
    PROVE  /\ worker'[j] = "none" => worker[j] = "none"
           /\ worker'[j] \in Early => worker[j] \in Early
           /\ client'[j] = "idle" => client[j] = "idle"
<1> DEFINE Kept == /\ worker'[j] = "none" => worker[j] = "none"
                   /\ worker'[j] \in Early => worker[j] \in Early
                   /\ client'[j] = "idle" => client[j] = "idle"
<1> USE DEF Early
<1>0. client \in [Job -> {"idle", "accepted", "spawned", "done", "dead"}]
      /\ worker \in [Job -> {"none", "started", "launched", "collected", "recorded", "reported",
                             "failing", "exited", "dead"} \cup Waiting]
  BY DEF BrokerTypeOK
<1>1. ASSUME NEW k \in Job, Accept(k) \/ Spawn(k) \/ Enqueue(k) \/ ClientDies(k)
      PROVE  Kept
  BY <1>0, <1>1 DEF Accept, Spawn, Enqueue, ClientDies, SupervisorFollows
<1>2. ASSUME NEW k \in Job, Launch(k) \/ Announce(k) \/ Poll(k)
      PROVE  Kept
  BY <1>0, <1>2 DEF Launch, Announce, Poll
<1>3. ASSUME NEW k \in Job, Check(k) \/ Wait(k)
      PROVE  Kept
  BY <1>0, <1>3 DEF Check, Wait
<1>4. ASSUME NEW k \in Job, Record(k) \/ Report(k) \/ Append(k) \/ GiveUp(k)
      PROVE  Kept
  BY <1>0, <1>4 DEF Record, Report, Append, GiveUp
<1>5. ASSUME NEW k \in Job, Raise(k) \/ SupervisorDies(k) \/ CancelSignal(k)
      PROVE  Kept
  BY <1>0, <1>5 DEF Raise, SupervisorDies, CancelSignal
<1>6. CASE client' = client /\ worker' = worker
  BY <1>6
<1>7. QED
  BY <1>1, <1>2, <1>3, <1>4, <1>5, <1>6, Writers DEF Writes

\* A job that recover gives up has announced its command, which has ended or has no
\* supervisor any more.
LEMMA GivenUpIsOver ==
    ASSUME BrokerTypeOK, ListNamesProcess, NEW r \in recovery.list,
           NEW alive \in PidAlive(r.job, r.pid), ~alive
    PROVE  /\ worker[r.job] \notin Early
           /\ ~(Live(child[r.job]) /\ Supervising(r.job))
<1>0. r.job \in Job /\ r.pid \in {"worker", "child"}
  BY DEF BrokerTypeOK, ListNamesProcess, Pid
<1>1. CASE r.pid = "worker"
  <2>1. PidAlive(r.job, r.pid) = IF Supervising(r.job) THEN {TRUE} ELSE BOOLEAN
    BY <1>1, Zenon DEF PidAlive
  <2>2. ~Supervising(r.job)
    <3>1. SUFFICES ASSUME Supervising(r.job) PROVE FALSE
      OBVIOUS
    <3>2. PidAlive(r.job, r.pid) = {TRUE}
      BY <2>1, <3>1
    <3>3. alive = TRUE
      BY <3>2
    <3>4. QED
      BY <3>3
  <2>3. QED
    BY <1>0, <2>2 DEF Supervising, Early, ListNamesProcess
<1>2. CASE r.pid = "child"
  <2>1. PidAlive(r.job, r.pid)
          = {Live(child[r.job]) \/ worker[r.job] \in Waiting \cup {"failing"}}
    BY <1>2, Zenon DEF PidAlive
  <2>2. ~Live(child[r.job])
    BY <2>1
  <2>3. QED
    BY <1>2, <2>2 DEF ListNamesProcess
<1>3. QED
  BY <1>0, <1>1, <1>2

LEMMA RowsNameProcessStep ==
    ASSUME BrokerTypeOK, SupervisorFollows, RowsNameProcess, ListNamesProcess, [BrokerNext]_brokerVars
    PROVE  RowsNameProcess'
<1> SUFFICES ASSUME NEW j \in Job
             PROVE  /\ client'[j] = "idle" => rows'[j].state = "absent"
                    /\ worker'[j] = "none" => rows'[j].state \in {"absent", "ACCEPTED"}
                    /\ worker'[j] \in Early => rows'[j].state \in {"absent", "ACCEPTED", "QUEUED"}
                    /\ rows'[j].state = "QUEUED" => rows'[j].pid = "worker"
                    /\ rows'[j].state = "RUNNING" => rows'[j].pid = "child"
  BY DEF RowsNameProcess
<1>1. /\ worker'[j] = "none" => worker[j] = "none"
      /\ worker'[j] \in Early => worker[j] \in Early
      /\ client'[j] = "idle" => client[j] = "idle"
  BY NoReturn
<1>2. /\ client[j] = "idle" => rows[j].state = "absent" /\ worker[j] = "none"
      /\ client[j] = "spawned" => worker[j] # "none"
      /\ worker[j] = "none" => rows[j].state \in {"absent", "ACCEPTED"}
      /\ worker[j] \in Early => rows[j].state \in {"absent", "ACCEPTED", "QUEUED"}
      /\ rows[j].state = "QUEUED" => rows[j].pid = "worker"
      /\ rows[j].state = "RUNNING" => rows[j].pid = "child"
  BY DEF RowsNameProcess, SupervisorFollows
<1>3. CASE rows'[j].state = rows[j].state /\ rows'[j].pid = rows[j].pid
  BY <1>1, <1>2, <1>3
<1>4. CASE Accept(j) /\ rows'[j].state = "ACCEPTED"
  <2>1. client'[j] # "idle"
    BY <1>4 DEF Accept, BrokerTypeOK
  <2>2. QED
    BY <1>4, <2>1
<1>5. CASE Enqueue(j) /\ rows'[j].state = "QUEUED" /\ rows'[j].pid = "worker"
  BY <1>1, <1>2, <1>5 DEF Enqueue
<1>6. CASE Announce(j) /\ rows'[j].state = "RUNNING" /\ rows'[j].pid = "child"
  <2>1. worker[j] = "launched" /\ worker'[j] = "watching"
    BY <1>6 DEF Announce, BrokerTypeOK
  <2>2. QED
    BY <1>1, <1>2, <1>6, <2>1 DEF Early
<1>7. CASE Record(j) /\ rows'[j].state = Outcome(child[j], why[j])
  <2>1. worker[j] = "collected" /\ rows'[j].state \in FINAL_STATES
    BY <1>7, OutcomeFinal DEF Record
  <2>2. QED
    BY <1>1, <1>2, <2>1 DEF Early, FINAL_STATES
<1>8. CASE GiveUp(j) /\ rows'[j].state = "FAILED"
  BY <1>1, <1>2, <1>8 DEF GiveUp, Early
<1>9. CASE /\ rows'[j].state = "ORPHANED"
           /\ \E r \in recovery.list : r.job = j /\ \E alive \in PidAlive(j, r.pid) : ~alive
  <2>1. worker[j] \notin Early
    BY <1>9, GivenUpIsOver
  <2>2. QED
    BY <1>1, <1>2, <1>9, <2>1 DEF Early
<1>10. QED
  BY <1>3, <1>4, <1>5, <1>6, <1>7, <1>8, <1>9, RowMoves DEF RowMove

LEMMA ListNamesProcessStep ==
    ASSUME BrokerTypeOK, SupervisorFollows, RowsNameProcess, ListNamesProcess, [BrokerNext]_brokerVars
    PROVE  ListNamesProcess'
<1> SUFFICES ASSUME NEW r \in recovery'.list
             PROVE  /\ r.pid # "none"
                    /\ worker'[r.job] # "none"
                    /\ r.pid = "child" => worker'[r.job] \notin Early
  BY DEF ListNamesProcess
<1>1. CASE r \in recovery.list
  <2>1. r.job \in Job
    BY <1>1 DEF BrokerTypeOK
  <2>2. QED
    BY <1>1, <2>1, NoReturn DEF ListNamesProcess
<1>2. CASE r \notin recovery.list
  <2>1. CASE RecoverList
    <3>1. PICK j \in Job : /\ rows[j].state \in {"QUEUED", "RUNNING"}
                           /\ r = [job |-> j, pid |-> rows[j].pid]
      BY <2>1 DEF RecoverList
    <3>2. r.job = j /\ r.pid = rows[j].pid /\ worker' = worker
      BY <2>1, <3>1 DEF RecoverList
    <3>3. QED
      BY <3>1, <3>2 DEF RowsNameProcess
  <2>2. CASE RecoverCheck
    <3>1. PICK checked \in recovery.list :
             \/ recovery' = [recovery EXCEPT !.list = @ \ {checked}]
             \/ recovery' = [recovery EXCEPT !.list = @ \ {checked}, !.job = checked.job,
                                          !.at = "report"]
      BY <2>2 DEF RecoverCheck
    <3>2. recovery'.list = recovery.list \ {checked}
      BY <3>1 DEF BrokerTypeOK
    <3>3. QED
      BY <1>2, <3>2
  <2>3. CASE RecoverReport \/ RecoverAppend
    BY <1>2, <2>3 DEF RecoverReport, RecoverAppend, BrokerTypeOK
  <2>4. CASE RecoverEnds
    BY <2>4 DEF RecoverEnds, BrokerTypeOK
  <2>5. CASE recovery' = recovery
    BY <1>2, <2>5
  <2>6. QED
    BY <2>1, <2>2, <2>3, <2>4, <2>5, Writers DEF Writes, Recoverer
<1>3. QED
  BY <1>1, <1>2

LEMMA EventsOnlyReported ==
    ASSUME BrokerTypeOK, AppendersRecorded, [BrokerNext]_brokerVars
    PROVE  \/ events' = events /\ issued' = issued
           \/ /\ consumer' = consumer /\ issued' = issued + 1
              /\ \E k \in Job, state \in FINAL_STATES : events' = Recorded(k, state)
<1> DEFINE Goal == \/ events' = events /\ issued' = issued
                   \/ /\ consumer' = consumer /\ issued' = issued + 1
                      /\ \E k \in Job, state \in FINAL_STATES : events' = Recorded(k, state)
<1>1. ASSUME NEW k \in Job, Report(k) PROVE Goal
  BY <1>1, OutcomeFinal DEF Report, NextSequence
<1>2. CASE RecoverReport
  <2>1. recovery.job \in Job /\ "ORPHANED" \in FINAL_STATES
    BY <1>2 DEF RecoverReport, AppendersRecorded, FINAL_STATES
  <2>2. QED
    BY <1>2, <2>1 DEF RecoverReport, NextSequence
<1>3. CASE events' = events /\ issued' = issued
  BY <1>3
<1>4. QED
  BY <1>1, <1>2, <1>3, Writers DEF Writes

\* A new event has a number above all others, and an event keeps its number.
OneMore ==
    \E k \in Job : /\ events[k].sequence = 0
                   /\ events'[k].sequence = issued + 1
                   /\ \A j \in Job \ {k} : events'[j].sequence = events[j].sequence
                   /\ issued' = issued + 1
                   /\ consumer' = consumer

NoMore ==
    /\ \A j \in Job : events'[j].sequence = events[j].sequence
    /\ issued' \in Nat /\ issued <= issued'

LEMMA NumbersGrow ==
    ASSUME BrokerTypeOK, AppendersRecorded, [BrokerNext]_brokerVars
    PROVE  NoMore \/ OneMore
<1>0. issued \in Nat
  BY DEF BrokerTypeOK
<1>1. CASE events' = events /\ issued' = issued
  BY <1>0, <1>1 DEF NoMore
<1>2. CASE ~(events' = events /\ issued' = issued)
  <2>1. PICK k \in Job, state \in FINAL_STATES : events' = Recorded(k, state)
    BY <1>2, EventsOnlyReported
  <2>2. consumer' = consumer /\ issued' = issued + 1
    BY <1>2, EventsOnlyReported
  <2>3. /\ events'[k].sequence = IF events[k].sequence = 0 THEN issued + 1 ELSE events[k].sequence
        /\ \A j \in Job \ {k} : events'[j] = events[j]
    BY <2>1, RecordedType
  <2>4. CASE events[k].sequence = 0
    BY <2>2, <2>3, <2>4 DEF OneMore
  <2>5. CASE events[k].sequence # 0
    BY <1>0, <2>2, <2>3, <2>5 DEF NoMore
  <2>6. QED
    BY <2>4, <2>5
<1>3. QED
  BY <1>1, <1>2

LEMMA EventsStay ==
    ASSUME BrokerTypeOK, AppendersRecorded, [BrokerNext]_brokerVars, NEW j \in Job, events[j].sequence > 0
    PROVE  events'[j].sequence = events[j].sequence
BY NumbersGrow DEF NoMore, OneMore, BrokerTypeOK

LEMMA AppendersRecordedStep ==
    ASSUME BrokerTypeOK, AppendersRecorded, [BrokerNext]_brokerVars PROVE AppendersRecorded'
<1>1. ASSUME NEW j \in Job, worker'[j] = "reported" PROVE events'[j].sequence > 0
  <2> DEFINE Goal == events'[j].sequence > 0
  <2>1. CASE worker[j] = "reported"
    BY <2>1, EventsStay DEF AppendersRecorded
  <2>2. CASE Report(j)
    <3>1. events' = Recorded(j, Outcome(child[j], why[j])) /\ Outcome(child[j], why[j]) \in FINAL_STATES
      BY <2>2, OutcomeFinal DEF Report
    <3>2. QED
      BY <3>1, RecordedType
  <2>3. CASE worker[j] # "reported" /\ ~Report(j)
    <3>0. worker \in [Job -> {"none", "started", "launched", "collected", "recorded", "reported",
                              "failing", "exited", "dead"} \cup Waiting]
      BY DEF BrokerTypeOK
    <3>1. ASSUME NEW k \in Job, Accept(k) \/ Spawn(k) \/ Launch(k) \/ Announce(k) \/ Poll(k)
          PROVE  FALSE
      BY <1>1, <2>3, <3>0, <3>1 DEF Accept, Spawn, Launch, Announce, Poll
    <3>2. ASSUME NEW k \in Job, Check(k) \/ Wait(k) \/ Record(k)
          PROVE  FALSE
      BY <1>1, <2>3, <3>0, <3>2 DEF Check, Wait, Record
    <3>3. ASSUME NEW k \in Job, Report(k)
          PROVE  FALSE
      BY <1>1, <2>3, <3>0, <3>3 DEF Report
    <3>4. ASSUME NEW k \in Job, Append(k) \/ GiveUp(k) \/ Raise(k) \/ SupervisorDies(k) \/ CancelSignal(k)
          PROVE  FALSE
      BY <1>1, <2>3, <3>0, <3>4 DEF Append, GiveUp, Raise, SupervisorDies, CancelSignal
    <3>5. CASE worker' = worker
      BY <1>1, <2>3, <3>5
    <3>6. QED
      BY <3>1, <3>2, <3>3, <3>4, <3>5, Writers DEF Writes
  <2>4. QED
    BY <2>1, <2>2, <2>3
<1>2. ASSUME recovery'.at \in {"report", "append"}
      PROVE  /\ recovery'.job \in Job
             /\ recovery'.at = "append" => events'[recovery'.job].sequence > 0
  <2>1. CASE recovery' = recovery
    BY <1>2, <2>1, EventsStay DEF AppendersRecorded
  <2>2. CASE RecoverList \/ RecoverAppend \/ RecoverEnds
    <3>1. RecoverList => recovery'.at = "scan"
      BY DEF RecoverList
    <3>2. RecoverAppend => recovery'.at = "scan"
      BY DEF RecoverAppend, BrokerTypeOK
    <3>3. RecoverEnds => recovery'.at = "idle"
      BY DEF RecoverEnds, BrokerTypeOK
    <3>4. QED
      BY <1>2, <2>2, <3>1, <3>2, <3>3
  <2>3. CASE RecoverCheck
    <3>1. PICK r \in recovery.list :
             \/ recovery' = [recovery EXCEPT !.list = @ \ {r}]
             \/ recovery' = [recovery EXCEPT !.list = @ \ {r}, !.job = r.job, !.at = "report"]
      BY <2>3 DEF RecoverCheck
    <3>2. recovery.at = "scan" /\ r.job \in Job
      BY <2>3 DEF RecoverCheck, BrokerTypeOK
    <3>3. QED
      BY <1>2, <3>1, <3>2 DEF BrokerTypeOK
  <2>4. CASE RecoverReport
    <3>1. PICK k \in Job : k = recovery.job /\ recovery.at = "report"
      BY <2>4 DEF RecoverReport, AppendersRecorded
    <3>2. events' = Recorded(k, "ORPHANED") /\ recovery'.job = k
      BY <2>4, <3>1 DEF RecoverReport, BrokerTypeOK
    <3>3. events'[k].sequence > 0
      BY <3>2, RecordedType DEF FINAL_STATES
    <3>4. QED
      BY <3>2, <3>3
  <2>5. QED
    BY <2>1, <2>2, <2>3, <2>4, Writers DEF Writes, Recoverer
<1>3. QED
  BY <1>1, <1>2 DEF AppendersRecorded

LEMMA LinesBehindEventsStep ==
    ASSUME BrokerTypeOK, AppendersRecorded, LinesBehindEvents, [BrokerNext]_brokerVars PROVE LinesBehindEvents'
<1> SUFFICES ASSUME NEW j \in Job, lines'[j] # "absent" PROVE events'[j].sequence > 0
  BY DEF LinesBehindEvents
<1>0. events[j].sequence > 0 => events'[j].sequence > 0
  BY EventsStay
<1>1. CASE lines[j] # "absent"
  BY <1>0, <1>1 DEF LinesBehindEvents
<1>2. ASSUME NEW k \in Job, Append(k), lines[j] = "absent" PROVE events[j].sequence > 0
  BY <1>2 DEF Append, AppendersRecorded, BrokerTypeOK
<1>3. CASE RecoverAppend /\ lines[j] = "absent"
  BY <1>0, <1>3 DEF RecoverAppend, AppendersRecorded, BrokerTypeOK
<1>4. CASE lines' = lines
  BY <1>1, <1>4
<1>5. QED
  BY <1>0, <1>1, <1>2, <1>3, <1>4, Writers DEF Writes

-----------------------------------------------------------------------------
(* The consumer.                                                              *)

\* An event that a page leaves out comes after all events of the page.
LEMMA PageIsPrefix ==
    ASSUME BrokerTypeOK, NEW after \in Nat, NEW i \in Page(after), NEW j \in Job,
           events[j].sequence > after, events[j].sequence <= events[i].sequence
    PROVE  j \in Page(after)
<1> DEFINE UpTo(k) == {m \in Job : events[m].sequence \in after + 1 .. events[k].sequence}
<1>1. i \in Job /\ Cardinality(UpTo(i)) <= PageLimit
  BY DEF Page
<1>2. \A m \in Job : events[m].sequence \in Nat
  BY DEF BrokerTypeOK
<1>3. UpTo(j) \subseteq UpTo(i) /\ UpTo(i) \subseteq Job
  BY <1>1, <1>2
<1>4. IsFiniteSet(UpTo(i)) /\ Cardinality(UpTo(i)) \in Nat
  BY <1>3, BrokerAssumption, FS_Subset, FS_CardinalityType
<1>5. Cardinality(UpTo(j)) \in Nat /\ Cardinality(UpTo(j)) <= Cardinality(UpTo(i))
  BY <1>3, <1>4, FS_Subset, FS_CardinalityType
<1> HIDE DEF UpTo
<1>6. Cardinality(UpTo(j)) <= PageLimit
  BY <1>1, <1>4, <1>5, BrokerAssumption
<1>7. QED
  BY <1>6 DEF Page, UpTo

\* A page takes the cursor to the number of one of its events, and holds all the
\* events up to there and no others.
LEMMA DrainMoves ==
    ASSUME BrokerTypeOK, NumbersCounted, Drain
    PROVE  /\ \E i \in Job : consumer'.cursor = events[i].sequence
           /\ consumer.cursor < consumer'.cursor
           /\ \E i \in Page(consumer.cursor) : consumer'.cursor = events[i].sequence
           /\ Page(consumer.cursor) =
                 {j \in Job : events[j].sequence \in consumer.cursor + 1 .. consumer'.cursor}
           /\ \A j \in Job :
                 consumer'.seen[j] = consumer.seen[j]
                    + IF events[j].sequence \in consumer.cursor + 1 .. consumer'.cursor THEN 1 ELSE 0
<1> DEFINE after == consumer.cursor
           page == Page(after)
           last == Cursor(after, page)
<1>1. /\ after \in Nat /\ page # {}
      /\ consumer' = [cursor |-> last,
                      seen |-> [j \in Job |-> consumer.seen[j] + IF j \in page THEN 1 ELSE 0]]
  BY DEF Drain, BrokerTypeOK
<1>2. PICK i \in page : last = events[i].sequence
  BY <1>1, CursorIsLast DEF NumbersCounted
<1>3. \A j \in page : events[j].sequence <= last
  BY <1>1, CursorIsLast DEF NumbersCounted
<1>4. /\ \A j \in page : j \in Job /\ events[j].sequence > after
      /\ \A j \in Job : events[j].sequence \in Nat
  BY DEF Page, BrokerTypeOK
<1>5. ASSUME NEW j \in Job, events[j].sequence > after, events[j].sequence <= last
      PROVE  j \in page
  BY <1>1, <1>2, <1>5, PageIsPrefix
<1>6. \A j \in Job : j \in page <=> events[j].sequence \in after + 1 .. last
  BY <1>1, <1>2, <1>3, <1>4, <1>5
<1>10. page \subseteq Job /\ page = Page(consumer.cursor)
  BY <1>4
<1> HIDE DEF after, page, last
<1>7. consumer'.cursor = last /\ \A j \in Job :
         consumer'.seen[j] = consumer.seen[j] + IF j \in page THEN 1 ELSE 0
  BY <1>1
<1>8. after < last /\ last = events[i].sequence /\ i \in Job
  BY <1>1, <1>2, <1>4
<1>9. page = {j \in Job : events[j].sequence \in after + 1 .. last}
  BY <1>6, <1>10
<1>11. QED
  BY <1>2, <1>6, <1>7, <1>8, <1>9, <1>10 DEF after

LEMMA ConsumerStays ==
    ASSUME [BrokerNext]_brokerVars, ~Drain PROVE consumer' = consumer
BY Writers DEF Writes

LEMMA NumbersCountedStep ==
    ASSUME BrokerTypeOK, AppendersRecorded, NumbersCounted, [BrokerNext]_brokerVars PROVE NumbersCounted'
<1>0. /\ issued \in Nat /\ consumer.cursor \in Nat /\ consumer.cursor <= issued
      /\ \A j \in Job : events[j].sequence \in Nat /\ events[j].sequence <= issued
  BY DEF NumbersCounted, BrokerTypeOK
<1>1. issued' \in Nat /\ issued <= issued' /\ \A j \in Job : events'[j].sequence <= issued'
  BY <1>0, NumbersGrow DEF NoMore, OneMore
<1>2. consumer'.cursor <= issued'
  <2>1. CASE Drain
    <3>1. consumer'.cursor <= issued
      BY <1>0, <2>1, DrainMoves
    <3>2. QED
      BY <1>0, <1>1, <2>1, <3>1, DrainMoves
  <2>2. CASE ~Drain
    BY <1>0, <1>1, <2>2, ConsumerStays
  <2>3. QED
    BY <2>1, <2>2
<1>3. QED
  BY <1>1, <1>2 DEF NumbersCounted

LEMMA HandedOverOnceStep ==
    ASSUME BrokerTypeOK, AppendersRecorded, NumbersCounted, HandedOverOnce, [BrokerNext]_brokerVars
    PROVE  HandedOverOnce'
<1> SUFFICES ASSUME NEW j \in Job
             PROVE  consumer'.seen[j] =
                       IF events'[j].sequence \in 1 .. consumer'.cursor THEN 1 ELSE 0
  BY DEF HandedOverOnce
<1>0. /\ issued \in Nat
      /\ consumer.cursor \in Nat /\ consumer.cursor <= issued
      /\ events[j].sequence \in Nat
      /\ consumer.seen[j] = IF events[j].sequence \in 1 .. consumer.cursor THEN 1 ELSE 0
  BY DEF NumbersCounted, BrokerTypeOK, HandedOverOnce
<1>1. CASE Drain
  <2>1. events' = events
    BY <1>1 DEF Drain
  <2>2. PICK i \in Job : consumer'.cursor = events[i].sequence
    BY <1>1, DrainMoves
  <2>3. consumer'.cursor \in Nat /\ consumer.cursor < consumer'.cursor
    BY <1>1, <2>2, DrainMoves DEF BrokerTypeOK
  <2>4. consumer'.seen[j] = consumer.seen[j]
           + IF events[j].sequence \in consumer.cursor + 1 .. consumer'.cursor THEN 1 ELSE 0
    BY <1>1, DrainMoves
  <2>5. QED
    BY <1>0, <2>1, <2>3, <2>4
<1>2. CASE ~Drain
  <2>1. consumer' = consumer
    BY <1>2, ConsumerStays
  <2>2. \/ events'[j].sequence = events[j].sequence
        \/ events[j].sequence = 0 /\ events'[j].sequence = issued + 1
    BY NumbersGrow DEF NoMore, OneMore
  <2>3. QED
    BY <1>0, <2>1, <2>2
<1>3. QED
  BY <1>1, <1>2

-----------------------------------------------------------------------------
LEMMA InvInit == BrokerInit => IInv
<1> SUFFICES ASSUME BrokerInit PROVE IInv
  OBVIOUS
<1>1. BrokerTypeOK
  BY BrokerAssumption DEF BrokerInit, BrokerTypeOK, States, Pid
<1>2. SupervisorFollows /\ StoppedForReason /\ TruthfulRecords
  BY DEF BrokerInit, SupervisorFollows, StoppedForReason, TruthfulRecords, Waiting
<1>3. RowsNameProcess /\ ListNamesProcess
  BY DEF BrokerInit, RowsNameProcess, ListNamesProcess
<1>4. AppendersRecorded /\ LinesBehindEvents
  BY DEF BrokerInit, AppendersRecorded, LinesBehindEvents
<1>5. NumbersCounted /\ HandedOverOnce
  BY DEF BrokerInit, NumbersCounted, HandedOverOnce
<1>6. QED
  BY <1>1, <1>2, <1>3, <1>4, <1>5 DEF IInv

LEMMA InvNext == IInv /\ [BrokerNext]_brokerVars => IInv'
<1> SUFFICES ASSUME IInv, [BrokerNext]_brokerVars PROVE IInv'
  OBVIOUS
<1> USE DEF IInv
<1>1. BrokerTypeOK'
  BY TypeStep
<1>2. SupervisorFollows' /\ StoppedForReason' /\ TruthfulRecords'
  BY SupervisorFollowsStep, StoppedForReasonStep, TruthfulRecordsStep
<1>3. RowsNameProcess' /\ ListNamesProcess'
  BY RowsNameProcessStep, ListNamesProcessStep
<1>4. AppendersRecorded' /\ LinesBehindEvents'
  BY AppendersRecordedStep, LinesBehindEventsStep
<1>5. NumbersCounted' /\ HandedOverOnce'
  BY NumbersCountedStep, HandedOverOnceStep
<1>6. QED
  BY <1>1, <1>2, <1>3, <1>4, <1>5

LEMMA Invariant == BrokerSpec => []IInv
BY InvInit, InvNext, PTL DEF BrokerSpec

\* The tables, the files and the memory of every process of the broker keep their
\* types; in particular recover always knows whose end it records.
THEOREM TypeCorrect == BrokerSpec => []BrokerTypeOK
<1>1. IInv => BrokerTypeOK
  BY DEF IInv
<1>2. QED
  BY <1>1, Invariant, PTL

\* What _execute records happened: the command is over, as recorded, and it was
\* stopped only at its deadline or at somebody's request.
THEOREM RecordsTruthful == BrokerSpec => []TruthfulRecords
<1>1. IInv => TruthfulRecords
  BY DEF IInv
<1>2. QED
  BY <1>1, Invariant, PTL

\* Every line of completions.jsonl has its event in the table (append_completion).
THEOREM EventsLead == BrokerSpec => []LinesBehindEvents
<1>1. IInv => LinesBehindEvents
  BY DEF IInv
<1>2. QED
  BY <1>1, Invariant, PTL

\* drain_completions hands an event to a consumer once, whatever the limit of a page.
THEOREM EventsHandedOverOnce == BrokerSpec => []HandedOverOnce
<1>1. IInv => HandedOverOnce
  BY DEF IInv
<1>2. QED
  BY <1>1, Invariant, PTL

-----------------------------------------------------------------------------
(* What a step never does.                                                    *)

\* recover gives up no job whose command runs under a live supervisor.
THEOREM LiveJobsKept == BrokerSpec => NoLiveJobOrphaned
<1>1. ASSUME IInv, [BrokerNext]_brokerVars, NEW j \in Job,
             rows'[j].state = "ORPHANED", rows[j].state # "ORPHANED"
      PROVE  ~(Live(child[j]) /\ Supervising(j))
  <2>1. BrokerTypeOK /\ ListNamesProcess /\ RowMove(j)
    BY <1>1, RowMoves DEF IInv
  <2>2. ~(Record(j) /\ rows'[j].state = Outcome(child[j], why[j]))
    BY <1>1, <2>1, OutcomeSays DEF BrokerTypeOK
  <2>3. PICK r \in recovery.list : r.job = j /\ \E alive \in PidAlive(j, r.pid) : ~alive
    BY <1>1, <2>1, <2>2 DEF RowMove
  <2>4. QED
    BY <2>1, <2>3, GivenUpIsOver
<1>2. IInv /\ [BrokerNext]_brokerVars =>
         [\A j \in Job : (rows'[j].state = "ORPHANED" /\ rows[j].state # "ORPHANED")
                        => ~(Live(child[j]) /\ Supervising(j))]_brokerVars
  BY <1>1
<1>3. QED
  BY <1>2, Invariant, PTL DEF BrokerSpec, NoLiveJobOrphaned

\* A final state is taken back only by the QUEUED of a submit under way.
THEOREM FinalStatesStay == BrokerSpec => FinalStatesKept
<1>1. ASSUME IInv, [BrokerNext]_brokerVars, NEW j \in Job,
             rows[j].state \in FINAL_STATES, rows'[j].state \notin FINAL_STATES
      PROVE  client[j] = "spawned"
  <2>1. RowsNameProcess /\ RowMove(j)
    BY <1>1, RowMoves DEF IInv
  <2>2. ~Accept(j)
    BY <1>1, <2>1 DEF Accept, RowsNameProcess, FINAL_STATES
  <2>3. ~Announce(j)
    BY <1>1, <2>1 DEF Announce, RowsNameProcess, Early, FINAL_STATES
  <2>4. rows'[j].state \notin {"FAILED", "ORPHANED", Outcome(child[j], why[j])}
    BY <1>1, OutcomeFinal DEF FINAL_STATES
  <2>5. Enqueue(j)
    BY <1>1, <2>1, <2>2, <2>3, <2>4 DEF RowMove
  <2>6. QED
    BY <2>5 DEF Enqueue
<1>2. IInv /\ [BrokerNext]_brokerVars =>
         [\A j \in Job : (rows[j].state \in FINAL_STATES /\ rows'[j].state \notin FINAL_STATES)
                        => client[j] = "spawned"]_brokerVars
  BY <1>1
<1>3. QED
  BY <1>2, Invariant, PTL DEF BrokerSpec, FinalStatesKept

-----------------------------------------------------------------------------
(* The broker implements CompletionQueue.                                     *)

RecordedJobs == {j \in Job : events[j].sequence > 0}
Earlier == [j \in Job |-> {k \in Job : /\ events[k].sequence > 0
                                       /\ events[k].sequence < events[j].sequence}]
Given == {j \in Job : consumer.seen[j] = 1}

\* What the consumer was handed are the events up to its cursor.
LEMMA GivenUpToCursor ==
    ASSUME HandedOverOnce
    PROVE  Given = {j \in Job : events[j].sequence \in 1 .. consumer.cursor}
BY DEF Given, HandedOverOnce

LEMMA DrainHands ==
    ASSUME IInv, IInv', Drain
    PROVE  Completions!Next
<1>0. PICK next : next = Page(consumer.cursor)
  OBVIOUS
<1>1. /\ BrokerTypeOK /\ NumbersCounted /\ HandedOverOnce /\ HandedOverOnce' /\ events' = events
      /\ consumer.cursor \in Nat /\ \A j \in Job : events[j].sequence \in Nat
  BY DEF IInv, Drain, BrokerTypeOK
<1>2. PICK i \in next : consumer'.cursor = events[i].sequence
  BY <1>0, <1>1, DrainMoves
<1>3. /\ next = {j \in Job : events[j].sequence \in consumer.cursor + 1 .. consumer'.cursor}
      /\ consumer.cursor < consumer'.cursor
  BY <1>0, <1>1, DrainMoves
<1>4. Cardinality(next) <= PageLimit
  BY <1>0, <1>2, <1>3 DEF Page
<1>5. Given = {j \in Job : events[j].sequence \in 1 .. consumer.cursor}
  BY <1>1, GivenUpToCursor
<1>6. Given' = {j \in Job : events[j].sequence \in 1 .. consumer'.cursor}
  BY <1>1 DEF Given, HandedOverOnce
<1>7. i \in Job /\ consumer'.cursor \in Nat
  BY <1>1, <1>2, <1>3
<1>8. next \subseteq RecordedJobs \ Given /\ next # {} /\ next \in SUBSET Job
  BY <1>1, <1>2, <1>3, <1>5, <1>7 DEF RecordedJobs
<1>9. Given' = Given \cup next
  BY <1>1, <1>3, <1>5, <1>6, <1>7
<1>10. \A j \in next : Earlier[j] \subseteq Given \cup next
  BY <1>1, <1>3, <1>5, <1>7 DEF Earlier
<1>11. RecordedJobs' = RecordedJobs /\ Earlier' = Earlier
  BY <1>1 DEF RecordedJobs, Earlier
<1>12. Completions!Hand(next)
  <2>1. next # {} /\ next \subseteq RecordedJobs \ Given /\ Cardinality(next) <= PageLimit
    BY <1>4, <1>8
  <2>2. \A j \in next : Earlier[j] \subseteq Given \cup next
    BY <1>10
  <2>3. Given' = Given \cup next /\ UNCHANGED <<RecordedJobs, Earlier>>
    BY <1>9, <1>11
  <2>4. Completions!Cardinality(next) = Cardinality(next)
    BY DEF Cardinality, Completions!Cardinality
  <2>5. QED
    BY <2>1, <2>2, <2>3, <2>4 DEF RecordedJobs, Earlier, Given, Completions!Hand
<1>13. QED
  BY <1>8, <1>12 DEF Completions!Next

\* A new event has the largest number: all the others are earlier.
LEMMA OneMoreRecords ==
    ASSUME IInv, OneMore
    PROVE  Completions!Next
<1>1. /\ issued \in Nat
      /\ \A j \in Job : events[j].sequence \in Nat /\ events[j].sequence <= issued
  BY DEF IInv, BrokerTypeOK, NumbersCounted
<1>2. PICK k \in Job : /\ events[k].sequence = 0
                       /\ events'[k].sequence = issued + 1
                       /\ \A j \in Job \ {k} : events'[j].sequence = events[j].sequence
                       /\ consumer' = consumer
  BY DEF OneMore
<1>3. k \notin RecordedJobs /\ RecordedJobs' = RecordedJobs \cup {k}
  BY <1>1, <1>2 DEF RecordedJobs
<1>4. Earlier' = [Earlier EXCEPT ![k] = RecordedJobs]
  <2>1. Earlier'[k] = RecordedJobs
    BY <1>1, <1>2 DEF Earlier, RecordedJobs
  <2>2. ASSUME NEW j \in Job \ {k} PROVE Earlier'[j] = Earlier[j]
    BY <1>1, <1>2 DEF Earlier
  <2>3. QED
    BY <2>1, <2>2 DEF Earlier
<1>5. Given' = Given
  BY <1>2 DEF Given
<1>6. Completions!Record(k)
  BY <1>3, <1>4, <1>5 DEF RecordedJobs, Earlier, Given, Completions!Record
<1>7. QED
  BY <1>6 DEF Completions!Next

LEMMA StepKeepsPromises ==
    ASSUME IInv, IInv', [BrokerNext]_brokerVars
    PROVE  [Completions!Next]_(Completions!vars)
<1>1. CASE Drain
  BY <1>1, DrainHands
<1>2. CASE ~Drain
  <2>1. consumer' = consumer
    BY <1>2, ConsumerStays
  <2>2. CASE NoMore
    <3>1. RecordedJobs' = RecordedJobs /\ Earlier' = Earlier /\ Given' = Given
      BY <2>1, <2>2 DEF NoMore, RecordedJobs, Earlier, Given
    <3>2. QED
      BY <3>1 DEF RecordedJobs, Earlier, Given, Completions!vars
  <2>3. CASE OneMore
    BY <2>3, OneMoreRecords
  <2>4. QED
    BY <2>2, <2>3, NumbersGrow DEF IInv
<1>3. QED
  BY <1>1, <1>2

LEMMA InitKeepsPromises == BrokerInit => Completions!Init
<1> SUFFICES ASSUME BrokerInit PROVE Completions!Init
  OBVIOUS
<1>1. \A j \in Job : events[j].sequence = 0 /\ consumer.seen[j] = 0
  BY DEF BrokerInit
<1>2. QED
  BY <1>1 DEF Completions!Init

\* The broker implements CompletionQueue: whoever records the end of a job, in whatever
\* order and however often, the consumer gets every page in order, leaves nothing
\* behind its cursor and gets nothing twice (record_completion, drain_completions).
THEOREM BrokerImplementsQueue == BrokerSpec => KeepsCompletionPromises
<1>1. IInv /\ IInv' /\ [BrokerNext]_brokerVars => [Completions!Next]_(Completions!vars)
  BY StepKeepsPromises
<1>2. QED
  BY Invariant, InitKeepsPromises, <1>1, PTL DEF BrokerSpec, KeepsCompletionPromises, Completions!Spec
=============================================================================
