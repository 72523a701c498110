----------------------------- MODULE DatabasesProofs -----------------------------
(* Proofs about headless jobs and about the rollout of policies, for any     *)
(* number of jobs, processes, policies and managers, and about the three     *)
(* databases together.  The counters of a job are related to the executions  *)
(* that have ended and to those that are still under way.                    *)
EXTENDS MCDatabases, SessionRuntimeProofs, FiniteSetTheorems, TLAPS

-----------------------------------------------------------------------------
(* Headless jobs.                                                             *)

Process == Runner \cup Operator
JobRow == [state : JobStates, owner : Runner \cup {Nobody}, attempts : Nat]
Doing ==
    [at : {"rest", "read", "write", "executing"}, job : HeadlessJob \cup {0}, to : JobStates,
     seen : JobRow, last : BOOLEAN]
One(b) == IF b THEN 1 ELSE 0

\* d: where a process is.
Starts(d, j) == d.job = j /\ d.at \in {"read", "write"} /\ d.to = "running"
Finishes(d, j) ==
    /\ d.job = j
    /\ d.at = "executing" \/ (d.at \in {"read", "write"} /\ d.to \in {"completed", "failed"})
Starting(j) == {p \in Process : Starts(handling[p], j)}
Finishing(j) == {p \in Process : Finishes(handling[p], j)}

Proper(p, d) ==
    /\ d.at = "rest" <=> d = NotHandling
    /\ d.at # "rest" => d.job \in HeadlessJob
    /\ d.to = "running" => p \in Runner
    /\ d.at \in {"read", "write"} => d.to \in {"running", "completed", "failed", "cancelled", "queued"}
    /\ d.at \in {"read", "write"} /\ ~d.last => d.to \in {"completed", "failed"}

\* What a process has read may be stale, but was true.
Carried(d) ==
    d.at = "write" => /\ d.to \in Allowed(d.seen.state)
                      /\ d.seen.attempts <= events[d.job].running
                      /\ d.seen.state = "running" => d.seen.attempts >= 1

Counted(j) ==
    /\ events[j].claimed + One(rows[j].state = "queued") <= events[j].submitted + events[j].resumed
    /\ events[j].running + Cardinality(Starting(j)) <= events[j].claimed
    /\ events[j].completed + events[j].failed + Cardinality(Finishing(j)) <= events[j].running
    /\ rows[j].attempts <= events[j].running
    /\ rows[j].state \in {"running", "completed", "failed"} => rows[j].attempts >= 1

HeadlessTyped ==
    /\ rows \in [HeadlessJob -> JobRow]
    /\ events \in [HeadlessJob -> [EventTypes -> Nat]]
    /\ handling \in [Process -> Doing]

HeadlessInv ==
    /\ HeadlessTyped
    /\ \A p \in Process : Proper(p, handling[p]) /\ Carried(handling[p])
    /\ \A j \in HeadlessJob : Counted(j)

-----------------------------------------------------------------------------
LEMMA RestingFacts ==
    /\ NotHandling \in Doing /\ NotHandling.at = "rest"
    /\ \A p : Proper(p, NotHandling)
    /\ \A j : ~Starts(NotHandling, j) /\ ~Finishes(NotHandling, j)
  BY DEF NotHandling, Doing, JobRow, NoRow, JobStates, Proper, Starts, Finishes

LEMMA StepFacts ==
    ASSUME NEW at \in {"read", "executing"}, NEW j \in HeadlessJob, NEW to \in JobStates,
           NEW last \in BOOLEAN
    PROVE  /\ Step(at, j, to, last) \in Doing
           /\ Step(at, j, to, last).at = at /\ Step(at, j, to, last).job = j
           /\ Step(at, j, to, last).to = to /\ Step(at, j, to, last).last = last
           /\ Step(at, j, to, last) # NotHandling
  BY DEF Step, NotHandling, Doing, JobRow, NoRow, JobStates

LEMMA CountersTyped ==
    ASSUME NEW e \in [EventTypes -> Nat]
    PROVE  /\ e.claimed \in Nat /\ e.running \in Nat /\ e.completed \in Nat /\ e.failed \in Nat
           /\ e.submitted \in Nat /\ e.resumed \in Nat /\ e.cancelled \in Nat
<1>1. /\ "claimed" \in EventTypes /\ "running" \in EventTypes /\ "completed" \in EventTypes
      /\ "failed" \in EventTypes /\ "submitted" \in EventTypes /\ "resumed" \in EventTypes
      /\ "cancelled" \in EventTypes
  BY DEF EventTypes, JobStates
<1>2. QED
  BY <1>1

LEMMA ProcessesFinite ==
    ASSUME NEW j
    PROVE  /\ IsFiniteSet(Starting(j)) /\ Cardinality(Starting(j)) \in Nat
           /\ IsFiniteSet(Finishing(j)) /\ Cardinality(Finishing(j)) \in Nat
<1>1. Starting(j) \in SUBSET Process /\ Finishing(j) \in SUBSET Process /\ IsFiniteSet(Process)
  BY HeadlessAssumption DEF Starting, Finishing, Process
<1>2. QED
  BY <1>1, FS_Subset, FS_CardinalityType

LEMMA HeadlessInitInv == HeadlessInit => HeadlessInv
<1> SUFFICES ASSUME HeadlessInit PROVE HeadlessInv
  OBVIOUS
<1>1. /\ rows = [j \in HeadlessJob |-> NoRow] /\ handling = [p \in Process |-> NotHandling]
      /\ events = [j \in HeadlessJob |-> [e \in EventTypes |-> 0]]
  BY DEF HeadlessInit, Process
<1>2. NoRow \in JobRow /\ NoRow.state = "none" /\ NoRow.attempts = 0
  BY DEF NoRow, JobRow, JobStates
<1>3. HeadlessTyped
  BY <1>1, <1>2, RestingFacts DEF HeadlessTyped
<1>4. \A p \in Process : Proper(p, handling[p]) /\ Carried(handling[p])
  BY <1>1, RestingFacts DEF Carried
<1>5. ASSUME NEW j \in HeadlessJob PROVE Counted(j)
  <2>1. Starting(j) = {} /\ Finishing(j) = {}
    BY <1>1, RestingFacts DEF Starting, Finishing
  <2>2. Cardinality({}) = 0
    BY FS_EmptySet
  <2>3. /\ events[j].claimed = 0 /\ events[j].running = 0 /\ events[j].completed = 0
        /\ events[j].failed = 0 /\ events[j].submitted = 0 /\ events[j].resumed = 0
    BY <1>1 DEF EventTypes, JobStates
  <2>4. QED
    BY <1>1, <1>2, <2>1, <2>2, <2>3 DEF Counted, One
<1>6. QED
  BY <1>3, <1>4, <1>5 DEF HeadlessInv

-----------------------------------------------------------------------------
\* One process moves: how many processes are between two events of a job.
LEMMA ProcessMoves ==
    ASSUME HeadlessInv, NEW p \in Process, NEW new \in Doing, handling' = [handling EXCEPT ![p] = new]
    PROVE  /\ handling' \in [Process -> Doing]
           /\ handling'[p] = new /\ \A q \in Process \ {p} : handling'[q] = handling[q]
           /\ \A j : /\ Cardinality(Starting(j))' =
                          Cardinality(Starting(j)) - One(Starts(handling[p], j)) + One(Starts(new, j))
                     /\ Cardinality(Finishing(j))' =
                          Cardinality(Finishing(j)) - One(Finishes(handling[p], j)) + One(Finishes(new, j))
<1>1. handling \in [Process -> Doing]
  BY DEF HeadlessInv, HeadlessTyped
<1>2. /\ handling' \in [Process -> Doing]
      /\ handling'[p] = new /\ \A q \in Process \ {p} : handling'[q] = handling[q]
  BY <1>1
<1>3. ASSUME NEW j
      PROVE  /\ Cardinality(Starting(j))' =
                   Cardinality(Starting(j)) - One(Starts(handling[p], j)) + One(Starts(new, j))
             /\ Cardinality(Finishing(j))' =
                   Cardinality(Finishing(j)) - One(Finishes(handling[p], j)) + One(Finishes(new, j))
  <2>1. /\ Starting(j)' = IF Starts(new, j) THEN Starting(j) \cup {p} ELSE Starting(j) \ {p}
        /\ p \in Starting(j) <=> Starts(handling[p], j)
    BY <1>2 DEF Starting, Starts
  <2>2. /\ Finishing(j)' = IF Finishes(new, j) THEN Finishing(j) \cup {p} ELSE Finishing(j) \ {p}
        /\ p \in Finishing(j) <=> Finishes(handling[p], j)
    BY <1>2 DEF Finishing, Finishes
  <2>3. /\ Cardinality(Starting(j) \cup {p}) =
              IF p \in Starting(j) THEN Cardinality(Starting(j)) ELSE Cardinality(Starting(j)) + 1
        /\ Cardinality(Starting(j) \ {p}) =
              IF p \in Starting(j) THEN Cardinality(Starting(j)) - 1 ELSE Cardinality(Starting(j))
    BY ProcessesFinite, FS_AddElement, FS_RemoveElement
  <2>4. /\ Cardinality(Finishing(j) \cup {p}) =
              IF p \in Finishing(j) THEN Cardinality(Finishing(j)) ELSE Cardinality(Finishing(j)) + 1
        /\ Cardinality(Finishing(j) \ {p}) =
              IF p \in Finishing(j) THEN Cardinality(Finishing(j)) - 1 ELSE Cardinality(Finishing(j))
    BY ProcessesFinite, FS_AddElement, FS_RemoveElement
  <2>5. Cardinality(Starting(j)) \in Nat /\ Cardinality(Finishing(j)) \in Nat
    BY ProcessesFinite
  <2>6. QED
    BY <2>1, <2>2, <2>3, <2>4, <2>5 DEF One
<1>4. QED
  BY <1>2, <1>3

\* A process moves without writing, and does not come closer to an execution or a result.
LEMMA HeadlessQuietStep ==
    ASSUME HeadlessInv, NEW p \in Process, NEW new \in Doing, handling' = [handling EXCEPT ![p] = new],
           rows' = rows, events' = events, Proper(p, new), Carried(new),
           \A j : /\ Starts(new, j) => Starts(handling[p], j)
                  /\ Finishes(new, j) => Finishes(handling[p], j)
    PROVE  HeadlessInv'
<1>1. /\ handling' \in [Process -> Doing]
      /\ handling'[p] = new /\ \A q \in Process \ {p} : handling'[q] = handling[q]
  BY ProcessMoves
<1>2. HeadlessTyped'
  BY <1>1 DEF HeadlessInv, HeadlessTyped
<1>3. ASSUME NEW q \in Process PROVE Proper(q, handling'[q]) /\ Carried(handling[q])'
  <2>1. CASE q = p
    BY <1>1, <2>1 DEF Carried
  <2>2. CASE q # p
    BY <1>1, <2>2 DEF HeadlessInv, Carried
  <2>3. QED
    BY <2>1, <2>2
<1>4. ASSUME NEW j \in HeadlessJob PROVE Counted(j)'
  <2>1. /\ Cardinality(Starting(j))' <= Cardinality(Starting(j))
        /\ Cardinality(Finishing(j))' <= Cardinality(Finishing(j))
        /\ Cardinality(Starting(j))' \in Int /\ Cardinality(Finishing(j))' \in Int
    <3>1. /\ Cardinality(Starting(j))' =
               Cardinality(Starting(j)) - One(Starts(handling[p], j)) + One(Starts(new, j))
          /\ Cardinality(Finishing(j))' =
               Cardinality(Finishing(j)) - One(Finishes(handling[p], j)) + One(Finishes(new, j))
      BY ProcessMoves
    <3>2. Cardinality(Starting(j)) \in Nat /\ Cardinality(Finishing(j)) \in Nat
      BY ProcessesFinite
    <3>3. /\ One(Starts(new, j)) \in 0 .. One(Starts(handling[p], j)) /\ One(Starts(handling[p], j)) \in 0 .. 1
          /\ One(Finishes(new, j)) \in 0 .. One(Finishes(handling[p], j)) /\ One(Finishes(handling[p], j)) \in 0 .. 1
      BY DEF One
    <3>4. QED
      BY <3>1, <3>2, <3>3
  <2>2. Counted(j)
    BY DEF HeadlessInv
  <2>3. events[j] \in [EventTypes -> Nat]
    BY DEF HeadlessInv, HeadlessTyped
  <2>4. /\ events[j].claimed \in Nat /\ events[j].running \in Nat
        /\ events[j].completed \in Nat /\ events[j].failed \in Nat
    BY <2>3, CountersTyped
  <2>5. QED
    BY <2>1, <2>2, <2>4, ProcessesFinite DEF Counted
<1>5. QED
  BY <1>2, <1>3, <1>4 DEF HeadlessInv, Proper

\* The row and the events of one job change; what other processes have read stays true.
LEMMA EventStep ==
    ASSUME HeadlessInv, NEW j \in HeadlessJob, NEW row \in JobRow, NEW type \in EventTypes,
           rows' = [rows EXCEPT ![j] = row], Logged(j, type),
           handling' \in [Process -> Doing],
           \A q \in Process : \/ handling'[q] = handling[q]
                              \/ handling'[q].at # "write" /\ Proper(q, handling'[q]),
           \A k \in HeadlessJob \ {j} : /\ Cardinality(Starting(k))' = Cardinality(Starting(k))
                                        /\ Cardinality(Finishing(k))' = Cardinality(Finishing(k)),
           Counted(j)'
    PROVE  HeadlessInv'
<1>1. /\ rows \in [HeadlessJob -> JobRow] /\ events \in [HeadlessJob -> [EventTypes -> Nat]]
      /\ events' = [events EXCEPT ![j][type] = @ + 1]
  BY DEF HeadlessInv, HeadlessTyped, Logged
<1>2. /\ events' \in [HeadlessJob -> [EventTypes -> Nat]] /\ rows' \in [HeadlessJob -> JobRow]
      /\ \A k \in HeadlessJob \ {j} : events'[k] = events[k] /\ rows'[k] = rows[k]
  BY <1>1
<1>3. \A k \in HeadlessJob : events[k].running <= events'[k].running /\ events[k].running \in Nat /\ events'[k].running \in Nat
  <2>1. "running" \in EventTypes
    BY DEF EventTypes, JobStates
  <2>2. QED
    BY <1>1, <1>2, <2>1
<1>4. HeadlessTyped'
  BY <1>2 DEF HeadlessTyped
<1>5. ASSUME NEW q \in Process PROVE Proper(q, handling'[q]) /\ Carried(handling[q])'
  <2>1. Proper(q, handling[q]) /\ Carried(handling[q]) /\ handling[q] \in Doing
    BY DEF HeadlessInv, HeadlessTyped
  <2>2. CASE handling'[q] = handling[q]
    <3>1. handling[q].at = "write" => handling[q].job \in HeadlessJob /\ handling[q].seen.attempts \in Nat
      BY <2>1 DEF Proper, Doing, JobRow
    <3>2. QED
      BY <1>3, <2>1, <2>2, <3>1 DEF Carried
  <2>3. CASE handling'[q].at # "write" /\ Proper(q, handling'[q])
    BY <2>3 DEF Carried
  <2>4. QED
    BY <2>2, <2>3
<1>6. ASSUME NEW k \in HeadlessJob PROVE Counted(k)'
  <2>1. CASE k = j
    BY <2>1
  <2>2. CASE k # j
    BY <1>2, <2>2 DEF HeadlessInv, Counted
  <2>3. QED
    BY <2>1, <2>2
<1>7. QED
  BY <1>4, <1>5, <1>6 DEF HeadlessInv, Proper

-----------------------------------------------------------------------------
\* The event that is logged counts once more, the others as before.
LEMMA LoggedFacts ==
    ASSUME HeadlessInv, NEW j \in HeadlessJob, NEW type \in EventTypes, Logged(j, type)
    PROVE  \A e \in EventTypes : events'[j][e] = events[j][e] + One(e = type)
<1>1. /\ events \in [HeadlessJob -> [EventTypes -> Nat]]
      /\ events' = [events EXCEPT ![j][type] = @ + 1]
  BY DEF HeadlessInv, HeadlessTyped, Logged
<1>2. QED
  BY <1>1 DEF One

LEMMA JobFacts ==
    ASSUME HeadlessInv, NEW j \in HeadlessJob
    PROVE  /\ rows[j] \in JobRow /\ events[j] \in [EventTypes -> Nat] /\ Counted(j)
           /\ events[j].claimed \in Nat /\ events[j].running \in Nat /\ events[j].completed \in Nat
           /\ events[j].failed \in Nat /\ events[j].submitted \in Nat /\ events[j].resumed \in Nat
           /\ Cardinality(Starting(j)) \in Nat /\ Cardinality(Finishing(j)) \in Nat
<1>1. rows[j] \in JobRow /\ events[j] \in [EventTypes -> Nat] /\ Counted(j)
  BY DEF HeadlessInv, HeadlessTyped
<1>2. QED
  BY <1>1, CountersTyped, ProcessesFinite

LEMMA SubmitStep ==
    ASSUME HeadlessInv, NEW j \in HeadlessJob, SubmitHeadless(j)
    PROVE  HeadlessInv'
<1> DEFINE row == [rows[j] EXCEPT !.state = "queued"]
<1>1. /\ rows[j].state = "none" /\ rows' = [rows EXCEPT ![j].state = "queued"]
      /\ Logged(j, "submitted") /\ handling' = handling
  BY DEF SubmitHeadless
<1>2. rows[j] \in JobRow /\ rows \in [HeadlessJob -> JobRow]
  BY DEF HeadlessInv, HeadlessTyped
<1>3. /\ row \in JobRow /\ row.state = "queued" /\ row.attempts = rows[j].attempts
      /\ rows' = [rows EXCEPT ![j] = row] /\ rows'[j] = row
  BY <1>1, <1>2 DEF JobRow, JobStates
<1>4. /\ events'[j].submitted = events[j].submitted + 1 /\ events'[j].resumed = events[j].resumed
      /\ events'[j].claimed = events[j].claimed /\ events'[j].running = events[j].running
      /\ events'[j].completed = events[j].completed /\ events'[j].failed = events[j].failed
      /\ "submitted" \in EventTypes
  <2>1. /\ "claimed" \in EventTypes /\ "running" \in EventTypes /\ "completed" \in EventTypes
        /\ "failed" \in EventTypes /\ "submitted" \in EventTypes /\ "resumed" \in EventTypes
    BY DEF EventTypes, JobStates
  <2>2. \A e \in EventTypes : events'[j][e] = events[j][e] + One(e = "submitted")
    BY <1>1, <2>1, LoggedFacts
  <2>3. QED
    BY <2>1, <2>2, JobFacts DEF One
<1>5. \A k : /\ Cardinality(Starting(k))' = Cardinality(Starting(k))
             /\ Cardinality(Finishing(k))' = Cardinality(Finishing(k))
  BY <1>1 DEF Starting, Finishing
<1>6. Counted(j)'
  <2> HIDE DEF row
  <2>1. QED
    BY <1>1, <1>3, <1>4, <1>5, JobFacts DEF Counted, One
<1>7. handling' \in [Process -> Doing]
  BY <1>1 DEF HeadlessInv, HeadlessTyped
<1> HIDE DEF row
<1>8. QED
  BY <1>1, <1>3, <1>4, <1>5, <1>6, <1>7, EventStep

LEMMA ClaimStep ==
    ASSUME HeadlessInv, NEW w \in Runner, ClaimHeadless(w)
    PROVE  HeadlessInv'
<1>1. PICK j \in HeadlessJob :
         /\ Claimable(j) /\ Logged(j, "claimed")
         /\ rows' = [rows EXCEPT ![j].state = "claimed", ![j].owner = w]
         /\ handling' = [handling EXCEPT ![w] = Step("read", j, "running", TRUE)]
  BY DEF ClaimHeadless
<1> DEFINE row == [rows[j] EXCEPT !.state = "claimed", !.owner = w]
<1> DEFINE new == Step("read", j, "running", TRUE)
<1>2. rows[j] \in JobRow /\ rows \in [HeadlessJob -> JobRow] /\ rows[j].state = "queued" /\ handling[w] = NotHandling
  BY <1>1 DEF HeadlessInv, HeadlessTyped, ClaimHeadless, Claimable
<1>3. /\ row \in JobRow /\ row.state = "claimed" /\ row.attempts = rows[j].attempts
      /\ rows' = [rows EXCEPT ![j] = row] /\ rows'[j] = row
  BY <1>1, <1>2 DEF JobRow, JobStates
<1>4. /\ new \in Doing /\ new.at = "read" /\ new.job = j /\ new.to = "running" /\ new.last
      /\ new # NotHandling
  BY DEF Step, NotHandling, Doing, JobRow, NoRow, JobStates
<1>5. /\ events'[j].claimed = events[j].claimed + 1 /\ events'[j].running = events[j].running
      /\ events'[j].submitted = events[j].submitted /\ events'[j].resumed = events[j].resumed
      /\ events'[j].completed = events[j].completed /\ events'[j].failed = events[j].failed
      /\ "claimed" \in EventTypes
  <2>1. /\ "claimed" \in EventTypes /\ "running" \in EventTypes /\ "completed" \in EventTypes
        /\ "failed" \in EventTypes /\ "submitted" \in EventTypes /\ "resumed" \in EventTypes
    BY DEF EventTypes, JobStates
  <2>2. \A e \in EventTypes : events'[j][e] = events[j][e] + One(e = "claimed")
    BY <1>1, <2>1, LoggedFacts
  <2>3. QED
    BY <2>1, <2>2, JobFacts DEF One
<1> HIDE DEF row, new
<1>6. handling' = [handling EXCEPT ![w] = new] /\ w \in Process
  BY <1>1 DEF new, Process
<1>7. \A k : ~Starts(handling[w], k) /\ ~Finishes(handling[w], k) /\ ~Finishes(new, k)
             /\ (Starts(new, k) <=> k = j)
  BY <1>2, <1>4, RestingFacts DEF Starts, Finishes
<1>8. \A k : /\ Cardinality(Starting(k))' = Cardinality(Starting(k)) + One(k = j)
             /\ Cardinality(Finishing(k))' = Cardinality(Finishing(k))
  <2>1. \A k : /\ Cardinality(Starting(k))' =
                     Cardinality(Starting(k)) - One(Starts(handling[w], k)) + One(Starts(new, k))
               /\ Cardinality(Finishing(k))' =
                     Cardinality(Finishing(k)) - One(Finishes(handling[w], k)) + One(Finishes(new, k))
    BY <1>4, <1>6, ProcessMoves
  <2>2. QED
    BY <1>7, <2>1, ProcessesFinite DEF One
<1>9. Counted(j)'
  BY <1>2, <1>3, <1>5, <1>8, JobFacts DEF Counted, One
<1>10. /\ handling' \in [Process -> Doing] /\ handling'[w] = new
       /\ \A q \in Process \ {w} : handling'[q] = handling[q]
  BY <1>4, <1>6, ProcessMoves
<1>11. Proper(w, new) /\ new.at # "write"
  BY <1>4 DEF Proper
<1>12. \A q \in Process : handling'[q] = handling[q] \/ (handling'[q].at # "write" /\ Proper(q, handling'[q]))
  BY <1>10, <1>11
<1>13. \A k \in HeadlessJob \ {j} : /\ Cardinality(Starting(k))' = Cardinality(Starting(k))
                                    /\ Cardinality(Finishing(k))' = Cardinality(Finishing(k))
  BY <1>8, ProcessesFinite DEF One
<1>14. QED
  BY <1>1, <1>3, <1>5, <1>9, <1>10, <1>12, <1>13, EventStep

LEMMA ProcessFacts ==
    ASSUME HeadlessInv, NEW p \in Process
    PROVE  /\ handling \in [Process -> Doing] /\ handling[p] \in Doing
           /\ Proper(p, handling[p]) /\ Carried(handling[p])
  BY DEF HeadlessInv, HeadlessTyped

\* Cancel and resume.
LEMMA RequestStep ==
    ASSUME HeadlessInv, NEW o \in Operator, NEW j \in HeadlessJob,
           CancelHeadless(o, j) \/ ResumeHeadless(o, j)
    PROVE  HeadlessInv'
<1>1. PICK to \in {"cancelled", "queued"} : handling' = [handling EXCEPT ![o] = Step("read", j, to, TRUE)]
  BY DEF CancelHeadless, ResumeHeadless
<1>2. rows' = rows /\ events' = events /\ o \in Process
  BY DEF CancelHeadless, ResumeHeadless, Process
<1> DEFINE new == Step("read", j, to, TRUE)
<1>3. /\ new \in Doing /\ new.at = "read" /\ new.job = j /\ new.to = to /\ new.last
      /\ new # NotHandling
  BY DEF Step, NotHandling, Doing, JobRow, NoRow, JobStates
<1> HIDE DEF new
<1>4. Proper(o, new) /\ Carried(new)
  BY <1>3 DEF Proper, Carried
<1>5. \A k : ~Starts(new, k) /\ ~Finishes(new, k)
  BY <1>3 DEF Starts, Finishes
<1>6. handling' = [handling EXCEPT ![o] = new]
  BY <1>1 DEF new
<1>7. QED
  BY <1>2, <1>3, <1>4, <1>5, <1>6, HeadlessQuietStep

\* The process is at rest again: it died, or its call raised.
LEMMA RestStep ==
    ASSUME HeadlessInv, NEW p \in Process, handling' = [handling EXCEPT ![p] = NotHandling],
           rows' = rows, events' = events
    PROVE  HeadlessInv'
<1>1. Carried(NotHandling)
  BY RestingFacts DEF Carried
<1>2. QED
  BY <1>1, RestingFacts, HeadlessQuietStep

LEMMA RaisedStep ==
    ASSUME HeadlessInv, NEW p \in Process, handling[p].at \in {"read", "write"}, Raised(p),
           rows' = rows, events' = events
    PROVE  HeadlessInv'
<1>1. CASE handling[p].last
  BY <1>1, RestStep DEF Raised
<1>2. CASE ~handling[p].last
  <2> DEFINE new == Step("read", handling[p].job, "failed", TRUE)
  <2>1. Proper(p, handling[p]) /\ handling[p] \in Doing
    BY ProcessFacts
  <2>2. handling[p].job \in HeadlessJob /\ handling[p].to \in {"completed", "failed"}
    BY <1>2, <2>1, RestingFacts DEF Proper
  <2>3. /\ new \in Doing /\ new.at = "read" /\ new.job = handling[p].job /\ new.to = "failed"
        /\ new.last /\ new # NotHandling
    BY <2>2 DEF Step, NotHandling, Doing, JobRow, NoRow, JobStates
  <2>4. handling' = [handling EXCEPT ![p] = new]
    BY <1>2 DEF Raised
  <2> HIDE DEF new
  <2>5. Proper(p, new) /\ Carried(new)
    BY <2>2, <2>3 DEF Proper, Carried
  <2>6. \A k : ~Starts(new, k) /\ (Finishes(new, k) => Finishes(handling[p], k))
    BY <2>2, <2>3 DEF Starts, Finishes
  <2>7. QED
    BY <2>3, <2>4, <2>5, <2>6, HeadlessQuietStep
<1>3. QED
  BY <1>1, <1>2

LEMMA ReadStep ==
    ASSUME HeadlessInv, NEW p \in Process, ReadRow(p)
    PROVE  HeadlessInv'
<1>1. handling[p].at = "read" /\ rows' = rows /\ events' = events
  BY DEF ReadRow
<1>2. CASE handling[p].to \notin Allowed(rows[handling[p].job].state)
  BY <1>1, <1>2, RaisedStep DEF ReadRow
<1>3. CASE handling[p].to \in Allowed(rows[handling[p].job].state)
  <2> DEFINE row == rows[handling[p].job]
  <2> DEFINE new == [handling[p] EXCEPT !.at = "write", !.seen = row]
  <2>1. handling[p] \in Doing /\ Proper(p, handling[p]) /\ handling \in [Process -> Doing]
    BY ProcessFacts
  <2>2. handling[p].job \in HeadlessJob
    BY <1>1, <2>1 DEF Proper
  <2>3. row \in JobRow /\ Counted(handling[p].job)
    BY <2>2, JobFacts
  <2>4. /\ new \in Doing /\ new.at = "write" /\ new.job = handling[p].job /\ new.to = handling[p].to
        /\ (new.last <=> handling[p].last) /\ new.seen = row
    BY <2>1, <2>3 DEF Doing
  <2>5. handling' = [handling EXCEPT ![p] = new]
    BY <1>3, <2>1 DEF ReadRow, Doing
  <2>6. Carried(new)
    BY <1>3, <2>3, <2>4 DEF Carried, Counted
  <2> HIDE DEF new
  <2>7. Proper(p, new)
    BY <1>1, <2>1, <2>4, RestingFacts DEF Proper
  <2>8. \A k : (Starts(new, k) => Starts(handling[p], k)) /\ (Finishes(new, k) => Finishes(handling[p], k))
    BY <1>1, <2>4 DEF Starts, Finishes
  <2>9. QED
    BY <1>1, <2>4, <2>5, <2>6, <2>7, <2>8, HeadlessQuietStep
<1>4. QED
  BY <1>2, <1>3

LEMMA ExecutionEndsStep ==
    ASSUME HeadlessInv, NEW w \in Runner, NEW to \in {"completed", "failed"}, NEW last \in BOOLEAN,
           ExecutionEnds(w, to, last)
    PROVE  HeadlessInv'
<1> DEFINE new == Step("read", handling[w].job, to, last)
<1>1. /\ handling[w].at = "executing" /\ handling' = [handling EXCEPT ![w] = new]
      /\ rows' = rows /\ events' = events /\ w \in Process
  BY DEF ExecutionEnds, Process
<1>2. handling[w].job \in HeadlessJob
  BY <1>1, ProcessFacts DEF Proper
<1>3. /\ new \in Doing /\ new.at = "read" /\ new.job = handling[w].job /\ new.to = to
      /\ new # NotHandling
  BY <1>2 DEF Step, NotHandling, Doing, JobRow, NoRow, JobStates
<1> HIDE DEF new
<1>4. Proper(w, new) /\ Carried(new)
  BY <1>2, <1>3 DEF Proper, Carried
<1>5. \A k : ~Starts(new, k) /\ (Finishes(new, k) => Finishes(handling[w], k))
  BY <1>1, <1>3 DEF Starts, Finishes
<1>6. QED
  BY <1>1, <1>3, <1>4, <1>5, HeadlessQuietStep

\* A result is written only over the row of a job that was seen running.
LEMMA ResultsFollowRunning ==
    ASSUME NEW state, NEW to \in {"completed", "failed"}, to \in Allowed(state)
    PROVE  state = "running"
  BY DEF Allowed

LEMMA WriteStep ==
    ASSUME HeadlessInv, NEW p \in Process, WriteRow(p)
    PROVE  HeadlessInv'
<1>1. handling[p] \in Doing /\ Proper(p, handling[p]) /\ Carried(handling[p]) /\ handling[p].at = "write"
  BY ProcessFacts DEF WriteRow
<1>2. PICK j \in HeadlessJob : j = handling[p].job
  BY <1>1, RestingFacts DEF Proper
<1>3. PICK to \in {"running", "completed", "failed", "cancelled", "queued"}, seen \in JobRow :
         /\ to = handling[p].to /\ seen = handling[p].seen
         /\ to = "running" => p \in Runner
  BY <1>1 DEF Proper, Doing
<1> DEFINE row == Written(p)
<1> DEFINE type == IF to = "queued" THEN "resumed" ELSE to
<1> DEFINE new == IF to = "running" THEN Step("executing", j, "none", TRUE) ELSE NotHandling
<1>4. /\ to \in Allowed(seen.state) /\ seen.attempts <= events[j].running
      /\ seen.state = "running" => seen.attempts >= 1
  BY <1>1, <1>2, <1>3 DEF Carried
<1>5. to \in {"completed", "failed"} => seen.attempts >= 1
  BY <1>4, ResultsFollowRunning
<1>6. /\ row \in JobRow /\ row.state = to /\ row.attempts = seen.attempts + One(to = "running")
  <2>1. row.owner \in Runner \cup {Nobody}
    BY <1>3 DEF Written, JobRow
  <2>2. row.state = to /\ row.attempts = seen.attempts + One(to = "running")
    BY <1>3 DEF Written, One
  <2>3. row.state \in JobStates /\ row.attempts \in Nat
    BY <1>3, <2>2 DEF JobRow, JobStates, One
  <2>4. row = [state |-> row.state, owner |-> row.owner, attempts |-> row.attempts]
    BY DEF Written
  <2>5. QED
    BY <2>1, <2>2, <2>3, <2>4 DEF JobRow
<1>7. /\ new \in Doing /\ new.at # "write" /\ Proper(p, new)
      /\ \A k : /\ ~Starts(new, k)
                /\ Finishes(new, k) <=> k = j /\ to = "running"
  <2>1. CASE to # "running"
    BY <2>1, RestingFacts
  <2>2. CASE to = "running"
    <3>1. /\ new \in Doing /\ new.at = "executing" /\ new.job = j /\ new.to = "none" /\ new # NotHandling
      BY <1>3, <2>2 DEF Step, NotHandling, Doing, JobRow, NoRow, JobStates
    <3> HIDE DEF new
    <3>2. QED
      BY <1>3, <2>2, <3>1 DEF Proper, Starts, Finishes
  <2>3. QED
    BY <2>1, <2>2
<1>8. \A k : /\ Starts(handling[p], k) <=> k = j /\ to = "running"
             /\ Finishes(handling[p], k) <=> k = j /\ to \in {"completed", "failed"}
  BY <1>1, <1>2, <1>3 DEF Starts, Finishes
<1>9. type \in EventTypes
  BY <1>3 DEF EventTypes, JobStates
<1>10. /\ rows' = [rows EXCEPT ![j] = row] /\ Logged(j, type) /\ handling' = [handling EXCEPT ![p] = new]
  BY <1>2, <1>3 DEF WriteRow
<1> HIDE DEF new, row
<1>11. \A k : /\ Cardinality(Starting(k))' =
                   Cardinality(Starting(k)) - One(k = j /\ to = "running")
              /\ Cardinality(Finishing(k))' =
                   Cardinality(Finishing(k)) - One(k = j /\ to \in {"completed", "failed"})
                                             + One(k = j /\ to = "running")
  <2>1. \A k : /\ Cardinality(Starting(k))' =
                     Cardinality(Starting(k)) - One(Starts(handling[p], k)) + One(Starts(new, k))
               /\ Cardinality(Finishing(k))' =
                     Cardinality(Finishing(k)) - One(Finishes(handling[p], k)) + One(Finishes(new, k))
    BY <1>10, <1>7, ProcessMoves
  <2>2. QED
    BY <1>7, <1>8, <2>1, ProcessesFinite DEF One
<1>12. /\ events'[j].claimed = events[j].claimed /\ events'[j].submitted = events[j].submitted
       /\ events'[j].running = events[j].running + One(to = "running")
       /\ events'[j].completed = events[j].completed + One(to = "completed")
       /\ events'[j].failed = events[j].failed + One(to = "failed")
       /\ events'[j].resumed = events[j].resumed + One(to = "queued")
  <2>1. /\ "claimed" \in EventTypes /\ "running" \in EventTypes /\ "completed" \in EventTypes
        /\ "failed" \in EventTypes /\ "submitted" \in EventTypes /\ "resumed" \in EventTypes
    BY DEF EventTypes, JobStates
  <2>2. \A e \in EventTypes : events'[j][e] = events[j][e] + One(e = type)
    BY <1>10, <1>3, <1>9, LoggedFacts
  <2>3. QED
    BY <1>3, <2>1, <2>2, JobFacts DEF One
<1>13. rows'[j] = row
  BY <1>10 DEF HeadlessInv, HeadlessTyped
<1>14. seen.attempts \in Nat
  BY <1>3 DEF JobRow
<1>15. Counted(j)'
  <2>1. /\ Counted(j) /\ events[j].claimed \in Nat /\ events[j].running \in Nat
        /\ events[j].completed \in Nat /\ events[j].failed \in Nat /\ events[j].submitted \in Nat
        /\ events[j].resumed \in Nat
        /\ Cardinality(Starting(j)) \in Nat /\ Cardinality(Finishing(j)) \in Nat
    BY JobFacts
  <2>2. QED
    BY <1>3, <1>4, <1>5, <1>6, <1>11, <1>12, <1>13, <1>14, <2>1 DEF Counted, One
<1>16. /\ handling' \in [Process -> Doing] /\ handling'[p] = new
       /\ \A q \in Process \ {p} : handling'[q] = handling[q]
  BY <1>10, <1>7, ProcessMoves
<1>17. \A q \in Process : handling'[q] = handling[q] \/ (handling'[q].at # "write" /\ Proper(q, handling'[q]))
  BY <1>7, <1>16
<1>18. \A k \in HeadlessJob \ {j} : /\ Cardinality(Starting(k))' = Cardinality(Starting(k))
                                    /\ Cardinality(Finishing(k))' = Cardinality(Finishing(k))
  BY <1>11, ProcessesFinite DEF One
<1>19. QED
  BY <1>10, <1>6, <1>9, <1>15, <1>16, <1>17, <1>18, EventStep

-----------------------------------------------------------------------------
LEMMA HeadlessNextInv == HeadlessInv /\ [HeadlessNext]_headlessVars => HeadlessInv'
<1> SUFFICES ASSUME HeadlessInv, [HeadlessNext]_headlessVars PROVE HeadlessInv'
  OBVIOUS
<1>1. ASSUME NEW j \in HeadlessJob, SubmitHeadless(j) PROVE HeadlessInv'
  BY <1>1, SubmitStep
<1>2. ASSUME NEW w \in Runner, ClaimHeadless(w) PROVE HeadlessInv'
  BY <1>2, ClaimStep
<1>3. ASSUME NEW w \in Runner, NEW to \in {"completed", "failed"}, NEW last \in BOOLEAN,
             ExecutionEnds(w, to, last)
      PROVE  HeadlessInv'
  BY <1>3, ExecutionEndsStep
<1>4. ASSUME NEW o \in Operator, NEW j \in HeadlessJob, CancelHeadless(o, j) \/ ResumeHeadless(o, j)
      PROVE  HeadlessInv'
  BY <1>4, RequestStep
<1>5. ASSUME NEW p \in Process, ReadRow(p) PROVE HeadlessInv'
  BY <1>5, ReadStep
<1>6. ASSUME NEW p \in Process, WriteRow(p) PROVE HeadlessInv'
  BY <1>6, WriteStep
<1>7. ASSUME NEW p \in Process, WriteRowFails(p) PROVE HeadlessInv'
  BY <1>7, RaisedStep DEF WriteRowFails
<1>8. ASSUME NEW p \in Process, HeadlessDies(p) PROVE HeadlessInv'
  BY <1>8, RestStep DEF HeadlessDies
<1>9. CASE UNCHANGED headlessVars
  BY <1>9 DEF headlessVars, HeadlessInv, HeadlessTyped, Counted, Carried, Starting, Finishing
<1>10. QED
  BY <1>1, <1>2, <1>3, <1>4, <1>5, <1>6, <1>7, <1>8, <1>9 DEF HeadlessNext, Process

LEMMA HeadlessInvariant == HeadlessSpec => []HeadlessInv
  BY HeadlessInitInv, HeadlessNextInv, PTL DEF HeadlessSpec

-----------------------------------------------------------------------------
(* Rows, events and the memory of workers and operators keep their types.    *)
THEOREM HeadlessTypeCorrect == HeadlessSpec => []HeadlessTypeOK
<1>1. HeadlessInv => HeadlessTypeOK
  BY DEF HeadlessInv, HeadlessTyped, Proper, HeadlessTypeOK, Process, JobRow
<1>2. QED
  BY <1>1, HeadlessInvariant, PTL

(* A job is claimed at most once per submission or resumption, executed at   *)
(* most once per claim and has at most one result per execution, for any     *)
(* number of workers and operators that write stale rows over each other.    *)
THEOREM ExecutionsAddUp == HeadlessSpec => []ExecutionsAccounted
<1>1. HeadlessInv => ExecutionsAccounted
  <2> SUFFICES ASSUME HeadlessInv, NEW j \in HeadlessJob
               PROVE  /\ events[j].claimed <= events[j].submitted + events[j].resumed
                      /\ events[j].running <= events[j].claimed
                      /\ events[j].completed + events[j].failed <= events[j].running
                      /\ rows[j].attempts <= events[j].running
                      /\ rows[j].state \in {"running", "completed", "failed"} => rows[j].attempts >= 1
    BY DEF ExecutionsAccounted
  <2>1. QED
    BY JobFacts DEF Counted, One
<1>2. QED
  BY <1>1, HeadlessInvariant, PTL

-----------------------------------------------------------------------------
(* The rollout of policies.                                                   *)

Row == [policy : Policy \cup {NoPolicy}, stage : Stages \cup {"rolled-back"},
        previous : Policy \cup {NoPolicy}]
Management == [at : {"rest", "decided", "insert", "quarantine", "rollback"},
               policy : Policy \cup {NoPolicy},
               verdict : {"none", "insecure", "eligible", "refused"}, row : Row]

\* Where a manager has a policy, it is one of the scope's.
RolloutTyped ==
    /\ rollouts \in Seq(Row)
    /\ quarantined \subseteq Policy
    /\ managing \in [Manager -> Management]
    /\ \A m \in Manager : managing[m].at \in {"decided", "quarantine"} => managing[m].policy \in Policy

\* Row `row` goes at most one stage beyond the active row.
Climbs(row) == Rank(row.stage) <= Rank(Active.stage) + 1

SoleManager == \A m, n \in Manager : m = n

\* Nobody comes between what a sole manager has read and what it appends.
RolloutInv ==
    /\ RolloutTyped
    /\ SoleManager =>
          /\ StagesClimb
          /\ \A m \in Manager : managing[m].at = "insert" => Climbs(managing[m].row)

-----------------------------------------------------------------------------
LEMMA RankType == ASSUME NEW stage PROVE Rank(stage) \in 0 .. 3
  BY DEF Rank

LEMMA RolloutInitInv == RolloutInit => RolloutInv
<1> SUFFICES ASSUME RolloutInit PROVE RolloutInv
  OBVIOUS
<1>1. AtRest \in Management /\ AtRest.at = "rest"
  BY DEF AtRest, Management, Row, NoRollout, Stages
<1>2. rollouts = <<>> /\ quarantined = {} /\ managing = [m \in Manager |-> AtRest]
  BY DEF RolloutInit
<1>3. RolloutTyped
  BY <1>1, <1>2 DEF RolloutTyped
<1>4. StagesClimb
  BY <1>2 DEF StagesClimb
<1>5. QED
  BY <1>1, <1>2, <1>3, <1>4 DEF RolloutInv

\* The active row is the last one, or that of an empty table.
LEMMA ActiveType ==
    ASSUME RolloutTyped
    PROVE  /\ Active \in Row
           /\ rollouts = <<>> => Rank(Active.stage) = 0
           /\ rollouts # <<>> => Len(rollouts) \in 1 .. Len(rollouts) /\ Active = rollouts[Len(rollouts)]
<1>1. NoRollout \in Row
  BY DEF NoRollout, Row, Stages
<1>2. rollouts \in Seq(Row)
  BY DEF RolloutTyped
<1>3. rollouts # <<>> => Len(rollouts) \in 1 .. Len(rollouts)
  BY <1>2
<1>4. rollouts = <<>> => Rank(Active.stage) = 0
  BY DEF Active, NoRollout, Rank
<1>5. QED
  BY <1>1, <1>2, <1>3, <1>4 DEF Active

\* A manager that appends nothing, and takes up no row that skips a stage.
LEMMA ManagementStep ==
    ASSUME RolloutInv, NEW m \in Manager, NEW new \in Management,
           UNCHANGED rollouts, quarantined' \subseteq Policy,
           managing' = [managing EXCEPT ![m] = new],
           new.at \in {"decided", "quarantine"} => new.policy \in Policy,
           new.at = "insert" => Climbs(new.row)
    PROVE  RolloutInv'
<1>1. managing \in [Manager -> Management]
  BY DEF RolloutInv, RolloutTyped
<1>2. \A n \in Manager : managing'[n] = IF n = m THEN new ELSE managing[n]
  BY <1>1
<1>3. RolloutTyped'
  BY <1>1, <1>2 DEF RolloutInv, RolloutTyped
<1>4. SoleManager => StagesClimb'
  BY DEF RolloutInv, StagesClimb
<1>5. \A row : Climbs(row) => Climbs(row)'
  BY DEF Climbs, Active
<1>6. ASSUME SoleManager, NEW n \in Manager, managing'[n].at = "insert"
      PROVE  Climbs(managing[n].row)'
  <2>1. Climbs(managing'[n].row)
    BY <1>2, <1>6 DEF RolloutInv
  <2>2. QED
    BY <2>1 DEF Climbs, Active
<1>7. QED
  BY <1>3, <1>4, <1>6 DEF RolloutInv

LEMMA InsertStep ==
    ASSUME RolloutInv, NEW m \in Manager, Insert(m)
    PROVE  RolloutInv'
<1> DEFINE row == managing[m].row
<1>1. /\ managing[m].at = "insert" /\ rollouts' = Append(rollouts, row)
      /\ managing' = [managing EXCEPT ![m] = AtRest] /\ UNCHANGED quarantined
  BY DEF Insert
<1>2. /\ managing \in [Manager -> Management] /\ rollouts \in Seq(Row) /\ row \in Row
  BY <1>1 DEF RolloutInv, RolloutTyped, Management
<1>3. AtRest \in Management /\ AtRest.at = "rest"
  BY DEF AtRest, Management, Row, NoRollout, Stages
<1>4. /\ Len(rollouts') = Len(rollouts) + 1 /\ Len(rollouts) \in Nat
      /\ rollouts'[Len(rollouts) + 1] = row
      /\ \A i \in 1 .. Len(rollouts) : rollouts'[i] = rollouts[i]
      /\ rollouts' \in Seq(Row)
  BY <1>1, <1>2
<1>5. RolloutTyped'
  BY <1>1, <1>2, <1>3, <1>4 DEF RolloutInv, RolloutTyped
<1>6. ASSUME SoleManager PROVE StagesClimb'
  <2>1. Climbs(row) /\ StagesClimb
    BY <1>1, <1>6 DEF RolloutInv
  <2>2. Rank(row.stage) <= 1 + IF Len(rollouts) = 0 THEN 0 ELSE Rank(rollouts[Len(rollouts)].stage)
    <3>1. Rank(row.stage) <= Rank(Active.stage) + 1
      BY <2>1 DEF Climbs
    <3>2. CASE Len(rollouts) = 0
      <4>1. rollouts = <<>>
        BY <1>2, <3>2
      <4>2. Rank(Active.stage) = 0
        BY <4>1, ActiveType DEF RolloutInv
      <4>3. QED
        BY <3>1, <3>2, <4>2
    <3>3. CASE Len(rollouts) # 0
      <4>1. Active = rollouts[Len(rollouts)]
        BY <3>3, ActiveType DEF RolloutInv
      <4>2. Rank(rollouts[Len(rollouts)].stage) \in 0 .. 3 /\ Rank(row.stage) \in 0 .. 3
        BY RankType
      <4>3. Rank(row.stage) <= Rank(rollouts[Len(rollouts)].stage) + 1
        BY <3>1, <4>1
      <4>4. QED
        BY <3>3, <4>2, <4>3
    <3>4. QED
      BY <3>2, <3>3
  <2>3. ASSUME NEW i \in 1 .. Len(rollouts')
        PROVE  Rank(rollouts'[i].stage) <= 1 + IF i = 1 THEN 0 ELSE Rank(rollouts'[i - 1].stage)
    <3>1. CASE i = Len(rollouts) + 1
      <4>1. i # 1 => i - 1 = Len(rollouts) /\ rollouts'[i - 1] = rollouts[Len(rollouts)]
        BY <1>4, <3>1
      <4>2. rollouts'[i] = row /\ (i = 1 <=> Len(rollouts) = 0)
        BY <1>4, <3>1
      <4>3. QED
        BY <2>2, <4>1, <4>2
    <3>2. CASE i \in 1 .. Len(rollouts)
      <4>1. Rank(rollouts[i].stage) <= 1 + IF i = 1 THEN 0 ELSE Rank(rollouts[i - 1].stage)
        BY <2>1, <3>2 DEF StagesClimb
      <4>2. rollouts'[i] = rollouts[i] /\ (i # 1 => rollouts'[i - 1] = rollouts[i - 1])
        BY <1>4, <3>2
      <4>3. QED
        BY <4>1, <4>2
    <3>3. i = Len(rollouts) + 1 \/ i \in 1 .. Len(rollouts)
      BY <1>4
    <3>4. QED
      BY <3>1, <3>2, <3>3
  <2>4. QED
    BY <2>3 DEF StagesClimb, Rank
<1>7. ASSUME SoleManager, NEW n \in Manager, managing'[n].at = "insert"
      PROVE  Climbs(managing[n].row)'
  <2>1. n = m
    BY <1>7 DEF SoleManager
  <2>2. QED
    BY <1>1, <1>2, <1>3, <1>7, <2>1
<1>8. QED
  BY <1>5, <1>6, <1>7 DEF RolloutInv

-----------------------------------------------------------------------------
\* promote lets a policy climb one stage above the active row's.
LEMMA PromoteStep ==
    ASSUME RolloutInv, NEW m \in Manager, NEW target \in Stages, Promote(m, target)
    PROVE  RolloutInv'
<1> DEFINE row == [policy |-> managing[m].policy, stage |-> target, previous |-> Active.policy]
           new == [managing[m] EXCEPT !.at = "insert", !.row = row]
<1>1. /\ managing[m].at = "decided" /\ InOrder(target, Active.stage)
      /\ managing' = [managing EXCEPT ![m].at = "insert", ![m].row = row]
      /\ UNCHANGED <<rollouts, quarantined>>
  BY DEF Promote
<1>2. /\ managing[m] \in Management /\ managing \in [Manager -> Management]
      /\ managing[m].policy \in Policy /\ quarantined \subseteq Policy /\ RolloutTyped
  BY <1>1 DEF RolloutInv, RolloutTyped
<1>3. Active \in Row
  BY <1>2, ActiveType
<1>4. row \in Row
  BY <1>2, <1>3 DEF Row
<1>5. new \in Management /\ new.at = "insert" /\ new.row = row
  BY <1>2, <1>4 DEF Management
<1>6. managing' = [managing EXCEPT ![m] = new]
  BY <1>1, <1>2 DEF Management
<1>7. Climbs(row)
  <2>1. Rank(Active.stage) \in 0 .. 3
    BY RankType
  <2>2. target = Active.stage \/ Rank(target) <= Rank(Active.stage) + 1
    BY <1>1 DEF InOrder
  <2>3. Rank(target) <= Rank(Active.stage) + 1
    BY <2>1, <2>2
  <2>4. QED
    BY <2>3 DEF Climbs
<1>8. UNCHANGED rollouts /\ quarantined' \subseteq Policy
  BY <1>1, <1>2
<1> HIDE DEF row, new
<1>9. QED
  BY <1>5, <1>6, <1>7, <1>8, ManagementStep

\* A rollback undoes the row it has read.
LEMMA StartRollbackStep ==
    ASSUME RolloutInv, NEW m \in Manager, StartRollback(m)
    PROVE  RolloutInv'
<1> DEFINE row == Undone(Active)
           new == [AtRest EXCEPT !.at = "insert", !.row = row]
<1>1. /\ rollouts # <<>> /\ managing' = [managing EXCEPT ![m] = new]
      /\ UNCHANGED <<rollouts, quarantined>>
  BY DEF StartRollback
<1>2. RolloutTyped /\ quarantined \subseteq Policy
  BY DEF RolloutInv, RolloutTyped
<1>3. Active \in Row /\ Len(rollouts) \in 1 .. Len(rollouts) /\ Active = rollouts[Len(rollouts)]
  BY <1>1, <1>2, ActiveType
<1>4. row \in Row /\ row.policy = Active.previous /\ row.previous = Active.policy
  BY <1>3 DEF Undone, Row
<1>5. new \in Management /\ new.at = "insert" /\ new.row = row
  BY <1>4 DEF AtRest, Management, NoRollout, Row, Stages
<1>6. Rank(row.stage) = 0
  BY DEF Rank, Undone
<1>7. Climbs(row)
  <2>1. Rank(Active.stage) \in 0 .. 3
    BY RankType
  <2>2. QED
    BY <1>6, <2>1 DEF Climbs
<1>8. QED
  BY <1>1, <1>2, <1>5, <1>7, ManagementStep

LEMMA EvaluateStep ==
    ASSUME RolloutInv, NEW m \in Manager, NEW p \in Policy, Evaluate(m, p)
    PROVE  RolloutInv'
<1>1. PICK h \in Health :
         managing' = [managing EXCEPT ![m] =
            [AtRest EXCEPT !.at = "decided", !.policy = p, !.verdict = Verdict(p, h)]]
  BY DEF Evaluate
<1> DEFINE new == [AtRest EXCEPT !.at = "decided", !.policy = p, !.verdict = Verdict(p, h)]
<1>2. Verdict(p, h) \in {"insecure", "eligible", "refused"}
  BY <1>1 DEF Verdict, Health
<1>3. new \in Management /\ new.at = "decided" /\ new.policy = p
  BY <1>2 DEF AtRest, Management, NoRollout, Row, Stages
<1>4. UNCHANGED <<rollouts, quarantined>> /\ quarantined \subseteq Policy
  BY DEF Evaluate, RolloutInv, RolloutTyped
<1>5. QED
  BY <1>1, <1>3, <1>4, ManagementStep

\* A manager goes on to another place of its call, with the row it had.
LEMMA MoveStep ==
    ASSUME RolloutInv, NEW m \in Manager, NEW at \in {"quarantine", "rollback"},
           managing[m].at \in {"decided", "quarantine"},
           managing' = [managing EXCEPT ![m].at = at],
           UNCHANGED rollouts, quarantined' \subseteq Policy
    PROVE  RolloutInv'
<1> DEFINE new == [managing[m] EXCEPT !.at = at]
<1>1. managing \in [Manager -> Management] /\ managing[m] \in Management /\ managing[m].policy \in Policy
  BY DEF RolloutInv, RolloutTyped
<1>2. new \in Management /\ new.at = at /\ new.policy = managing[m].policy
  BY <1>1 DEF Management
<1>3. managing' = [managing EXCEPT ![m] = new]
  BY <1>1
<1>4. new.at # "insert"
  BY <1>2
<1>5. QED
  BY <1>1, <1>2, <1>3, <1>4, ManagementStep

LEMMA LeaveStep ==
    ASSUME RolloutInv, NEW m \in Manager, Leave(m)
    PROVE  RolloutInv'
<1>1. AtRest \in Management /\ AtRest.at = "rest"
  BY DEF AtRest, Management, Row, NoRollout, Stages
<1>2. /\ managing' = [managing EXCEPT ![m] = AtRest] /\ UNCHANGED <<rollouts, quarantined>>
      /\ quarantined \subseteq Policy
  BY DEF Leave, RolloutInv, RolloutTyped
<1>3. QED
  BY <1>1, <1>2, ManagementStep

LEMMA RolloutStep ==
    ASSUME RolloutInv, [RolloutNext]_rolloutVars
    PROVE  RolloutInv'
<1>1. CASE UNCHANGED rolloutVars
  <2>1. UNCHANGED <<rollouts, quarantined, managing>>
    BY <1>1 DEF rolloutVars
  <2>2. SoleManager => \A m \in Manager : managing'[m].at = "insert" => Climbs(managing[m].row)'
    BY <2>1 DEF RolloutInv, Climbs, Active
  <2>3. RolloutTyped' /\ (SoleManager => StagesClimb')
    BY <2>1 DEF RolloutInv, RolloutTyped, StagesClimb
  <2>4. QED
    BY <2>2, <2>3 DEF RolloutInv
<1>2. ASSUME NEW m \in Manager, NEW p \in Policy, Evaluate(m, p) PROVE RolloutInv'
  BY <1>2, EvaluateStep
<1>3. ASSUME NEW m \in Manager, NEW target \in Stages, Promote(m, target) PROVE RolloutInv'
  BY <1>3, PromoteStep
<1>4. ASSUME NEW m \in Manager, Observe(m) PROVE RolloutInv'
  <2>1. PICK at \in {"quarantine", "rollback"} : managing' = [managing EXCEPT ![m].at = at]
    BY <1>4 DEF Observe
  <2>2. managing[m].at = "decided" /\ UNCHANGED rollouts /\ quarantined' \subseteq Policy
    BY <1>4 DEF Observe, RolloutInv, RolloutTyped
  <2>3. QED
    BY <2>1, <2>2, MoveStep
<1>5. ASSUME NEW m \in Manager, Quarantine(m) PROVE RolloutInv'
  <2>1. /\ managing' = [managing EXCEPT ![m].at = "rollback"] /\ managing[m].at = "quarantine"
        /\ UNCHANGED rollouts /\ quarantined' = quarantined \cup {managing[m].policy}
    BY <1>5 DEF Quarantine
  <2>2. quarantined' \subseteq Policy
    BY <2>1 DEF RolloutInv, RolloutTyped
  <2>3. QED
    BY <2>1, <2>2, MoveStep
<1>6. ASSUME NEW m \in Manager, Insert(m) \/ StartRollback(m) \/ Leave(m) PROVE RolloutInv'
  BY <1>6, InsertStep, StartRollbackStep, LeaveStep
<1>7. QED
  BY <1>1, <1>2, <1>3, <1>4, <1>5, <1>6 DEF RolloutNext

LEMMA RolloutInvariant == RolloutSpec => []RolloutInv
<1>1. RolloutInv /\ [RolloutNext]_rolloutVars => RolloutInv'
  BY RolloutStep
<1>2. QED
  BY RolloutInitInv, <1>1, PTL DEF RolloutSpec

-----------------------------------------------------------------------------
(* The rows, the quarantine and the memory of the managers keep their types. *)
THEOREM RolloutTypeCorrect == RolloutSpec => []RolloutTypeOK
<1>1. ASSUME RolloutInv PROVE RolloutTypeOK
  <2>1. /\ rollouts \in Seq(Row) /\ quarantined \subseteq Policy
        /\ managing \in [Manager -> Management]
    BY <1>1 DEF RolloutInv, RolloutTyped
  <2>2. \A i \in 1 .. Len(rollouts) : rollouts[i] \in Row
    BY <2>1
  <2>3. \A m \in Manager : managing[m] \in Management
    BY <2>1
  <2>4. QED
    BY <2>1, <2>2, <2>3 DEF RolloutTypeOK, Row, Management
<1>2. QED
  BY <1>1, RolloutInvariant, PTL

(* A manager that is the only one of its scope promotes at most one stage     *)
(* beyond the row its promotion takes the place of, whatever it rolled back,  *)
(* decided long ago, or died over in between.                                 *)
THEOREM SoleManagerClimbs ==
    ASSUME \A m, n \in Manager : m = n
    PROVE  RolloutSpec => []StagesClimb
<1>1. RolloutInv => StagesClimb
  BY DEF RolloutInv, SoleManager
<1>2. QED
  BY <1>1, RolloutInvariant, PTL

-----------------------------------------------------------------------------
\* The three databases together: each follows its own specification.
LEMMA DatabasesFollow == DatabasesSpec => SessionSpec /\ HeadlessSpec /\ RolloutSpec
<1>1. DatabasesInit => SessionInit /\ HeadlessInit /\ RolloutInit
  BY DEF DatabasesInit
<1>2. [DatabasesNext]_databaseVars =>
         [SessionNext]_sessionVars /\ [HeadlessNext]_headlessVars /\ [RolloutNext]_rolloutVars
  BY DEF DatabasesNext, databaseVars
<1>3. QED
  BY <1>1, <1>2, PTL DEF DatabasesSpec, SessionSpec, HeadlessSpec, RolloutSpec

\* The tables and the memory of the processes that use them keep their types, in all
\* three databases at once.
THEOREM DatabasesTypeCorrect == DatabasesSpec => []DatabasesTypeOK
<1>1. SessionTypeOK /\ HeadlessTypeOK /\ RolloutTypeOK => DatabasesTypeOK
  BY DEF DatabasesTypeOK
<1>2. QED
  BY <1>1, DatabasesFollow, SessionTypeCorrect, HeadlessTypeCorrect, RolloutTypeCorrect, PTL
=============================================================================
