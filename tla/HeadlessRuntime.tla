---------------------------- MODULE HeadlessRuntime ----------------------------
(***************************************************************************)
(* Detached commands (syntavra_runtime/headless_runtime.py): a table of     *)
(* jobs, workers that claim the oldest queued job and run it (run_once),    *)
(* and operators who cancel and resume.                                     *)
(*                                                                          *)
(* claim is one immediate transaction.  transition is not: it reads the row *)
(* outside of any transaction, decides, and then writes the row and the     *)
(* event in one; others act in between.                                     *)
(***************************************************************************)
EXTENDS Integers, FiniteSets, Functions

CONSTANTS
    HeadlessJob, \* jobs, numbered by created_at
    Runner,      \* workers
    Operator,    \* processes that cancel and resume
    Nobody,      \* claimed_by = ''
    MaxRequests  \* bound: cancelled and resumed events

ASSUME HeadlessAssumption == IsFiniteSet(Runner \cup Operator)

VARIABLES
    rows,   \* table jobs
    events, \* table events: how many there are of each type
    handling   \* where each process is in its call

headlessVars == <<rows, events, handling>>

-----------------------------------------------------------------------------
JobStates == {"none", "queued", "claimed", "running", "completed", "failed", "cancelled"}
EventTypes == (JobStates \ {"none", "queued"}) \cup {"submitted", "resumed"}
Finished == {"completed", "failed", "cancelled"}

\* Nobody in the repository moves a job to VERIFYING or BLOCKED.
Allowed(state) ==
    CASE state = "queued"  -> {"claimed", "cancelled"}
      [] state = "claimed" -> {"running", "queued", "cancelled"}
      [] state = "running" -> {"completed", "failed", "cancelled"}
      [] state \in {"failed", "cancelled"} -> {"queued"}
      [] OTHER -> {}

NoRow == [state |-> "none", owner |-> Nobody, attempts |-> 0]

\* at: "read" and "write" are the two halves of a transition to state `to`; when
\* it raises, the call is over if `last`, else the job is to be FAILED.
NotHandling == [at |-> "rest", job |-> 0, to |-> "none", seen |-> NoRow, last |-> TRUE]
Step(at, j, to, last) == [NotHandling EXCEPT !.at = at, !.job = j, !.to = to, !.last = last]

HeadlessInit ==
    /\ rows = [j \in HeadlessJob |-> NoRow]
    /\ events = [j \in HeadlessJob |-> [e \in EventTypes |-> 0]]
    /\ handling = [p \in Runner \cup Operator |-> NotHandling]

Logged(j, type) == events' = [events EXCEPT ![j][type] = @ + 1]

\* created_at is read before the row is inserted: jobs may arrive out of order.
SubmitHeadless(j) ==
    /\ rows[j].state = "none"
    /\ rows' = [rows EXCEPT ![j].state = "queued"]
    /\ Logged(j, "submitted")
    /\ UNCHANGED handling

\* Fault: a job that another worker has claimed may be claimed.
ClaimableByAll(j) == rows[j].state \in {"queued", "claimed"}

Claimable(j) == rows[j].state = "queued"

\* run_once: the claim, after which the job is to be RUNNING.
ClaimHeadless(w) ==
    /\ handling[w] = NotHandling
    /\ \E j \in HeadlessJob :
          /\ Claimable(j) /\ \A k \in HeadlessJob : Claimable(k) => j <= k
          /\ rows' = [rows EXCEPT ![j].state = "claimed", ![j].owner = w]
          /\ Logged(j, "claimed")
          /\ handling' = [handling EXCEPT ![w] = Step("read", j, "running", TRUE)]

Requests == FoldFunction(LAMBDA e, n : e.cancelled + e.resumed + n, 0, events)

\* cancel does nothing to a finished job.
CancelHeadless(o, j) ==
    /\ handling[o] = NotHandling /\ Requests < MaxRequests
    /\ rows[j].state \notin Finished \cup {"none"}
    /\ handling' = [handling EXCEPT ![o] = Step("read", j, "cancelled", TRUE)]
    /\ UNCHANGED <<rows, events>>

ResumeHeadless(o, j) ==
    /\ handling[o] = NotHandling /\ Requests < MaxRequests
    /\ "queued" \in Allowed(rows[j].state)
    /\ handling' = [handling EXCEPT ![o] = Step("read", j, "queued", TRUE)]
    /\ UNCHANGED <<rows, events>>

\* A transition that is not allowed, or that the lock of the database times out.
Raised(p) ==
    handling' = [handling EXCEPT ![p] =
        IF handling[p].last THEN NotHandling ELSE Step("read", handling[p].job, "failed", TRUE)]

ReadRow(p) ==
    /\ handling[p].at = "read"
    /\ LET row == rows[handling[p].job]
       IN  IF handling[p].to \in Allowed(row.state)
           THEN handling' = [handling EXCEPT ![p].at = "write", ![p].seen = row]
           ELSE Raised(p)
    /\ UNCHANGED <<rows, events>>

\* Fault: every transition of a worker counts as an attempt.
WrittenByWorker(p) ==
    [state |-> handling[p].to, owner |-> handling[p].seen.owner,
     attempts |-> handling[p].seen.attempts + (IF p \in Runner THEN 1 ELSE 0)]

\* The row after the transition, made from the row that was read.
Written(p) ==
    [state |-> handling[p].to,
     owner |-> CASE handling[p].to = "running" -> p
                 [] handling[p].to = "queued" -> Nobody
                 [] OTHER -> handling[p].seen.owner,
     attempts |-> handling[p].seen.attempts + (IF handling[p].to = "running" THEN 1 ELSE 0)]

WriteRow(p) ==
    /\ handling[p].at = "write"
    /\ LET j == handling[p].job
       IN  /\ rows' = [rows EXCEPT ![j] = Written(p)]
           /\ Logged(j, IF handling[p].to = "queued" THEN "resumed" ELSE handling[p].to)
           /\ handling' = [handling EXCEPT ![p] =
                 IF handling[p].to = "running" THEN Step("executing", j, "none", TRUE) ELSE NotHandling]

WriteRowFails(p) == handling[p].at = "write" /\ Raised(p) /\ UNCHANGED <<rows, events>>

\* The broker returns a receipt, or raises: then FAILED is the last attempt.
ExecutionEnds(w, to, last) ==
    /\ handling[w].at = "executing" /\ (last => to = "failed")
    /\ handling' = [handling EXCEPT ![w] = Step("read", handling[w].job, to, last)]
    /\ UNCHANGED <<rows, events>>

HeadlessDies(p) ==
    /\ handling[p] # NotHandling
    /\ handling' = [handling EXCEPT ![p] = NotHandling]
    /\ UNCHANGED <<rows, events>>

HeadlessNext ==
    \/ \E j \in HeadlessJob : SubmitHeadless(j)
    \/ \E w \in Runner :
          \/ ClaimHeadless(w)
          \/ \E to \in {"completed", "failed"}, last \in BOOLEAN : ExecutionEnds(w, to, last)
    \/ \E o \in Operator, j \in HeadlessJob : CancelHeadless(o, j) \/ ResumeHeadless(o, j)
    \/ \E p \in Runner \cup Operator : ReadRow(p) \/ WriteRow(p) \/ WriteRowFails(p) \/ HeadlessDies(p)

HeadlessSpec == HeadlessInit /\ [][HeadlessNext]_headlessVars

-----------------------------------------------------------------------------
HeadlessTypeOK ==
    /\ rows \in [HeadlessJob -> [state : JobStates, owner : Runner \cup {Nobody}, attempts : Nat]]
    /\ events \in [HeadlessJob -> [EventTypes -> Nat]]
    /\ \A p \in Runner \cup Operator : handling[p].at = "rest" <=> handling[p] = NotHandling

\* Whatever stale rows the transitions of workers and operators write over each
\* other, a job is claimed at most once per submission or resumption, executed at
\* most once per claim, and has at most one result per execution; attempts never
\* exceeds the executions, and a job with a result has been attempted.
ExecutionsAccounted ==
    \A j \in HeadlessJob :
        /\ events[j].claimed <= events[j].submitted + events[j].resumed
        /\ events[j].running <= events[j].claimed
        /\ events[j].completed + events[j].failed <= events[j].running
        /\ rows[j].attempts <= events[j].running
        /\ rows[j].state \in {"running", "completed", "failed"} => rows[j].attempts >= 1
=============================================================================
