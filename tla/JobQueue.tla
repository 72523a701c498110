------------------------------- MODULE JobQueue -------------------------------
(***************************************************************************)
(* What the durable job queue promises its clients, without tables,         *)
(* transactions, retries or clocks that lag: a job is handed out a bounded  *)
(* number of times, to one holder at a time until the holder answers or its *)
(* deadline passes, never before the jobs it depends on have succeeded, and *)
(* it ends once.  JobScheduler implements it (JobScheduler!Queue).          *)
(***************************************************************************)
EXTENDS Naturals

CONSTANTS
    Job,          \* the jobs
    Worker,       \* who may hold a job
    NoWorker,     \* nobody
    dependencies, \* the jobs a job depends on
    max_attempts, \* how many times a job may be handed out
    LeaseSeconds  \* how long a holder may keep a job without renewing

VARIABLES
    now,      \* the time
    outcome,  \* "absent" before a job is submitted, "open" until it ends
    attempts, \* how many times a job was handed out
    holder,   \* who holds it
    deadline  \* until when

vars == <<now, outcome, attempts, holder, deadline>>

Ends == {"succeeded", "failed", "dead-letter", "cancelled"}

Init ==
    /\ now \in Nat
    /\ outcome = [j \in Job |-> "absent"]
    /\ attempts = [j \in Job |-> 0]
    /\ holder = [j \in Job |-> NoWorker]
    /\ deadline = [j \in Job |-> 0]

Same(j) ==
    /\ outcome'[j] = outcome[j]
    /\ attempts'[j] = attempts[j]
    /\ holder'[j] = holder[j]
    /\ deadline'[j] = deadline[j]

Add(j) ==
    /\ outcome[j] = "absent"
    /\ outcome'[j] = "open"
    /\ attempts'[j] = attempts[j] /\ holder'[j] = NoWorker /\ deadline'[j] = 0
    /\ \A d \in dependencies[j] : outcome[d] # "absent"

\* A job without a holder, or one whose holder let the deadline pass.
HandOut(j) ==
    /\ outcome[j] = "open" /\ outcome'[j] = "open"
    /\ holder[j] = NoWorker \/ deadline[j] <= now
    /\ \A d \in dependencies[j] : outcome[d] = "succeeded"
    /\ attempts[j] < max_attempts[j]
    /\ attempts'[j] = attempts[j] + 1
    /\ holder'[j] \in Worker
    /\ deadline'[j] <= now + LeaseSeconds

\* A heartbeat never shortens a lease.
Renew(j) ==
    /\ outcome[j] = "open" /\ outcome'[j] = "open"
    /\ holder[j] # NoWorker /\ holder'[j] = holder[j]
    /\ attempts'[j] = attempts[j]
    /\ deadline[j] <= deadline'[j] /\ deadline'[j] <= now + LeaseSeconds

\* The attempt is over: the job is open again if it may be handed out once
\* more, else it is a dead letter.
GivenBack(j) ==
    /\ outcome[j] = "open" /\ holder[j] # NoWorker
    /\ outcome'[j] = IF attempts[j] < max_attempts[j] THEN "open" ELSE "dead-letter"
    /\ attempts'[j] = attempts[j] /\ holder'[j] = NoWorker /\ deadline'[j] = 0

TimedOut(j) == deadline[j] <= now /\ GivenBack(j)

\* The holder's own answer: the job has succeeded or failed for good.
Answer(j) ==
    /\ outcome[j] = "open" /\ holder[j] # NoWorker
    /\ outcome'[j] \in {"succeeded", "failed"}
    /\ outcome'[j] = "failed" => attempts[j] < max_attempts[j]
    /\ attempts'[j] = attempts[j] /\ holder'[j] = NoWorker /\ deadline'[j] = 0

CallOff(j) ==
    /\ outcome[j] = "open" /\ outcome'[j] = "cancelled"
    /\ attempts'[j] = attempts[j] /\ holder'[j] = NoWorker /\ deadline'[j] = 0

Operation(j) == Add(j) \/ HandOut(j) \/ Renew(j) \/ GivenBack(j) \/ Answer(j) \/ CallOff(j)

\* One operation on one job; meanwhile others may run out of time.
Next ==
    \/ /\ \A j \in Job : Same(j) \/ TimedOut(j)
       /\ now' = now
    \/ \E j \in Job : /\ Operation(j)
                      /\ \A k \in Job \ {j} : Same(k) \/ TimedOut(k)
                      /\ now' = now
    \/ /\ now' > now
       /\ \A j \in Job : Same(j)

Spec == Init /\ [][Next]_vars
=============================================================================
