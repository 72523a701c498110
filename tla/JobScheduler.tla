---------------------------- MODULE JobScheduler ----------------------------
(***************************************************************************)
(* The durable job queue of syntavra_runtime/job_scheduler.py: a SQLite     *)
(* table of jobs that workers claim under a lease, heartbeat, complete or   *)
(* fail, with retries, a dead-letter state, dependencies between jobs and a *)
(* per-project concurrency limit.                                           *)
(*                                                                          *)
(* Every operation is one BEGIN IMMEDIATE transaction, so it is one action. *)
(* What is not atomic is the clock: submit, claim, heartbeat and fail read  *)
(* time.time() BEFORE they wait for the write lock, so the time they write  *)
(* may be up to LockWait older than the moment they commit.                 *)
(***************************************************************************)
EXTENDS Integers, FiniteSets

CONSTANTS
    Job,          \* the jobs that may be submitted
    Worker,       \* the workers, each with its own worker_id
    Project,      \* the values of project_id
    NoWorker,     \* lease_owner = '' in the table
    NoLease,      \* a worker that executes nothing
    project,      \* project_id of a job
    priority,     \* priority of a job
    dependencies, \* the jobs a job depends on
    max_attempts, \* how many times a job may be claimed
    Accepts,      \* the jobs whose resource class a worker asks for
    Concurrency,  \* project_concurrency, the same for every claim
    LeaseSeconds, \* lease_seconds, the same for every claim and heartbeat
    BaseBackoff,  \* base_backoff_seconds
    BackoffCap,   \* the cap on the retry delay (3600 s)
    Delays,       \* how far in the future submit may schedule a job
    LockWait,     \* how long a transaction may wait for the write lock
    Horizon,      \* bound: workers extend no lease beyond this time
    MaxClock      \* bound: the clock stops here

ASSUME ParametersAssumption ==
    /\ NoWorker \notin Worker
    /\ project \in [Job -> Project]
    /\ priority \in [Job -> Int]
    /\ dependencies \in [Job -> SUBSET Job]
    /\ max_attempts \in [Job -> Nat \ {0}]
    /\ Accepts \in [Worker -> SUBSET Job]
    /\ Concurrency \in Nat \ {0}
    /\ LeaseSeconds \in Nat \ {0}
    /\ BaseBackoff \in Nat
    /\ BackoffCap \in Nat
    /\ Delays \subseteq Nat
    /\ LockWait \in Nat

ASSUME JobsFinite == IsFiniteSet(Job)

VARIABLES
    clock, \* the wall clock, in whole seconds
    jobs,  \* the table scheduled_jobs
    held   \* the JobLease each worker executes, in the worker's memory

schedulerVars == <<clock, jobs, held>>

-----------------------------------------------------------------------------
Final  == {"succeeded", "failed", "dead-letter", "cancelled"}
States == {"absent", "queued", "running"} \cup Final

\* A row of scheduled_jobs; "absent" stands for no row at all.
Row == [state: States, attempt: Nat, lease_owner: Worker \cup {NoWorker},
        lease_until: Nat, scheduled_at: Nat, created_at: Nat, updated_at: Nat]

Absent == [state |-> "absent", attempt |-> 0, lease_owner |-> NoWorker,
           lease_until |-> 0, scheduled_at |-> 0, created_at |-> 0, updated_at |-> 0]

\* What a worker keeps of a claim: the attempt it runs, when it last heard from
\* the scheduler, and until when it believes the job to be its own.
Lease == [job: Job, attempt: Nat, since: Nat, until: Nat]

\* The times an operation that began at or after `since` may have read.
TimesRead(since) == {t \in since .. clock : clock <= t + LockWait}

\* Retry delay after the a-th attempt: min(cap, base * 2 ** max(0, a - 1)).
Backoff(a) == LET delay == BaseBackoff * 2 ^ (IF a = 0 THEN 0 ELSE a - 1)
              IN  IF delay \in 0 .. BackoffCap THEN delay ELSE BackoffCap

\* Fault: the owner stays in the row of a job that no longer runs.
ReleaseKeepsOwner(row, state, now, scheduled) ==
    [row EXCEPT !.state = state, !.lease_until = 0,
                !.scheduled_at = scheduled, !.updated_at = now]

\* The UPDATE that takes a job from its worker.
Release(row, state, now, scheduled) ==
    [row EXCEPT !.state = state, !.lease_owner = NoWorker, !.lease_until = 0,
                !.scheduled_at = scheduled, !.updated_at = now]

\* Fault: a lease is reaped one second before it ends.
ExpiredEarly(row, now) ==
    row.state = "running" /\ row.lease_until > 0 /\ row.lease_until <= now + 1

Expired(row, now) ==
    row.state = "running" /\ row.lease_until > 0 /\ row.lease_until <= now

\* Fault: the reaper invents a state of its own.
ReapedExpired(j, row, now) == Release(row, "expired", now, now)

Reaped(j, row, now) ==
    Release(row, IF row.attempt < max_attempts[j] THEN "queued" ELSE "dead-letter", now, now)

\* Fault: a reaper that finds nothing.
ReapNothing(now) == jobs

\* _reap_expired: every expired lease is taken back, in one pass.
ReapExpired(now) ==
    [j \in Job |-> IF Expired(jobs[j], now) THEN Reaped(j, jobs[j], now) ELSE jobs[j]]

Running(rows, p) == {j \in Job : project[j] = p /\ rows[j].state = "running"}

\* Fault: the limit compared with <=.
ReadyOneMore(rows, w, now) ==
    {j \in Accepts[w] :
        /\ rows[j].state = "queued"
        /\ rows[j].scheduled_at <= now
        /\ \A d \in dependencies[j] : rows[d].state = "succeeded"
        /\ Cardinality(Running(rows, project[j])) <= Concurrency}

\* Fault: a dependency need only be over, not succeeded.
ReadyAfterFailure(rows, w, now) ==
    {j \in Accepts[w] :
        /\ rows[j].state = "queued"
        /\ rows[j].scheduled_at <= now
        /\ \A d \in dependencies[j] : rows[d].state \in Final
        /\ Cardinality(Running(rows, project[j])) < Concurrency}

\* Fault: the limit counts every job of the project that was ever claimed.
ReadyCountsAll(rows, w, now) ==
    {j \in Accepts[w] :
        /\ rows[j].state = "queued"
        /\ rows[j].scheduled_at <= now
        /\ \A d \in dependencies[j] : rows[d].state = "succeeded"
        /\ Cardinality({k \in Job : project[k] = project[j] /\ rows[k].attempt > 0}) < Concurrency}

\* The WHERE clause of claim.
Ready(rows, w, now) ==
    {j \in Accepts[w] :
        /\ rows[j].state = "queued"
        /\ rows[j].scheduled_at <= now
        /\ \A d \in dependencies[j] : rows[d].state = "succeeded"
        /\ Cardinality(Running(rows, project[j])) < Concurrency}

\* MAX(updated_at) of the project's running, succeeded and failed rows, 0 if none.
LastServiced(rows, p) ==
    LET times == {0} \cup {rows[j].updated_at : j \in
            {k \in Job : project[k] = p /\ rows[k].state \in {"running", "succeeded", "failed"}}}
    IN  CHOOSE t \in times : \A u \in times : u <= t

\* The ORDER BY clause of claim: j goes before k.
Before(rows, j, k) ==
    LET sj == LastServiced(rows, project[j])
        sk == LastServiced(rows, project[k])
    IN  \/ priority[j] > priority[k]
        \/ priority[j] = priority[k] /\ sj < sk
        \/ priority[j] = priority[k] /\ sj = sk /\ rows[j].created_at < rows[k].created_at

\* Fault: the lease_owner condition is missing from the UPDATE.
OwnsAnything(w) == jobs[held[w].job].state = "running"

\* WHERE job_id=? AND state='running' AND lease_owner=?
Owns(w) == LET row == jobs[held[w].job]
           IN  row.state = "running" /\ row.lease_owner = w

-----------------------------------------------------------------------------
SchedulerInit ==
    /\ clock = 1
    /\ jobs = [j \in Job |-> Absent]
    /\ held = [w \in Worker |-> NoLease]

\* A client submits j; it may be scheduled for later.
Submit(j) ==
    /\ jobs[j].state = "absent"
    /\ j \notin dependencies[j]
    /\ \A d \in dependencies[j] : jobs[d].state # "absent"
    /\ \E now \in TimesRead(1), delay \in Delays :
          jobs' = [jobs EXCEPT ![j] = [Absent EXCEPT !.state = "queued",
                      !.scheduled_at = now + delay, !.created_at = now, !.updated_at = now]]
    /\ UNCHANGED <<clock, held>>

\* The row of a claimed job, and what the worker is told.
Claimed(row, w, now) ==
    [row EXCEPT !.state = "running", !.attempt = @ + 1, !.lease_owner = w,
                !.lease_until = now + LeaseSeconds, !.updated_at = now]

\* An idle worker asks for work: expired leases are reaped first, in the same
\* transaction, then the first ready job, if any, becomes the worker's.
Claim(w) ==
    /\ held[w] = NoLease
    /\ \E now \in TimesRead(1) :
          LET rows  == ReapExpired(now)
              ready == Ready(rows, w, now)
          IN  \/ /\ ready = {}
                 /\ jobs' = rows
                 /\ UNCHANGED held
              \/ \E j \in ready :
                    /\ \A k \in ready : ~Before(rows, k, j)
                    /\ jobs' = [rows EXCEPT ![j] = Claimed(@, w, now)]
                    /\ held' = [held EXCEPT ![w] =
                          [job |-> j, attempt |-> rows[j].attempt + 1,
                           since |-> clock, until |-> now + LeaseSeconds]]
    /\ UNCHANGED clock

\* "job lease is not owned by worker": the call raises and the worker gives up.
Refused(w) ==
    /\ ~Owns(w)
    /\ held' = [held EXCEPT ![w] = NoLease]
    /\ UNCHANGED <<clock, jobs>>

\* Fault: the worker is told a new lease that the table does not record.
ExtendedInMemory(row, now) == [row EXCEPT !.updated_at = now]

\* Fault: a heartbeat adds to what is left of the lease.
ExtendedFromItsEnd(row, now) ==
    [row EXCEPT !.lease_until = @ + LeaseSeconds, !.updated_at = now]

Extended(row, now) ==
    [row EXCEPT !.lease_until = now + LeaseSeconds, !.updated_at = now]

Heartbeat(w) ==
    /\ held[w] # NoLease
    /\ \/ Refused(w)
       \/ /\ Owns(w)
          /\ \E now \in TimesRead(held[w].since) :
                /\ now + LeaseSeconds <= Horizon
                /\ jobs' = [jobs EXCEPT ![held[w].job] = Extended(@, now)]
                /\ held' = [held EXCEPT ![w].since = clock, ![w].until = now + LeaseSeconds]
          /\ UNCHANGED clock

Complete(w) ==
    /\ held[w] # NoLease
    /\ \/ Refused(w)
       \/ /\ Owns(w)
          /\ jobs' = [jobs EXCEPT ![held[w].job] =
                Release(@, "succeeded", clock, @.scheduled_at)]
          /\ held' = [held EXCEPT ![w] = NoLease]
          /\ UNCHANGED clock

\* The row after fail: retried later, or failed, or dead-lettered.
Failed(j, row, retryable, now) ==
    IF retryable /\ row.attempt < max_attempts[j]
    THEN Release(row, "queued", now, now + Backoff(row.attempt))
    ELSE Release(row, IF row.attempt >= max_attempts[j] THEN "dead-letter" ELSE "failed", now, now)

Fail(w) ==
    /\ held[w] # NoLease
    /\ \/ Refused(w)
       \/ /\ Owns(w)
          /\ \E now \in TimesRead(held[w].since), retryable \in BOOLEAN :
                jobs' = [jobs EXCEPT ![held[w].job] = Failed(held[w].job, @, retryable, now)]
          /\ held' = [held EXCEPT ![w] = NoLease]
          /\ UNCHANGED clock

\* The worker that runs a cancelled job is not told; its next call is refused.
Cancel(j) ==
    /\ jobs[j].state \in {"queued", "running"}
    /\ jobs' = [jobs EXCEPT ![j] = Release(@, "cancelled", clock, @.scheduled_at)]
    /\ UNCHANGED <<clock, held>>

\* `scheduler reap`: reads the clock inside its transaction.
Reap ==
    /\ jobs' = ReapExpired(clock)
    /\ UNCHANGED <<clock, held>>

\* A worker dies and comes back under the same worker_id with nothing in memory.
Crash(w) ==
    /\ held[w] # NoLease
    /\ held' = [held EXCEPT ![w] = NoLease]
    /\ UNCHANGED <<clock, jobs>>

Tick ==
    /\ clock < MaxClock
    /\ clock' = clock + 1
    /\ UNCHANGED <<jobs, held>>

SchedulerNext ==
    \/ \E j \in Job : Submit(j) \/ Cancel(j)
    \/ \E w \in Worker : Claim(w) \/ Heartbeat(w) \/ Complete(w) \/ Fail(w) \/ Crash(w)
    \/ Reap
    \/ Tick

SchedulerSpec == SchedulerInit /\ [][SchedulerNext]_schedulerVars

-----------------------------------------------------------------------------
SchedulerTypeOK ==
    /\ clock \in Nat \ {0}
    /\ jobs \in [Job -> Row]
    /\ held \in [Worker -> Lease \cup {NoLease}]

\* The table alone: a job has an owner exactly while it runs, and only then a
\* lease that can expire (_reap_expired asks for lease_until > 0); only rows that
\* exist were ever attempted.
RowConsistent(row) ==
    /\ row.state = "running" <=> row.lease_owner # NoWorker
    /\ row.state = "running" => row.lease_until > 0 /\ row.attempt > 0
    /\ row.state = "absent" => row.attempt = 0

RowsConsistent == \A j \in Job : RowConsistent(jobs[j])

\* The table and the memory of the workers: a worker whose lease is still the
\* one in the table knows its attempt and its end exactly; any other worker's
\* lease has run out, or its job was cancelled under it; and no two workers were
\* ever given the same attempt.
Agrees(w) ==
    LET row == jobs[held[w].job]
    IN  /\ 1 <= held[w].since /\ held[w].since <= clock
        /\ held[w].attempt <= row.attempt
        /\ held[w].attempt < row.attempt => held[w].until <= clock
        /\ Owns(w) => held[w].attempt = row.attempt /\ held[w].until = row.lease_until
        /\ Owns(w) \/ held[w].until <= clock \/ row.state = "cancelled"

LeaseAgreement ==
    /\ \A w \in Worker : held[w] # NoLease => Agrees(w)
    /\ \A v, w \in Worker :
          (v # w /\ held[v] # NoLease /\ held[w] # NoLease /\ held[v].job = held[w].job)
          => held[v].attempt # held[w].attempt

\* The claim is never taken away early: while a lease has not expired, only its
\* worker's own answer (which empties its memory) or a cancel ends the attempt.
\* claim and reap read the clock at different moments of their transactions.
UnexpiredLeaseKept ==
    [][\A j \in Job :
          (/\ jobs[j].state = "running"
           /\ jobs[j].lease_until > clock
           /\ jobs'[j].state \notin {"running", "cancelled"})
          => \E w \in Worker : held[w] # NoLease /\ held[w].job = j
                               /\ held[w].attempt = jobs[j].attempt /\ held'[w] = NoLease]_schedulerVars

\* Two workers never both believe, within their leases, that they execute the
\* same job, however late their heartbeats commit and whoever crashed before.
ExclusiveExecution ==
    \A v, w \in Worker :
        (/\ v # w /\ held[v] # NoLease /\ held[w] # NoLease
         /\ held[v].job = held[w].job)
        => held[v].until <= clock \/ held[w].until <= clock

\* A result is recorded only for the attempt that produced it: a worker whose
\* lease ran out and whose job was claimed again cannot complete or fail it.
FencedResult ==
    [][\A w \in Worker :
          (held[w] # NoLease /\ jobs'[held[w].job] # jobs[held[w].job] /\ held'[w] = NoLease)
          => held[w].attempt = jobs[held[w].job].attempt]_schedulerVars

\* Concurrency: a project never runs more jobs than its limit, although the
\* limit is only looked at by claim and leases come and go by other paths.
ConcurrencyLimit ==
    \A p \in Project : Cardinality(Running(jobs, p)) <= Concurrency

\* No attempt of a job starts before every dependency has succeeded, and no
\* dependency stops being succeeded afterwards.
DependencyOrder ==
    \A j \in Job : jobs[j].attempt > 0 =>
        \A d \in dependencies[j] : jobs[d].state = "succeeded"

\* A job is attempted at most max_attempts times; exhausted jobs and only those
\* are dead letters, and a queued job always has an attempt left: claim, fail and
\* _reap_expired each count attempts, and never disagree.
WithinBudget(j, row) ==
    /\ row.attempt <= max_attempts[j]
    /\ row.state = "dead-letter" => row.attempt = max_attempts[j]
    /\ row.state \in {"queued", "failed"} => row.attempt < max_attempts[j]

AttemptBudget == \A j \in Job : jobs[j].state # "absent" => WithinBudget(j, jobs[j])

\* The table as the queue that clients are promised: every step of the scheduler
\* is one operation on one job, or nothing but leases that ran out.
Queue == INSTANCE JobQueue WITH
    now      <- clock,
    outcome  <- [j \in Job |-> IF jobs[j].state \in {"queued", "running"}
                               THEN "open" ELSE jobs[j].state],
    attempts <- [j \in Job |-> jobs[j].attempt],
    holder   <- [j \in Job |-> jobs[j].lease_owner],
    deadline <- [j \in Job |-> jobs[j].lease_until]

\* The scheduler keeps the promises of JobQueue: no hand-out beyond max_attempts,
\* before the dependencies succeeded, or while another holder's deadline lies
\* ahead; and an end is an end.
KeepsQueuePromises == Queue!Spec

\* Every job whose dependencies all succeeded gets a final state.
ReadyJobsSettle ==
    \A j \in Job :
        (jobs[j].state = "queued" /\ \A d \in dependencies[j] : jobs[d].state = "succeeded")
        ~> jobs[j].state \in Final

\* No job stays with a dead worker: every running attempt ends.
AttemptsEnd ==
    \A j \in Job : \A a \in 1 .. max_attempts[j] :
        (jobs[j].state = "running" /\ jobs[j].attempt = a)
        ~> ~(jobs[j].state = "running" /\ jobs[j].attempt = a)
=============================================================================
