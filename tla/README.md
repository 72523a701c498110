# Syntavra runtime: specifications, model checking and proofs

This directory holds TLA+ specifications of the parts of the Syntavra Python
runtime (`src/syntavra_runtime/`) in which processes, threads, crashes and clocks
interleave. Each module is a translation of the code; `PROJECT.json` names the
source lines of every definition. Two things are done with them: TLC explores
small instances exhaustively, and TLAPS proves theorems for every instance.

## 1. Inventory

Everything below is Python on top of SQLite (WAL mode) and plain files. There is
no server in the middle: a command line tool, an MCP server and detached workers
are separate processes that meet in the same databases and directories.

| Component | State | Operations | Who else touches it |
|---|---|---|---|
| Durable job scheduler (`job_scheduler.py`) | tables `scheduled_jobs`, `job_dependencies`, `scheduler_events` | submit, claim, heartbeat, complete, fail, cancel, reap | any number of workers; a worker remembers its lease |
| Process broker (`process_broker.py`, `broker_worker.py`) | table `jobs`, a process id per row, cancel marker, heartbeat file | submit, run, `_execute`, cancel, recover, show | submitter, detached worker, command, canceller, recoverer |
| Completion events (`state.py`) | table `completion_events`, `completions.jsonl` | record_completion, append_completion, completions_after, drain | workers and recover write, consumers keep a cursor |
| Evidence store (`evidence.py`) | object and metadata files, tables `evidence_objects`, `evidence_references` | put, get/open, retain, release, set_legal_hold, gc | the broker's output, the proxy, MCP tools, maintenance commands |
| Evidence key rotation (`evidence_rotation.py`) | keys, `active.json`, staging and backup files | rotate_evidence_key | concurrent with put and gc |
| Last-good configuration (`config_last_good_apply.py`) | target file, lock file, temporary file, receipt | plan, apply | concurrent applies, crashes |
| Session runtime (`session_runtime.py`) | sessions, event histories, trees of summaries, checkpoints | create, append, compact, active_context, checkpoint, fork, merge, close, import | several agents, a compacting thread |
| Headless job runtime (`headless_runtime.py`) | table of jobs with a state graph, events | submit, claim, run_once, transition, cancel, resume, export and import of bundles | several workers and operators |
| Policy rollout (`policy_rollout.py`) | observations, rollouts, quarantine | record, evaluate, promote, observe_and_auto_rollback, rollback, quarantine | several managers |
| Migrations (`migrations.py`) | a database and its migration table, backups | plan, apply, rollback | processes that start at the same time |
| Update manager (`update_manager.py`) | the executable, staged file, backups, receipt | install, rollback | one process, that may die |
| Host installation (`host_installation.py`) | files and directories of other programs, safety paths, transactions | plan, apply, verify, rollback | one process, that may die; users edit the targets in between |
| Provider proxy (`provider_proxy.py`) | accept loop, semaphore of slots, active requests, connections' threads | start, requests, shutdown | request threads of this and earlier servers, clients that are silent |
| Provider account pool (`provider_account_pool.py`) | quotas and circuit breaker counters | register, record_result, route | request threads; each operation is one transaction |
| Usage receipts, capability tokens, backup | signed chains, signed decisions, encrypted bundles | append, verify, create, restore | none that interleaves |
| Artifacts, output firewall, sandbox, command line, MCP server, Rust port | content-addressed data, argument parsing, I/O | – | – |

What is hard in this code, and what should be true of it, is listed line by line
under `hazards` in `PROJECT.json`. In short:

- *Scheduler.* The wall clock is read before the write lock is obtained, so an
  operation may act on a time up to 30 s old; workers crash, answer late, and come
  back under their old name. It is correct if leases are exclusive, results are
  accepted only from the attempt they belong to, budgets, limits and dependencies
  hold, and every ready job ends.
- *Broker.* Five kinds of process write one row without comparing what they read
  with what they overwrite. It is correct if what a row or an event says has
  happened, recover leaves live jobs alone, each completion is handed to a consumer
  once, and every supervised command ends and is reported.
- *Evidence.* Files and index are changed one after the other, and gc and rotation
  change the same files. It is correct if gc deletes only garbage, and if no
  sequence of calls, failures and crashes gives up the last copy of evidence
  somebody still needs. (A Ctrl-C in a rotation may: see EvidenceStore below.)
- *Last-good configuration.* Processes exclude each other by a lock file that is removed
  by force when it is old, and may die anywhere. It is correct if the lock excludes, the
  target is always one whole snapshot, and a receipt says what is in the file.
- *Sessions.* A history grows while it is read, verified, summarised and checkpointed in
  separate transactions. It is correct if summaries cover exactly what they claim,
  checkpoints cover what was verified, and the context hides no event.
- *Headless jobs.* A transition writes a row made from one it has read earlier, so that
  a worker and an operator may overwrite each other. It is correct if claims, executions
  and results still add up.
- *Policies.* Managers promote and roll back from decisions and active rows that others
  have replaced. It is correct if no promotion skips a stage; with two managers one may
  (finding 6), with one none does.
- *Migrations.* Several processes plan the same migrations before either applies them, and
  one that fails, or an operator, puts an old database back under the others. It is correct
  if each migration runs once on the database that records it, in order as far as nobody
  commits over a restore, and if what is committed stays until somebody restores.
- *Update manager and host installation.* Files are copied and renamed one by one, and
  any call may fail or be the last. It is correct if what was there before can be had back.
- *Proxy.* Threads of connections outlive the server that accepted them, requests may
  hang, and so may a client in its TLS handshake. It is correct if no server exceeds its
  slots, a shutdown in time leaves no request behind, and a shutdown returns unless a client
  stays in the accept loop for ever.

## 2. Modules

| Module | What it is |
|---|---|
| `JobScheduler` | the durable queue: table, clock, the leases in the workers' memory |
| `JobQueue` | what that queue promises its clients; `JobScheduler` implements it |
| `MCJobScheduler` | instances of the scheduler for TLC, and the fairness of its liveness run |
| `JobSchedulerProofs` | theorems about `JobScheduler`, and that it implements `JobQueue` |
| `ProcessBroker` | submit, worker, command, cancel, recover, completion events, consumer |
| `CompletionQueue` | what its completion events promise a consumer; `ProcessBroker` implements it |
| `MCProcessBroker`, `ProcessBrokerProofs` | its instances for TLC; theorems, and that it implements `CompletionQueue` |
| `EvidenceStore` | put, get, references, legal hold, gc and key rotation |
| `MCEvidenceStore`, `EvidenceStoreProofs` | its instances for TLC; theorems |
| `SessionRuntime`, `SessionRuntimeProofs` | histories, summaries, checkpoints, fork and merge; theorems |
| `HeadlessRuntime` | detached commands: claim, two-step transitions, cancel, resume |
| `PolicyRollout` | promotion, rollback, quarantine |
| `MCDatabases`, `DatabasesProofs` | the last three side by side; theorems about the last two, and about all three |
| `ConfigApply` | apply of the last-good configuration: lock, temporary file, rename, receipt |
| `LastGoodFile` | what that apply promises its callers; `ConfigApply` implements it |
| `ConfigApplyProofs` | theorems about `ConfigApply`, and that it implements `LastGoodFile` |
| `DistributionManager` | installation, restoration and rollback of the executable |
| `MigrationManager` | migrations by several processes |
| `HostInstallation`, `HostInstallationProofs` | installation into the configuration of other programs, with undo; theorems |
| `MCInstallations`, `InstallationsProofs` | the last three side by side; theorems about update manager and migrations, about all three, and about the proxy |
| `ProviderProxy` | accept loop, admission and shutdown of the proxy |
| `MCExclusion` | scheduler and last-good configuration side by side, for TLC |
| `MCRecords` | broker, with deaths, and evidence store side by side, for TLC |
| `MCServices` | broker and proxy side by side, under fairness, for TLC |
| `MCStorage` | `MCDatabases` and `MCInstallations` side by side, for TLC |

A definition preceded by `Fault:` is not part of the model. It is a plausible bug
in the definition that follows it, kept beside it to show that the properties
notice: `PROJECT.json` lists under `mutants` which property fails when the faulty
definition takes the place of the right one.

The six modules that put components side by side compose what shares no state. Their
next-state relation lets one component move only while the others are where they
started: an interleaving of components that never look at each other satisfies a
property of one of them exactly if that component alone does, so nothing is lost. The
lemmas `DatabasesFollow` and `PartsFollow` prove the half of this that carries the theorems
about a component over to the whole. In `MCServices` the fairness of a component asks
nothing of it while it stays where it started: none of the actions it is about is
enabled there.

### JobScheduler

Every operation is one `BEGIN IMMEDIATE` transaction, hence one action. Three
things make it more than a sequential table:

- *Late times.* `submit`, `claim`, `heartbeat` and `fail` read `time.time()` and then
  wait for the lock. `TimesRead` offers every time from `LockWait` ago (not before
  the worker last heard from the scheduler) to now. `complete`, `cancel` and `reap`
  read the clock inside the transaction.
- *Two memories.* `jobs` is the table, `held` what each worker believes: job,
  attempt, end of lease. `Crash` empties the second and not the first; the worker
  comes back under the same `worker_id`. A refused call (`SchedulerError`) makes it
  give up.
- *Reaping.* `claim` reaps expired leases in its own transaction before it looks for
  work, and so does `scheduler reap`.

`claim`'s WHERE clause is `Ready`, its ORDER BY `Before`, the UPDATE `Claimed`. Ties
of the order are broken arbitrarily. `scheduler_events` is written in the same
transactions and read by nobody who decides anything; it is left out, as are `list`,
`events` and `stats`. A worker runs one job at a time. Claims and heartbeats use one
`lease_seconds` and one `project_concurrency`, as the callers in the runtime do.

*The abstract queue.* `JobQueue` has no table, transaction, retry delay or late clock:
a job is absent, open or at an end, and has a holder with a deadline. `JobScheduler!Queue`
instantiates it: the outcome is the row's state with `queued` and `running` taken
together, the holder and the deadline are the row's owner and lease while it runs.
`KeepsQueuePromises` says that every behaviour of the scheduler is one of the queue.
One operation of the scheduler may reap many expired leases, which is why a step of the
queue lets any number of other jobs time out.

### ProcessBroker

One variable per process that takes part: `client` (submit), `worker` (`_execute`, in
the detached worker or in the process that called `run`), `child` (the command),
`cancel`, `recovery`, `consumer`; `rows`, `events` and `lines` are what they share.
Every SQL statement, signal and file operation that another process can see is a
step. Abstractions: a process id names "worker" or "child" of its job and is never
reused; a signal that is sent arrives; an ended child stays a zombie, which
`_pid_alive` takes for alive, until its parent has waited for it; `recover` looks at a
listed process and updates the row in one step, because a dead process stays dead;
the order of recover's list is arbitrary; heartbeat files, `show` and `list_jobs`
decide nothing. `run` is modelled with its default cancel file. Signals act as on
POSIX: the command has a session of its own, so that a signal to the worker does not
reach it. `issued` is the counter that SQLite keeps for the AUTOINCREMENT column: the
upsert of `record_completion` uses a number up even when it only updates the row that is
there, so the numbers of the events grow but have gaps.

*The abstract queue of completions.* `CompletionQueue` has neither numbers nor a cursor: jobs are
recorded, each after those that were recorded before it, and handed out in that order,
each once, at most `PageLimit` at a time. `ProcessBroker!Completions` takes for recorded the jobs
whose event has a number, for earlier those whose number is smaller, and for handed out those the
consumer has seen exactly once.

### EvidenceStore

An object file is modelled by the key version it is encrypted under, a metadata file
by the version it tells, a row by its references, counter, hold and the two facts
about time gc asks for: whether the time to live has passed and whether nobody has
used it since the cutoff (`Expire` and `Age` make them true, put and get take the
second back). `put_stream`, `_reencrypt_object` with its rollback, and `gc` are split at
every file operation and transaction. `_lock` makes put and rotation exclude each
other within one process (`Idle`); nothing makes different processes exclude each
other but the transactions, and `gc`, whose transaction holds the write lock while it
unlinks files, takes no `_lock` at all. The limits of gc (rows, bytes) are an arbitrary
choice among the rows its WHERE clause admits.

A rotation may fail (`RotateFails`: rolled back, if its backup was made), die, or be
interrupted (`RotateInterrupted`: a Ctrl-C is no `Exception`, so that nothing is rolled back, but
`finally` runs and removes the backup). An interruption between the two renames therefore
loses the only copy. `LastCopyKept` does not count the backup that an interrupted rotation is
about to remove, so it does not speak of this case; all the others it does. Threads of one process behave like
processes that agree on the active version, so they add no behaviour. Encryption,
sizes, provenance and the retry of the SQLite lock are data.

### ConfigApply

Three files: `target`, `temp`, `lock`. A snapshot stands for its hash, `Torn` for a file
of which less than all has been written; `open` tells who has which file open, because a
file that is renamed or unlinked meanwhile stays with the process that writes it. `at`
in `process[p]` is the next call of the file system: `acquire` to `retry` is
`_acquire_lock`, `Writing` the transaction, `finally` and `unlock` its last clause. A step is
one such call with the branch it decides. A call may raise (`Fails`): before the lock is
held that ends the apply, afterwards the `finally` clause runs, unless it is the clause
itself that fails. A death (`Dies`) runs nothing; the three injected faults of the code are
deaths at three places. Symbolic links, modes and the directory's fsync are left out, and
the plan is the arbitrary choice of a snapshot and a decision.

Two constants describe what the code does not enforce. `Slow`: an apply may still be under
way when its lock is `STALE_LOCK_SECONDS` old. `OneRecovers`: from the moment one process
finds a lock stale until it has removed it, no other process judges it. With
`OneRecovers = FALSE` exclusion fails (finding 4), and so it does with `Slow = TRUE` (the lock of a
living owner is removed), so the run `exclusion` and the theorems are about
`Slow = FALSE` and `OneRecovers = TRUE`.

*The abstract file.* `LastGoodFile` has no lock, temporary file or recovery: one call at a time
enters, may replace the content once, by its own snapshot and only if it was asked to
write, gets a receipt only for what is there, or fails, and leaves; a death is a way of leaving.
`ConfigApply!LastGood` instantiates it: the content is the target, and how far a call has come is
read off the place where the process is (`CallStage`). An error says nothing about the content:
the code may raise after the rename.

### SessionRuntime

`sessions`, `history`, `summaries` and `checkpoints` are the tables; `call[c]` says
where a client is. A call is the sequence of reads and transactions the code makes:
`checkpoint` verifies the history up to its end (`through`), `compact` reads the events
again (`seen`), looks for a summary that will do or builds a tree, and only then is the
checkpoint written; `close` goes on to close, `fork` and `merge` (one action, `derive`)
checkpoint each source, create the child, and append its first event in a further
transaction. Anybody may append, compact or close in between, and every call may end at
any point (`EndCall`). Events are alike but for the one that names a child's origin;
the hash chain, which is what makes a history append-only, is left out, and so are
quarantine and import (a new session with appended events). A summary is its span, its
level and the spans it was made from. Session ids are alike, so that a new one is
`Fresh`; a merge never takes all of them, since there would be no id left for its child.

### HeadlessRuntime

`claim` is one immediate transaction. `transition` is not: `ReadRow` reads and decides,
`WriteRow` writes a row made from what was read (`seen`) over whatever is there by then.
`run_once` is a claim, a transition to running, the broker, and a transition to the
result; if the broker or the second transition raises, it tries FAILED once more
(`Raised`). `cancel` and `resume` by operators are transitions too. `events` counts the rows of the
event table by type, which tells how often a job was really claimed, executed and
finished, whatever the overwritten rows say. States nobody moves a job to (VERIFYING,
BLOCKED) are left out; `import_bundle` is a submission.

### PolicyRollout

One scope. `evaluate` takes a window of observations to one of three kinds of health and
a decision; since `record` may change the window at any time, the health is an arbitrary
choice. `promote`, `observe_and_auto_rollback` and `rollback` read the active row and
append theirs in a later transaction (`Insert`): the `row` they will write is fixed
when they have read, and others insert before them. Means, bounds and drift are data.
The cooldown may be 0 and only delays.

`StagesClimb` is the check of `promote`, held against the row that a promotion really takes the
place of. With two managers it is violated (finding 6); a manager that is alone keeps it
(`SoleManagerClimbs`). What a rollback is to reinstate no text says: it undoes whatever row
is active when it reads, so that a second rollback brings back what the first one has
undone.

### MigrationManager

Planning, the backup, the connection and the transaction are steps of each process; the
transaction skips what another has applied since (`Due`), but writes `user_version` in any
case. `ran` counts how often each migration ran on the database at hand. A process that fails
puts its backup back, and an operator may roll back to any backup at any time; neither looks
who else is at work. Putting a backup back replaces the file. A call that had planned before
is overtaken (`Overtake`): if it has the old file open, it commits to a file that nobody
will read (`ApplyToReplaced`), and otherwise it applies its old plan to the restored
database, which may lack what the plan builds on. `overtaken` and `patched` remember that a call was,
and that one has committed to this database; they decide nothing. `MigratedOnce`
says what survives all this: no migration ever runs twice on a database or is
recorded without having run; databases to which no overtaken call has committed have no gaps;
a call that was not overtaken finds its migrations there when it has committed. Making a
backup and putting one back are one step each.

### DistributionManager

A file is the release it holds and its mtime; a copy that is cut short holds `TornFile`.
The steps are staging, the copy to the backup, the rename, the health check and receipt,
and the handler (`Restore`); any may fail, and the process may die before each. One
process installs at a time. Backups are named by the hash of what they hold, so that a
torn one keeps the name. `cut` records whether any copy to a backup was ever cut short:
without that premise the handler may put a torn file back. Signatures and the offline
bundle are left out.

### HostInstallation

`apply` backs up and replaces the targets in order; a directory is moved to a safety path
first, and the path removed afterwards. When a call raises, the targets replaced so far
are undone in reverse and the transaction is discarded; `rollback` restores what a
recorded transaction found. `doing` says which of the three is under way, at which call
and with which targets left. The user's part of a file is the number of the last edit;
merging keeps it and adds ours. Assumed: one process at a time, and nobody edits the
targets while it runs. A rollback does not look at what users have written since the apply:
it restores what the apply has found, and that is all the property asks of it.

When the removal of a safety path raises (`RemoveSafetyFails`), the new directory is in place, but
`apply` has not listed the target, so it neither undoes it nor keeps its backup. That is
finding 7, and `FailedApplyRestores` the property it violates. `PreviousContentKept` names the
case (`CutShort`) and allows it for no other target: when a failed apply discards its backups, each
target is what it was or waits whole at its safety path, or its own removal was cut short.

### ProviderProxy

The server with its accept loop and its semaphore, `_accepting`, `_active`, and one state per
connection. `accepted` is the client the loop is at: over TLS the handshake is part of accepting
and has no timeout, so a client may stay there for ever; it is then served, shed because
there is no slot, or dropped. A connection takes a slot when it is served and returns it to
the semaphore of the server that accepted it when its thread ends; a thread that cannot be
started never returns it. `EnterRequest` and `ExitRequest` are `_enter` and `_exit`; what lies
between may hang. `shutdown` refuses new requests, waits until none is active or its
deadline has passed, then for the accept loop to be done with its client
(`server.shutdown`), and closes the server; threads live on, and `start` may follow. `shutdown`
is called by one thread, as in the runtime (`competitive_cli.py:249`).

## 3. Runs

`CHECK_DEADLOCK FALSE` everywhere: a table without unfinished jobs, a broker whose
consumer has drained everything, a clock or a counter at its bound have nothing left to do.

| Run | Instance | Shows |
|---|---|---|
| `exclusion` | 3 jobs (b after a; a and c compete for the one place of a project; a may be retried), 2 workers, leases of 2, lock wait of 1, clock up to 4; and 3 processes that apply 2 snapshots, nobody slow, one recovers at a time | the scheduler's invariants, `FencedResult`, and that it implements `JobQueue`; the lock excludes, receipts are true, and the apply implements `LastGoodFile` |
| `scheduler_liveness` | the same jobs, leases of 1, no lock wait, `LiveSpec` | ready jobs settle, attempts end |
| `services` | a background and an inline job, no deaths, page limit 1; 3 connections, 2 slots, 2 servers; `BrokerFairness` and `ProxyFairness` | stop requests are heeded, outcomes reported, events delivered, in the order of `CompletionQueue`, which the broker implements; load is bounded, shutdowns drain and return |
| `records` | one background job that is cancelled, timed out, orphaned; every process may die or raise; two passes of recover; and one digest, two references, a server that puts, a command that rotates twice; calls fail, processes are interrupted or die, gc dies | records are truthful, live jobs are not orphaned, final states stay, an event that is recorded again is not handed over again, the JSONL queue never runs ahead; counters agree, only garbage is collected, the last copy is kept |
| `storage` | 3 sessions, a caller and the compacting thread; 2 detached jobs, 2 workers, an operator; 2 policies, 2 managers; 2 releases, 4 installations; 2 processes, 3 migrations, 2 different backups; a file and a directory, 2 transactions, 2 edits | summaries, checkpoints and contexts cover what they claim; executions add up; updates can be undone; each migration runs once; what users had is kept |
| `broker_cancel` | one background job, `FairBrokerSpec` | **violation**, finding 1 |
| `evidence_race` | one digest, one writer, gc; nothing fails | **violation**, finding 2 |
| `evidence_rotations` | one digest, two processes that rotate; nothing fails | **violation**, finding 3 |
| `config_race` | two processes that may recover at once | **violation**, finding 4 |
| `update_reinstall` | 2 releases, 3 installations | **violation**, finding 5 |
| `policy_race` | one policy, 2 managers, 3 rows | **violation**, finding 6 |
| `host_cleaning` | a file and a directory, 1 transaction, 1 edit | **violation**, finding 7 |

Bounds. *Scheduler*: two workers are what exclusion needs; three jobs give a
dependency, a retry and a contended project; a clock of 4 with leases of 2 lets a
lease expire, be reaped, be claimed again and be answered late. The liveness run has
no clock bound to meet: its clock moves only while a lease or a scheduled time lies
ahead, `Horizon` ends the heartbeats, `max_attempts` the claims, so that `MaxClock` is
never reached. *Broker*: jobs share the event table, the recoverer and the consumer
only. Two jobs and a page limit of 1 (`services`) make pages, cursor and order of
events matter; deaths, exceptions and recover are explored with one job (`records`),
whose event may be recorded by several processes. Two passes of recover include one that
finds what the first left. *Evidence*: digests
share gc's transaction and the list of a rotation, nothing else; three key versions let
a rotation meet what an earlier one left behind when it died. *Configuration*: a process
starts over after each apply, so three of them may be a dead owner, the one that recovers
and one that comes in between; two snapshots tell the own one from another's.
*Sessions*: with leaves of 1 event and a fanout of 2, three events (two appended, one
that names an origin) already make a tree of three levels with a partial group, and a second
compaction of a longer history writes into the same table; three sessions are a merge and
its child; one recent event leaves others to the summary. *Headless*: two workers and an
operator are three transitions that can overwrite each other; two cancels or resumes
make a job be claimed again. *Policies*: in `policy_race`, three rows are
a canary, its rollback, and the promotion that had read the canary; `storage` needs no more than
two, since only types are asked of them there. *Migrations*: with three versions, plans of
different length overlap; two different backups are one of the empty database and one of a
database with some migrations, so that a restore takes away all, some or none of what
has been committed; two processes and the operator are a call that fails, a call that is
overtaken and a restore that is nobody's. *Updates*: four installations reach a backup of a release that
was installed, replaced and installed again. *Host*: the second transaction
meets safety paths and half-replaced targets the first one left. *Proxy*: two servers and
three connections let a slot of the first be returned while the second is full.

Fairness. `LiveSpec` (scheduler): the clock advances while somebody waits for it;
every worker goes on asking for work, and one that lives answers in the end
(`Complete` or `Fail`). Nothing obliges it to heartbeat, and `Crash` stays possible.
This is what the loop of a worker does, and the runs need no strong fairness because
every guard stays enabled until it is taken. `BrokerFairness`: processes that run
keep running (submit's remaining steps, supervisor, cancel's remaining steps),
deadlines pass, consumers go on draining. The command may run and ignore SIGTERM for
ever; nobody has to submit, to cancel or to recover. `ProxyFairness`: time passes and the
thread in `shutdown` runs on once it may, that is for its last step when the accept loop has
no client; a request may hang for ever, and so may a client in its handshake.

## 4. Proofs

Every invariant and action property of the passing runs is also a theorem, for every value
of the constants that its module's named assumption admits. `theorems` in `PROJECT.json`
says which theorem states which property.

`JobSchedulerProofs` proves for any finite set of jobs, any workers, dependencies,
attempts, concurrency, lease and waiting times (`ParametersAssumption`, `JobsFinite`)
that `SchedulerSpec` implies the type invariant, `RowsConsistent`, `AttemptBudget`,
`DependencyOrder`, `LeaseAgreement`, `ExclusiveExecution`, `FencedResult`,
`UnexpiredLeaseKept` and `ConcurrencyLimit`.

The inductive invariant is `IInv`: types, the consistency and budget of each row,
`DependencyOrder` and `LeaseAgreement`. Exclusion alone is not inductive: that a reaped
job can be given to another worker is safe only because the first one's lease, *as the
first worker remembers it*, has run out by then. `LeaseAgreement` says so: the memory of
a worker either matches the table exactly, or its lease is over, or its job was
cancelled, and no attempt is ever given twice. Late clocks do no harm because every
time read is at most the time of the commit, and a heartbeat never uses a time from
before the worker's own last call. `ConcurrencyLimit` is proved by itself from the
cardinality of the set of running jobs, which only `Claim` enlarges.

The last part of the module proves that `JobScheduler` implements `JobQueue`: the initial
states map to initial states, and under `IInv` every step maps to an operation on one job, with
time-outs of others, to the passing of time, or to a stutter. That a job is never
handed out beyond `max_attempts` is where the reaping inside `claim` matters: a job whose
last lease expires is a dead letter in the same transaction.

`ProcessBrokerProofs` proves, for any finite set of jobs, any passes of recover and any
page limit (`BrokerAssumption`), the types, `TruthfulRecords`, `NoLiveJobOrphaned`,
`FinalStatesKept`, `LinesBehindEvents`, `HandedOverOnce` and `KeepsCompletionPromises`. Nobody in the broker compares
the row with what he has read, so the invariant says what everybody may count on
without looking: how far client, supervisor and command are is the same fact
(`SupervisorFollows`), a command is stopped only for a reason (`StoppedForReason`), an
unfinished row names the process that works on the job (`RowsNameProcess`), and recover's old
list still names one that has existed (`ListNamesProcess`). A dead process stays dead, which is
why what recover has found out remains true until it writes. For the consumer, the
table's counter is ahead of all events and of the cursor (`NumbersCounted`), so that a new event comes
after everything that was handed out; a page holds exactly the events between the old and the new
cursor (`DrainMoves`), gaps or not; an event recorded again keeps its number. From these three
follows that every step of the broker is a step of `CompletionQueue` or a stutter: only one that
gives an event its first number records, only a drain hands out.

`EvidenceStoreProofs` proves, for any digests and processes and any finite set of
references (`StoreAssumption`), the types, `ReferencesCounted`, `OnlyGarbageCollected`,
and, if at most one process rotates keys (`SingleRotator`), `LastCopyKept`. The premise
is what the run `evidence_rotations` shows to be needed. The inductive invariant
`EvidenceInv` adds `Located` to the three: a put has a digest and a key version until it
returns, a rotation has a digest exactly while it re-encrypts, and gc selects nothing
outside its transaction. While that transaction is open no other one changes a row, so
what gc unlinks stays unreferenced and unheld; the counter it asks is the number of
references, never cut off at zero. Each step of a rotation that removes a file is taken
where the other file is there (`RotatedRecoverable`), or is the `finally` of an interrupted one,
whose backup is not counted.

`ConfigApplyProofs` proves, for any processes and snapshots (`ApplyAssumption`) and under
the premises `Undisturbed` (`~Slow /\ OneRecovers`), the types, `ExclusiveLock`, `TargetWhole`,
`ReceiptTrue`, `OnlyOwnerWrites` and `KeepsFilePromises`. The inductive invariant `ApplyInv` says that whoever is in
the transaction is named by a lock that is not stale, that only one process recovers, and
only a stale lock (`LockOwned`), and what the owner may count on at each place (`Progress`):
nobody else has the temporary file open, so what it has emptied it fills completely, and
what it renames is what it was asked to write. The other processes know nothing of the files
while they wait, so each step has to answer for one process only (`OwnerStep`). The last part of the
module maps the calls to those of `LastGoodFile`, one lemma for each way a call may move. That nobody is
inside when the lock file is created is `LockOwned`; that the rename puts the caller's own
snapshot in place, also when it promotes a temporary file somebody left, is `Progress`.
No run lists `TargetWhole` and `OnlyOwnerWrites` by themselves: `LastGoodFile`
admits no other content and no other writer, so the run of `KeepsFilePromises` covers them.

`SessionRuntimeProofs` proves, for any sessions, clients and events, any size of leaves
and any fanout of at least 2 (`SessionAssumption`), the types, `SummariesWhole`,
`CheckpointsCovered` and `ContextCovers`. Its first half is about the tree over n events:
`Unit`, the events of a group at a level, is a recursive function, and that it grows, that some
level has one group only, and that the kids of a group cover it without a gap is proved by
taking a smallest counterexample (`SmallestOf`, from the well-foundedness of the naturals),
since an induction theorem cannot be instantiated here. The second half is `SessionInv`: every
summary belongs to a tree (`TreesWhole`), and what a call has read of a history that only grows
stays true (`CallSound`): the prefix it has verified, the root it has found, the checkpoints
it has made. `Growing` says what every step does to the tables; each step that only lets them
grow keeps what all the other calls know (`StaysSound`).

`DatabasesProofs` proves, for any headless jobs and any finite set of workers and operators
(`HeadlessAssumption`), the types and `ExecutionsAccounted`. `HeadlessInv` closes the gaps
between the counters: the executions of a job and the workers that have claimed it and not
yet begun (`Starting`) are together at most its claims; its results and the workers that
execute it or are about to record a result (`Finishing`) are together at most its executions
(`Counted`). A row that was read may be stale, but what the proof needs of it stays
true: its attempts are at most the executions, and a row seen running has been attempted
(`Carried`).

In the same module, for any policies, managers and number of rows, the types; and if there is
only one manager, `StagesClimb` (`SoleManagerClimbs`). `RolloutInv` says that a row that a
sole manager holds and has not yet inserted climbs at most one stage above the active row
(`Climbs`): nobody else can have moved that row since. `policy_race` shows that the premise is
needed. `DatabasesTypeCorrect` puts the three databases together.

`HostInstallationProofs` proves, for any list of targets, transactions and edits
(`HostAssumption`), the types and `PreviousContentKept`, with every failure and death of the
model. `HostInv` follows the list of targets that are left: `Applying` says that those are as
they were found and the others are in their backups, `Undoing` and `RollingBack` the reverse; a
directory between its two renames is at the safety path. A target whose old directory could
not be removed is the one that apply has touched and not listed: `Undoing` keeps track of it
until the backups are discarded, which is how the theorem can say that no other target suffers.

`InstallationsProofs` begins with the update manager. For any releases and number of
installations (`DistributionAssumption`), `DistributionInv` says that the backup is written
before what it saves is replaced (`Saved`), that a failed installation has left either the old
release or the new one with its backup (`InstallSteps`), and that without a torn copy nothing
torn is ever installed, remembered or backed up (`NothingTorn`). `UpdatesRecoverable` follows.

For the migrations it proves `MigratedOnce` for any processes and versions
(`MigrationAssumption`), with no premise on who fails or restores when. `MigrationInv` says
that the database and every backup are `WholeDatabase`: what is recorded has run once, and there
are no gaps unless an overtaken call has committed; and that the plan of a call that was not
overtaken fits the database (`PlanHolds`): what it builds on is there, and what it has committed
too. Others may add migrations in between, which does a plan no harm; a restore, which takes
some away, overtakes every call.

For the proxy it proves, for any finite set of connections, any number of slots and
of servers (`ProxyAssumption`), the types, `LoadBounded` and `StopsDrained`. `ProxyInv`
counts: the threads of each server are at most its slots, and the free slots together
with the threads of the present server are at most its slots (`SlotsCounted`; less when a
thread failed to start); threads belong to servers that were started (`ThreadsStarted`);
and while a shutdown is under way nothing is admitted (`StoppingRefuses`), so that what
it found drained stays so.

`InstallationsTypeCorrect` puts update manager, migrations and host installation together.

Model-checked only: what must happen in the end, under fairness, for which TLAPS has no
rule here (`ReadyJobsSettle`, `AttemptsEnd`, `StopRequestsHeeded`, `OutcomesReported`,
`EventsDelivered`, `ShutdownReturns`), and the seven violations, which are behaviours of small
instances. Three premises of theorems describe more than the parameters: `Undisturbed` (two
conditions on `ConfigApply`), `SingleRotator` and the sole manager of `SoleManagerClimbs`. The runs
`config_race`, `evidence_rotations` and `policy_race` show what happens without `OneRecovers` and
the other two; without `~Slow` the lock of a living owner is removed (see ConfigApply). What one
process at a time does (update manager, host installation), or one thread (`shutdown`), is built
into the modules and named there.

## 5. Findings

1. *Cancelling a queued job* (`broker_cancel`). `cancel` signals the process id in the
   row, which for a QUEUED job is the worker. The worker dies without a record: the row
   stays QUEUED or RUNNING until somebody calls recover, and a command it had started
   runs on without supervisor or deadline.
2. *put against gc* (`evidence_race`). put finds and verifies an object, gc deletes it,
   put writes the index row and returns a handle that cannot be read.
3. *Two rotations at once* (`evidence_rotations`). Staging and backup files have fixed
   names. The second rotation fails because the first has moved the object away, and its
   `finally` removes both of the first one's files: no copy remains.
4. *Recovering a stale lock* (`config_race`). Two processes find the same lock stale. The
   first removes it and creates its own; the second then removes that one, creates a third,
   and both are in the transaction that
   `docs/adr/0033-r25-config-last-good-bounded-apply.md` calls exclusive.
5. *Installing a release again* (`update_reinstall`). If staging fails there is no backup
   yet; the handler finds a target with the artifact's hash, takes it for the file it has just
   installed, and deletes the installed executable. A copy to the backup that is cut
   short has a similar end: the torn backup is put back.
6. *Promoting over a rollback* (`policy_race`). promote compares the target with the
   stage of the policy it finds active, and inserts its row later. If another manager rolls
   that policy back in between, the row goes from rolled-back to staged at once, although
   `policy_rollout.py:200` says "policy promotion cannot skip rollout stages".
7. *Removing the old directory* (`host_cleaning`). When that raises, apply does not know that it
   has replaced the target: it undoes the other ones and discards all backups, and the user's
   directory is gone, although `host_installation.py:202` promises to install a path "without
   discarding the last live directory".

An interrupted rotation loses its only copy too (see EvidenceStore): no text of the repository
promises otherwise, so this is a hazard and not a finding.

## 6. Not modelled yet, and the plan

In this order:

1. `JobScheduler` with two leases per `worker_id` (the fence is the owner, not the
   attempt), as a second configuration.
2. Sessions: quarantine and import.
3. An abstract specification of the evidence store, like `JobQueue`.

Modelled without a property, because no text says what should happen: a second rollback
reinstates what the first has undone, and a policy that is promoted through its stages is its
own predecessor; a job whose dependency fails is
queued for ever, a lock file that was never written blocks every apply, an apply to a
host whose last record cannot be written leaves a transaction that rollback cannot find.
`hazards` in `PROJECT.json` has them with their lines.

Left out for good: the provider account pool, usage receipts and capability tokens, whose
operations are each one transaction or a pure function; encryption, hashing, text reduction,
parsing, HTTP and operating system interfaces (data or I/O, no interleaving of their
own); the Rust port, which is kept in parity with the Python runtime; release tooling. The
bulk of the repository is of this kind: command lines, benchmarks, reports, retrieval and
text heuristics, which keep no state that two processes share.
