---------------------------- MODULE ProcessBroker ----------------------------
(***************************************************************************)
(* The process broker of syntavra_runtime/process_broker.py.  A command is  *)
(* a row of the table jobs.  `submit` starts a detached worker process      *)
(* (broker_worker.py) that starts the command as a child, supervises it and *)
(* records its end; `run` supervises in the calling process.  Independent   *)
(* processes cancel jobs, recover orphaned ones, and drain the completion   *)
(* events with a cursor.  Nothing but SQLite, the cancel file and signals   *)
(* connects them: every SQL statement, signal and file is a step.           *)
(*                                                                          *)
(* A process id is modelled by the process it names ("worker" or "child" of *)
(* the job); ids are not reused.  A signal that is sent is delivered.       *)
(***************************************************************************)
EXTENDS Integers, FiniteSets

CONSTANTS
    Background,   \* the jobs given to submit
    Inline,       \* the jobs given to run
    NoJob,        \* not a job
    BadCommand,   \* the jobs whose command may fail to start
    Cancellable,  \* the jobs somebody cancels, once
    MortalJobs,   \* the jobs whose client or supervisor may die
    Timed,        \* bound: the jobs whose deadline may pass
    FaultyJobs,   \* the jobs whose supervisor may meet an exception (disk, database)
    Passes,       \* bound: how many times recover runs
    PageLimit     \* limit of drain_completions

Job == Background \cup Inline

ASSUME BrokerAssumption ==
    /\ Background \cap Inline = {}
    /\ NoJob \notin Job
    /\ IsFiniteSet(Job)
    /\ Passes \in Nat
    /\ PageLimit \in Nat \ {0}

VARIABLES
    rows,     \* the table jobs
    client,   \* where submit is
    worker,   \* where the supervisor of each job is (_execute)
    why,      \* its timed_out and cancelled flags
    child,    \* the command's process
    overdue,  \* the jobs whose deadline has passed
    marked,   \* the jobs with a cancel file
    cancel,   \* where cancel is, and the process id it has read
    recovery, \* the process that runs recover
    events,   \* the table completion_events
    issued,   \* its counter in sqlite_sequence
    lines,    \* the state in the last line of each job in completions.jsonl
    consumer  \* the cursor of a consumer, and how often it was handed each event

brokerVars == <<rows, client, worker, why, child, overdue, marked, cancel, recovery,
                events, issued, lines, consumer>>

-----------------------------------------------------------------------------
FINAL_STATES == {"COMPLETED", "FAILED", "CANCELLED", "TIMED_OUT", "ORPHANED"}
States == {"absent", "ACCEPTED", "QUEUED", "RUNNING"} \cup FINAL_STATES
Pid == {"none", "worker", "child"}

Live(c)  == c \in {"running", "signalled"}  \* SIGTERM may be handled, or ignored
Ended(c) == c \in {"zero", "nonzero"}       \* by exit code

Waiting == {"watching", "checking", "ending"}
Supervising(j) == worker[j] \notin {"none", "exited", "dead"}

\* _terminate_tree, on the process group of the id.
Signalled(c, pid) == IF pid = "child" /\ c = "running" THEN "signalled" ELSE c

\* Fault: a worker that has started the command counts as gone.
PidAliveUntilLaunch(j, pid) ==
    CASE pid = "none"   -> {FALSE}
      [] pid = "worker" -> IF worker[j] = "started" THEN {TRUE} ELSE BOOLEAN
      [] pid = "child"  -> {Live(child[j]) \/ worker[j] \in Waiting \cup {"failing"}}

\* What _pid_alive may answer: an ended process stays a zombie until its parent
\* has waited for it, and nobody knows when a submitting process does.
PidAlive(j, pid) ==
    CASE pid = "none"   -> {FALSE}
      [] pid = "worker" -> IF Supervising(j) THEN {TRUE} ELSE BOOLEAN
      [] pid = "child"  -> {Live(child[j]) \/ worker[j] \in Waiting \cup {"failing"}}

\* Fault: a state the schema does not know.
OutcomeKilled(c, flag) == IF flag # "none" THEN "KILLED" ELSE IF c = "zero" THEN "COMPLETED" ELSE "FAILED"

\* The state _execute records.
Outcome(c, flag) ==
    CASE flag = "timed_out" -> "TIMED_OUT"
      [] flag = "cancelled" -> "CANCELLED"
      [] OTHER -> IF c = "zero" THEN "COMPLETED" ELSE "FAILED"

\* AUTOINCREMENT
NextSequence == issued + 1

\* Fault: an event that is recorded again is inserted anew.
RecordedAgain(j, state) ==
    [events EXCEPT ![j] = [state |-> state, sequence |-> @.sequence + NextSequence]]

\* record_completion: INSERT, or UPDATE of the job's event, which keeps its number;
\* the number that the INSERT would have had is used up all the same.
Recorded(j, state) ==
    [events EXCEPT ![j] = [state |-> state,
        sequence |-> IF @.sequence = 0 THEN NextSequence ELSE @.sequence]]

-----------------------------------------------------------------------------
BrokerInit ==
    /\ rows = [j \in Job |-> [state |-> "absent", pid |-> "none", cancelled |-> FALSE]]
    /\ client = [j \in Job |-> "idle"]
    /\ worker = [j \in Job |-> "none"]
    /\ why = [j \in Job |-> "none"]
    /\ child = [j \in Job |-> "none"]
    /\ overdue = {}
    /\ marked = {}
    /\ cancel = [j \in Job |-> [at |-> "idle", pid |-> "none"]]
    /\ recovery = [passes |-> 0, list |-> {}, job |-> NoJob, at |-> "idle"]
    /\ events = [j \in Job |-> [state |-> "absent", sequence |-> 0]]
    /\ issued = 0
    /\ lines = [j \in Job |-> "absent"]
    /\ consumer = [cursor |-> 0, seen |-> [j \in Job |-> 0]]

\* _new_job, and in `run` the beginning of _execute.
Accept(j) ==
    /\ client[j] = "idle"
    /\ rows' = [rows EXCEPT ![j].state = "ACCEPTED"]
    /\ client' = [client EXCEPT ![j] = IF j \in Background THEN "accepted" ELSE "done"]
    /\ worker' = [worker EXCEPT ![j] = IF j \in Background THEN @ ELSE "started"]
    /\ UNCHANGED <<why, child, overdue, marked, cancel, recovery, events, issued, lines, consumer>>

\* submit starts the worker, then writes the row, whatever the worker did meanwhile.
Spawn(j) ==
    /\ client[j] = "accepted"
    /\ client' = [client EXCEPT ![j] = "spawned"]
    /\ worker' = [worker EXCEPT ![j] = "started"]
    /\ UNCHANGED <<rows, why, child, overdue, marked, cancel, recovery, events, issued, lines, consumer>>

Enqueue(j) ==
    /\ client[j] = "spawned"
    /\ client' = [client EXCEPT ![j] = "done"]
    /\ rows' = [rows EXCEPT ![j].state = "QUEUED", ![j].pid = "worker"]
    /\ UNCHANGED <<worker, why, child, overdue, marked, cancel, recovery, events, issued, lines, consumer>>

ClientDies(j) ==
    /\ j \in MortalJobs /\ client[j] \in {"accepted", "spawned"}
    /\ client' = [client EXCEPT ![j] = "dead"]
    /\ UNCHANGED <<rows, worker, why, child, overdue, marked, cancel, recovery, events, issued, lines, consumer>>

-----------------------------------------------------------------------------
(* _execute                                                                   *)

Launch(j) ==
    /\ worker[j] = "started"
    /\ child' = [child EXCEPT ![j] = "running"]
    /\ worker' = [worker EXCEPT ![j] = "launched"]
    /\ UNCHANGED <<rows, client, why, overdue, marked, cancel, recovery, events, issued, lines, consumer>>

Announce(j) ==
    /\ worker[j] = "launched"
    /\ rows' = [rows EXCEPT ![j].state = "RUNNING", ![j].pid = "child"]
    /\ worker' = [worker EXCEPT ![j] = "watching"]
    /\ UNCHANGED <<client, why, child, overdue, marked, cancel, recovery, events, issued, lines, consumer>>

\* process.poll(), and a heartbeat if the command still runs.
Poll(j) ==
    /\ worker[j] = "watching"
    /\ worker' = [worker EXCEPT ![j] = IF Live(child[j]) THEN "checking" ELSE "collected"]
    /\ UNCHANGED <<rows, client, why, child, overdue, marked, cancel, recovery, events, issued, lines, consumer>>

\* The cancel file first, then the deadline; otherwise sleep and poll again.
\* The command may have ended since the poll.
Check(j) ==
    /\ worker[j] = "checking"
    /\ \/ /\ j \notin marked \cup overdue
          /\ worker' = [worker EXCEPT ![j] = "watching"]
          /\ UNCHANGED <<why, child>>
       \/ /\ j \in marked \cup overdue
          /\ why' = [why EXCEPT ![j] = IF j \in marked THEN "cancelled" ELSE "timed_out"]
          /\ child' = [child EXCEPT ![j] = Signalled(@, "child")]
          /\ worker' = [worker EXCEPT ![j] = "ending"]
    /\ UNCHANGED <<rows, client, overdue, marked, cancel, recovery, events, issued, lines, consumer>>

\* Fault: the supervisor does not wait for the command it has signalled.
WaitForNobody(j) ==
    /\ worker[j] = "ending"
    /\ worker' = [worker EXCEPT ![j] = "collected"]
    /\ UNCHANGED <<rows, client, why, child, overdue, marked, cancel, recovery, events, issued, lines, consumer>>

\* Fault: a command that ignores SIGTERM is waited for, but never killed.
WaitForever(j) ==
    /\ worker[j] = "ending" /\ Ended(child[j])
    /\ worker' = [worker EXCEPT ![j] = "collected"]
    /\ UNCHANGED <<rows, client, why, child, overdue, marked, cancel, recovery, events, issued, lines, consumer>>

\* process.wait: the command ended, or is killed after ten seconds.
Wait(j) ==
    /\ worker[j] = "ending"
    /\ \/ /\ Ended(child[j])
          /\ worker' = [worker EXCEPT ![j] = "collected"]
          /\ UNCHANGED child
       \/ /\ Live(child[j])
          /\ child' = [child EXCEPT ![j] = "nonzero"]
          /\ UNCHANGED worker
    /\ UNCHANGED <<rows, client, why, overdue, marked, cancel, recovery, events, issued, lines, consumer>>

Record(j) ==
    /\ worker[j] = "collected"
    /\ rows' = [rows EXCEPT ![j].state = Outcome(child[j], why[j]),
                            ![j].cancelled = (why[j] = "cancelled")]
    /\ worker' = [worker EXCEPT ![j] = "recorded"]
    /\ UNCHANGED <<client, why, child, overdue, marked, cancel, recovery, events, issued, lines, consumer>>

\* Fault: only a success has an event.
ReportSuccess(j) ==
    /\ worker[j] = "recorded"
    /\ IF Outcome(child[j], why[j]) = "COMPLETED"
       THEN events' = Recorded(j, "COMPLETED") /\ issued' = NextSequence
       ELSE UNCHANGED <<events, issued>>
    /\ worker' = [worker EXCEPT ![j] = "reported"]
    /\ UNCHANGED <<rows, client, why, child, overdue, marked, cancel, recovery, lines, consumer>>

\* append_completion: the event first, then the line.
Report(j) ==
    /\ worker[j] = "recorded"
    /\ events' = Recorded(j, Outcome(child[j], why[j])) /\ issued' = NextSequence
    /\ worker' = [worker EXCEPT ![j] = "reported"]
    /\ UNCHANGED <<rows, client, why, child, overdue, marked, cancel, recovery, lines, consumer>>

\* Fault: the line is written before the event.
AppendFirst(j) ==
    /\ worker[j] = "recorded"
    /\ lines' = [lines EXCEPT ![j] = Outcome(child[j], why[j])]
    /\ worker' = [worker EXCEPT ![j] = "reported"]
    /\ UNCHANGED <<rows, client, why, child, overdue, marked, cancel, recovery, events, issued, consumer>>

Append(j) ==
    /\ worker[j] = "reported"
    /\ lines' = [lines EXCEPT ![j] = Outcome(child[j], why[j])]
    /\ worker' = [worker EXCEPT ![j] = "exited"]
    /\ UNCHANGED <<rows, client, why, child, overdue, marked, cancel, recovery, events, issued, consumer>>

\* An exception leaves _execute: a worker catches it, `run` lets it out.  It may
\* come from Popen, from the database, from the heartbeat file, from summarize.
Raise(j) ==
    /\ \/ j \in BadCommand /\ worker[j] = "started"
       \/ j \in FaultyJobs /\ Supervising(j) /\ worker[j] # "failing"
    /\ worker' = [worker EXCEPT ![j] = IF j \in Background THEN "failing" ELSE "exited"]
    /\ UNCHANGED <<rows, client, why, child, overdue, marked, cancel, recovery, events, issued, lines, consumer>>

\* broker_worker: the row says FAILED, no event is recorded.
GiveUp(j) ==
    /\ worker[j] = "failing"
    /\ rows' = [rows EXCEPT ![j].state = "FAILED"]
    /\ worker' = [worker EXCEPT ![j] = "exited"]
    /\ UNCHANGED <<client, why, child, overdue, marked, cancel, recovery, events, issued, lines, consumer>>

SupervisorDies(j) ==
    /\ j \in MortalJobs /\ Supervising(j)
    /\ worker' = [worker EXCEPT ![j] = "dead"]
    /\ UNCHANGED <<rows, client, why, child, overdue, marked, cancel, recovery, events, issued, lines, consumer>>

ChildExits(j) ==
    /\ Live(child[j])
    /\ \E code \in {"zero", "nonzero"} : child' = [child EXCEPT ![j] = code]
    /\ UNCHANGED <<rows, client, worker, why, overdue, marked, cancel, recovery, events, issued, lines, consumer>>

DeadlinePasses(j) ==
    /\ j \in Timed \ overdue /\ worker[j] \in {"launched", "watching", "checking"}
    /\ overdue' = overdue \cup {j}
    /\ UNCHANGED <<rows, client, worker, why, child, marked, cancel, recovery, events, issued, lines, consumer>>

-----------------------------------------------------------------------------
(* cancel: reads the row, touches the file, signals the process it has read  *)
(* in the row, sets the flag.                                                 *)

CancelRead(j) ==
    /\ j \in Cancellable /\ cancel[j].at = "idle"
    /\ rows[j].state \notin FINAL_STATES \cup {"absent"}
    /\ cancel' = [cancel EXCEPT ![j] = [at |-> "read", pid |-> rows[j].pid]]
    /\ UNCHANGED <<rows, client, worker, why, child, overdue, marked, recovery, events, issued, lines, consumer>>

CancelMark(j) ==
    /\ cancel[j].at = "read"
    /\ marked' = marked \cup {j}
    /\ cancel' = [cancel EXCEPT ![j].at = "marked"]
    /\ UNCHANGED <<rows, client, worker, why, child, overdue, recovery, events, issued, lines, consumer>>

\* The command has a session of its own: a signal to its worker does not reach it.
CancelSignal(j) ==
    /\ cancel[j].at = "marked"
    /\ worker' = [worker EXCEPT ![j] =
          IF cancel[j].pid = "worker" /\ Supervising(j) THEN "dead" ELSE @]
    /\ child' = [child EXCEPT ![j] = Signalled(@, cancel[j].pid)]
    /\ cancel' = [cancel EXCEPT ![j].at = "signalled"]
    /\ UNCHANGED <<rows, client, why, overdue, marked, recovery, events, issued, lines, consumer>>

CancelFlag(j) ==
    /\ cancel[j].at = "signalled"
    /\ rows' = [rows EXCEPT ![j].cancelled = TRUE]
    /\ cancel' = [cancel EXCEPT ![j].at = "done"]
    /\ UNCHANGED <<client, worker, why, child, overdue, marked, recovery, events, issued, lines, consumer>>

-----------------------------------------------------------------------------
(* recover: one list of the unfinished jobs, then job after job.              *)

RecoverList ==
    /\ recovery.at = "idle" /\ recovery.passes < Passes
    /\ recovery' = [passes |-> recovery.passes + 1, job |-> NoJob, at |-> "scan",
          list |-> {[job |-> j, pid |-> rows[j].pid] : j \in
                       {k \in Job : rows[k].state \in {"QUEUED", "RUNNING"}}}]
    /\ UNCHANGED <<rows, client, worker, why, child, overdue, marked, cancel, events, issued, lines, consumer>>

\* Fault: recover puts what it believes orphaned back in the queue.
Requeued(row) == [row EXCEPT !.state = "QUEUED"]

Orphaned(row) == [row EXCEPT !.state = "ORPHANED"]

\* A listed job is looked at: a dead process stays dead, so the look and the
\* UPDATE that follows it are one step.
RecoverCheck ==
    /\ recovery.at = "scan"
    /\ \E r \in recovery.list : \E alive \in PidAlive(r.job, r.pid) :
          \/ /\ alive
             /\ recovery' = [recovery EXCEPT !.list = @ \ {r}]
             /\ UNCHANGED rows
          \/ /\ ~alive
             /\ rows' = [rows EXCEPT ![r.job] = Orphaned(@)]
             /\ recovery' = [recovery EXCEPT !.list = @ \ {r}, !.job = r.job, !.at = "report"]
    /\ UNCHANGED <<client, worker, why, child, overdue, marked, cancel, events, issued, lines, consumer>>

RecoverReport ==
    /\ recovery.at = "report"
    /\ events' = Recorded(recovery.job, "ORPHANED") /\ issued' = NextSequence
    /\ recovery' = [recovery EXCEPT !.at = "append"]
    /\ UNCHANGED <<rows, client, worker, why, child, overdue, marked, cancel, lines, consumer>>

RecoverAppend ==
    /\ recovery.at = "append"
    /\ lines' = [lines EXCEPT ![recovery.job] = "ORPHANED"]
    /\ recovery' = [recovery EXCEPT !.job = NoJob, !.at = "scan"]
    /\ UNCHANGED <<rows, client, worker, why, child, overdue, marked, cancel, events, issued, consumer>>

\* The list is worked off, or the process that runs recover dies.
RecoverEnds ==
    /\ recovery.at # "idle"
    /\ MortalJobs # {} \/ (recovery.list = {} /\ recovery.at = "scan")
    /\ recovery' = [recovery EXCEPT !.list = {}, !.job = NoJob, !.at = "idle"]
    /\ UNCHANGED <<rows, client, worker, why, child, overdue, marked, cancel, events, issued, lines, consumer>>

-----------------------------------------------------------------------------
(* drain_completions                                                          *)

\* Fault: an off-by-one in the condition on the sequence number.
PageAfterNext(after) ==
    {j \in Job : /\ events[j].sequence > after + 1
                 /\ Cardinality({k \in Job : events[k].sequence \in after + 2 .. events[j].sequence})
                       <= PageLimit}

Page(after) ==
    {j \in Job : /\ events[j].sequence > after
                 /\ Cardinality({k \in Job : events[k].sequence \in after + 1 .. events[j].sequence})
                       <= PageLimit}

\* Fault: the cursor jumps over what the limit cut off.
CursorAtEnd(after, page) == issued

\* The number of the last event of the page, or the old cursor.
Cursor(after, page) ==
    IF page = {} THEN after
    ELSE CHOOSE n \in {events[j].sequence : j \in page} : \A j \in page : events[j].sequence <= n

Drain ==
    LET page == Page(consumer.cursor)
    IN  /\ page # {}
        /\ consumer' = [cursor |-> Cursor(consumer.cursor, page),
                        seen |-> [j \in Job |-> consumer.seen[j] + IF j \in page THEN 1 ELSE 0]]
        /\ UNCHANGED <<rows, client, worker, why, child, overdue, marked, cancel, recovery, events, issued, lines>>

-----------------------------------------------------------------------------
Client(j)     == Accept(j) \/ Spawn(j) \/ Enqueue(j)
Supervisor(j) == Launch(j) \/ Announce(j) \/ Poll(j) \/ Check(j) \/ Wait(j) \/ Record(j)
                 \/ Report(j) \/ Append(j) \/ GiveUp(j)
Canceller(j)  == CancelRead(j) \/ CancelMark(j) \/ CancelSignal(j) \/ CancelFlag(j)
Recoverer     == RecoverList \/ RecoverCheck \/ RecoverReport \/ RecoverAppend \/ RecoverEnds

BrokerNext ==
    \/ \E j \in Job : \/ Client(j) \/ ClientDies(j)
                      \/ Supervisor(j) \/ Raise(j) \/ SupervisorDies(j)
                      \/ ChildExits(j) \/ DeadlinePasses(j)
                      \/ Canceller(j)
    \/ Recoverer
    \/ Drain

BrokerSpec == BrokerInit /\ [][BrokerNext]_brokerVars

\* Running processes keep running, deadlines pass, consumers keep draining.  A
\* command may run forever, nobody is obliged to submit, to cancel or to recover.
BrokerFairness ==
    /\ \A j \in Job : /\ WF_brokerVars(Spawn(j) \/ Enqueue(j))
                      /\ WF_brokerVars(Supervisor(j))
                      /\ WF_brokerVars(DeadlinePasses(j))
                      /\ WF_brokerVars(CancelMark(j) \/ CancelSignal(j) \/ CancelFlag(j))
    /\ WF_brokerVars(Drain)

FairBrokerSpec == BrokerSpec /\ BrokerFairness

-----------------------------------------------------------------------------
BrokerTypeOK ==
    /\ rows \in [Job -> [state: States, pid: Pid, cancelled: BOOLEAN]]
    /\ client \in [Job -> {"idle", "accepted", "spawned", "done", "dead"}]
    /\ worker \in [Job -> {"none", "started", "launched", "collected", "recorded", "reported",
                           "failing", "exited", "dead"} \cup Waiting]
    /\ why \in [Job -> {"none", "timed_out", "cancelled"}]
    /\ child \in [Job -> {"none", "running", "signalled", "zero", "nonzero"}]
    /\ overdue \subseteq Job
    /\ marked \subseteq Job
    /\ cancel \in [Job -> [at: {"idle", "read", "marked", "signalled", "done"}, pid: Pid]]
    /\ recovery \in [passes: 0 .. Passes, list: SUBSET [job: Job, pid: Pid],
                     job: Job \cup {NoJob}, at: {"idle", "scan", "report", "append"}]
    /\ events \in [Job -> [state: {"absent"} \cup FINAL_STATES, sequence: Nat]]
    /\ issued \in Nat
    /\ lines \in [Job -> {"absent"} \cup FINAL_STATES]
    /\ consumer \in [cursor: Nat, seen: [Job -> Nat]]

\* What a supervisor records (_execute, in the row and as event) happened: the
\* command is over by then, it ended as recorded, and it was timed out or cancelled
\* only at its deadline or at somebody's request.  A FAILED row without event may
\* also stand for an exception.
TruthfulRecords ==
    \A j \in Job :
        /\ events[j].state = "FAILED" => child[j] = "nonzero"
        /\ \A state \in {rows[j].state, events[j].state} :
              /\ state = "COMPLETED" => child[j] = "zero"
              /\ state = "TIMED_OUT" => Ended(child[j]) /\ j \in overdue
              /\ state = "CANCELLED" => Ended(child[j]) /\ j \in marked

\* recover never gives up a job whose command runs under a live supervisor, however
\* old its list is (recover, _pid_alive).
NoLiveJobOrphaned ==
    [][\A j \in Job : (rows'[j].state = "ORPHANED" /\ rows[j].state # "ORPHANED")
                      => ~(Live(child[j]) /\ Supervising(j))]_brokerVars

\* Only the submit that is still under way takes a final state back, by its late
\* QUEUED (submit, recover, cancel, broker_worker all write the row).
FinalStatesKept ==
    [][\A j \in Job : (rows[j].state \in FINAL_STATES /\ rows'[j].state \notin FINAL_STATES)
                      => client[j] = "spawned"]_brokerVars

\* A consumer that advances its cursor is handed every job's event once, whoever
\* recorded it and however often (drain_completions, record_completion).
HandedOverOnce ==
    \A j \in Job : consumer.seen[j] = IF events[j].sequence \in 1 .. consumer.cursor THEN 1 ELSE 0

\* The table of events as the queue that consumers are promised: of the numbers only
\* their order matters, of the cursor what has been handed out, once.
Completions == INSTANCE CompletionQueue WITH
    recorded <- {j \in Job : events[j].sequence > 0},
    earlier  <- [j \in Job |-> {k \in Job : /\ events[k].sequence > 0
                                           /\ events[k].sequence < events[j].sequence}],
    given    <- {j \in Job : consumer.seen[j] = 1}

\* The broker keeps the promises of CompletionQueue, although events are recorded by
\* processes that know nothing of each other, again and with gaps in their numbers,
\* and the consumer's only memory is one number (drain_completions).
KeepsCompletionPromises == Completions!Spec

\* completions.jsonl never runs ahead of the authoritative table, not even when
\* the process between the two writes dies (append_completion).
LinesBehindEvents ==
    \A j \in Job : lines[j] # "absent" => events[j].sequence > 0

\* A running command that is past its deadline, or whose cancel file exists, is
\* stopped (_execute).
StopRequestsHeeded ==
    \A j \in Job : (Live(child[j]) /\ j \in overdue \cup marked) ~> ~Live(child[j])

\* Every command that was started ends and has its event (_execute).
OutcomesReported == \A j \in Job : Live(child[j]) ~> events[j].sequence > 0

\* Every event reaches the consumer (drain_completions).
EventsDelivered == \A j \in Job : events[j].sequence > 0 ~> consumer.seen[j] > 0

\* A queued job that is cancelled reaches a final state: cancel has read a row that
\* names the worker, and the tests wait for a final state after cancel.
CancelledJobsSettle ==
    \A j \in Job : (cancel[j].at = "done" /\ cancel[j].pid = "worker")
                   ~> rows[j].state \in FINAL_STATES
=============================================================================
