----------------------------- MODULE ConfigApply -----------------------------
(***************************************************************************)
(* The last-good configuration of                                           *)
(* syntavra_runtime/config_last_good_apply.py: apply_config_last_good       *)
(* replaces one file by way of a temporary file, under a lock file that is  *)
(* removed by force when it is old.  Every call of the file system is a     *)
(* step, a process may die between any two, and every invocation starts     *)
(* with what the ones before have left.                                     *)
(*                                                                          *)
(* A snapshot is modelled by its hash.  A file of which less than all has   *)
(* been written is Torn.  The injected faults are deaths at three places.   *)
(***************************************************************************)
CONSTANTS
    Process,     \* the processes that apply configurations
    Payload,     \* the snapshots they apply
    Missing,     \* no file
    Torn,        \* the content of a file that is being written
    NoProcess,   \* the lock file does not exist
    Mortal,      \* the processes that may die
    Faulty,      \* the processes whose file system calls may fail
    Slow,        \* whether an apply may take STALE_LOCK_SECONDS
    OneRecovers  \* whether no two processes look at a stale lock at once

ASSUME ApplyAssumption ==
    /\ Missing \notin Payload /\ Torn \notin Payload /\ Missing # Torn
    /\ NoProcess \notin Process
    /\ Slow \in BOOLEAN /\ OneRecovers \in BOOLEAN

VARIABLES
    target,   \* config-last-good.json
    temp,     \* .config-last-good.json.apply.tmp
    lock,     \* config-last-good.lock: who created it, is it written, is it old
    open,     \* where the temporary file is that a process has open
    process   \* where each process is, what it applies, whether it has a receipt

files == <<target, temp, open>>
vars  == <<target, temp, lock, open, process>>

-----------------------------------------------------------------------------
NoLock  == [by |-> NoProcess, written |-> FALSE, stale |-> FALSE]
NewLock(p) == [by |-> p, written |-> FALSE, stale |-> FALSE]
Resting == [at |-> "idle", decision |-> "write", candidate |-> Missing, ok |-> FALSE]

Acquiring == {"acquire", "judge", "bind", "remove", "retry"}
Writing   == {"temp", "promote", "discard", "target", "write", "fill", "replace", "verify"}
Holding(p) == process[p].at \in Writing \cup {"locking", "finally", "unlock"}

GoTo(p, at) == process' = [process EXCEPT ![p].at = at]
Ends(p)     == process' = [process EXCEPT ![p] = Resting]

\* A receipt; the finally clause comes before the return.
Returns(p)  == process' = [process EXCEPT ![p].at = "finally", ![p].ok = TRUE]
Raises(p)   == process' = [process EXCEPT ![p].at = "finally", ![p].ok = FALSE]

\* Fault: any lock that is there counts as old.
AlwaysStale == lock.by # NoProcess

\* _lock_is_stale
Stale == lock.stale

\* Fault: the digest of the temporary file is not compared.
PromotableAny(p) == target = Missing /\ process[p].decision = "write"

\* The condition of recover-temp.
Promotable(p) == /\ temp = process[p].candidate
                 /\ target = Missing /\ process[p].decision = "write"

\* Fault: a target that is there counts as current.
AnyCurrent(p) == target # Missing

\* The target is what shall be retained or written: the hashes are compared.
Current(p) == target = process[p].candidate

\* A rename or an unlink moves the file away from its name, not from who has it open.
Moved(from, to) == [q \in Process |-> IF open[q] = from THEN to ELSE open[q]]
Replaced == [q \in Process |-> CASE open[q] = "temp"   -> "target"
                                 [] open[q] = "target" -> "gone"
                                 [] OTHER              -> open[q]]

-----------------------------------------------------------------------------
Init ==
    /\ target = Missing /\ temp = Missing
    /\ lock = NoLock
    /\ open = [p \in Process |-> "none"]
    /\ process = [p \in Process |-> Resting]

\* The plan: a configuration that could not be resolved without a fallback retains
\* the target, which must be there.
Begin(p) ==
    /\ process[p].at = "idle"
    /\ \E decision \in {"write", "retain-existing"}, candidate \in Payload :
          /\ decision = "retain-existing" => target # Missing
          /\ process' = [process EXCEPT ![p] = [at |-> "acquire", decision |-> decision,
                                                candidate |-> candidate, ok |-> FALSE]]
    /\ UNCHANGED <<files, lock>>

-----------------------------------------------------------------------------
(* _acquire_lock                                                              *)

\* O_CREAT | O_EXCL
Acquire(p) ==
    /\ process[p].at = "acquire"
    /\ IF lock = NoLock
       THEN lock' = NewLock(p) /\ GoTo(p, "locking")
       ELSE UNCHANGED lock /\ GoTo(p, "judge")
    /\ UNCHANGED files

\* Raises if the lock is gone or held.
Judge(p) ==
    /\ process[p].at = "judge"
    /\ OneRecovers => \A q \in Process : process[q].at \notin {"bind", "remove"}
    /\ IF Stale THEN GoTo(p, "bind") ELSE Ends(p)
    /\ UNCHANGED <<files, lock>>

\* _validate_lock_binding
Bind(p) ==
    /\ process[p].at = "bind"
    /\ IF lock.written THEN GoTo(p, "remove") ELSE Ends(p)
    /\ UNCHANGED <<files, lock>>

RemoveLock(p) ==
    /\ process[p].at = "remove"
    /\ IF lock = NoLock THEN Ends(p) ELSE GoTo(p, "retry")
    /\ lock' = NoLock
    /\ UNCHANGED files

Retry(p) ==
    /\ process[p].at = "retry"
    /\ IF lock = NoLock
       THEN lock' = NewLock(p) /\ GoTo(p, "locking")
       ELSE UNCHANGED lock /\ Ends(p)
    /\ UNCHANGED files

\* The lock is new again; one that somebody else has removed is written into nothing.
WriteLock(p) ==
    /\ process[p].at = "locking"
    /\ lock' = IF lock.by = p THEN [lock EXCEPT !.written = TRUE, !.stale = FALSE] ELSE lock
    /\ GoTo(p, "temp")
    /\ UNCHANGED files

WriteLockFails(p) ==
    /\ p \in Faulty /\ process[p].at = "locking"
    /\ lock' = NoLock
    /\ Ends(p)
    /\ UNCHANGED files

-----------------------------------------------------------------------------
(* The transaction                                                            *)

InspectTemp(p) ==
    /\ process[p].at = "temp"
    /\ \/ temp = Missing /\ GoTo(p, "target")
       \/ temp = Torn /\ Raises(p)
       \/ temp \in Payload /\ Promotable(p) /\ GoTo(p, "promote")
       \/ temp \in Payload /\ ~Promotable(p) /\ GoTo(p, "discard")
    /\ UNCHANGED <<files, lock>>

DiscardTemp(p) ==
    /\ process[p].at = "discard"
    /\ IF temp = Missing THEN Raises(p) ELSE GoTo(p, "target")
    /\ temp' = Missing
    /\ open' = Moved("temp", "gone")
    /\ UNCHANGED <<target, lock>>

InspectTarget(p) ==
    /\ process[p].at = "target"
    /\ \/ target \in Payload /\ Current(p) /\ Returns(p)
       \/ target \in Payload \cup {Missing} /\ ~Current(p)
          /\ IF process[p].decision = "write" THEN GoTo(p, "write") ELSE Raises(p)
       \/ target = Torn /\ Raises(p)
    /\ UNCHANGED <<files, lock>>

\* O_CREAT | O_TRUNC
OpenTemp(p) ==
    /\ process[p].at = "write"
    /\ temp' = Torn
    /\ open' = [open EXCEPT ![p] = "temp"]
    /\ GoTo(p, "fill")
    /\ UNCHANGED <<target, lock>>

\* Fault: the file is not closed.
Unclosed(p) == open

Closed(p) == [open EXCEPT ![p] = "none"]

\* What another writer has left behind the end of a shorter snapshot stays.
Filled(old, candidate) == IF old \in {Torn, candidate} THEN {candidate} ELSE {candidate, Torn}

FillTemp(p) ==
    /\ process[p].at = "fill"
    /\ IF open[p] = "temp" THEN temp' \in Filled(temp, process[p].candidate) ELSE UNCHANGED temp
    /\ IF open[p] = "target" THEN target' \in Filled(target, process[p].candidate) ELSE UNCHANGED target
    /\ open' = Closed(p)
    /\ GoTo(p, "replace")
    /\ UNCHANGED lock

\* os.replace(temp, target), of the new file or of one that a dead process has left.
ReplaceTarget(p) ==
    /\ process[p].at \in {"replace", "promote"}
    /\ IF temp = Missing
       THEN Raises(p) /\ UNCHANGED files
       ELSE /\ target' = temp /\ temp' = Missing
            /\ open' = Replaced
            /\ GoTo(p, "verify")
    /\ UNCHANGED lock

\* What has been written is read back.
Verify(p) ==
    /\ process[p].at = "verify"
    /\ IF Current(p) THEN Returns(p) ELSE Raises(p)
    /\ UNCHANGED <<files, lock>>

\* A call fails.
Fails(p) ==
    /\ p \in Faulty
    /\ \/ process[p].at \in Acquiring \cup {"finally", "unlock"} /\ Ends(p)
       \/ process[p].at \in Writing /\ Raises(p)
    /\ open' = Closed(p)
    /\ UNCHANGED <<target, temp, lock>>

-----------------------------------------------------------------------------
(* finally                                                                    *)

RemoveTemp(p) ==
    /\ process[p].at = "finally"
    /\ temp' = Missing
    /\ open' = Moved("temp", "gone")
    /\ GoTo(p, "unlock")
    /\ UNCHANGED <<target, lock>>

Unlock(p) ==
    /\ process[p].at = "unlock"
    /\ lock' = NoLock
    /\ Ends(p)
    /\ UNCHANGED files

\* A process dies, by itself or by an injected fault; all files stay.
Dies(p) ==
    /\ p \in Mortal /\ process[p].at # "idle"
    /\ Ends(p)
    /\ open' = Closed(p)
    /\ UNCHANGED <<target, temp, lock>>

\* The lock gets as old as STALE_LOCK_SECONDS: its owner is dead, or slow.
TurnStale ==
    /\ lock # NoLock /\ ~lock.stale
    /\ Slow \/ ~Holding(lock.by)
    /\ lock' = [lock EXCEPT !.stale = TRUE]
    /\ UNCHANGED <<files, process>>

-----------------------------------------------------------------------------
Apply(p) ==
    \/ Begin(p)
    \/ Acquire(p) \/ Judge(p) \/ Bind(p) \/ RemoveLock(p) \/ Retry(p) \/ WriteLock(p) \/ WriteLockFails(p)
    \/ InspectTemp(p) \/ DiscardTemp(p) \/ InspectTarget(p) \/ OpenTemp(p) \/ FillTemp(p)
    \/ ReplaceTarget(p) \/ Verify(p) \/ Fails(p) \/ RemoveTemp(p) \/ Unlock(p)

Next == (\E p \in Process : Apply(p) \/ Dies(p)) \/ TurnStale

Spec == Init /\ [][Next]_vars

-----------------------------------------------------------------------------
TypeOK ==
    /\ target \in Payload \cup {Missing, Torn}
    /\ temp \in Payload \cup {Missing, Torn}
    /\ lock \in [by: Process \cup {NoProcess}, written: BOOLEAN, stale: BOOLEAN]
    /\ open \in [Process -> {"none", "temp", "target", "gone"}]
    /\ process \in [Process -> [at: {"idle", "locking", "finally", "unlock"} \cup Acquiring \cup Writing,
                                decision: {"write", "retain-existing"},
                                candidate: Payload \cup {Missing}, ok: BOOLEAN]]
    /\ \A p \in Process : (open[p] # "none") <=> (process[p].at = "fill")

\* The lock excludes: of the processes between creating the lock and removing it
\* there is one ("uses a project-bound exclusive lock", docs/adr/0033).
ExclusiveLock == \A p, q \in Process : Holding(p) /\ Holding(q) => p = q

\* A reader never finds half a configuration, whoever wrote, died or recovered.
TargetWhole == target # Torn

\* While a process that has its receipt still holds the lock, the file is what the
\* receipt says: written, promoted, already current or retained.
ReceiptTrue == \A p \in Process : process[p].ok => target = process[p].candidate

\* The file changes only to what the owner of the lock was asked to write; neither
\* a retaining process nor a temporary file that somebody left changes it otherwise.
OnlyOwnerWrites ==
    [][target' # target => \E p \in Process : /\ lock.by = p /\ Holding(p)
                                              /\ process[p].decision = "write"
                                              /\ target' = process[p].candidate]_vars

\* How far a call has come, for one who sees neither lock nor temporary file.
CallStage(p) == CASE process[p].at = "idle" -> "outside"
              [] process[p].at \in Acquiring -> "waiting"
              [] process[p].at = "verify" -> "replaced"
              [] process[p].at \in {"finally", "unlock"} -> IF process[p].ok THEN "done" ELSE "failed"
              [] OTHER -> "entered"

LastGood == INSTANCE LastGoodFile WITH
    content <- target,
    call    <- [p \in Process |-> [stage |-> CallStage(p), decision |-> process[p].decision,
                                   candidate |-> process[p].candidate]]

\* apply_config_last_good keeps the promises of LastGoodFile: one call at a time, one
\* replacement by each, whatever earlier ones have left, and receipts for what is there.
KeepsFilePromises == LastGood!Spec
=============================================================================
