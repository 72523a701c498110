-------------------------- MODULE ConfigApplyProofs --------------------------
(* The lock of the last-good configuration and what it protects, for any     *)
(* number of processes and snapshots, provided no apply outlasts its lock    *)
(* and a stale lock is recovered by one process at a time.                   *)
EXTENDS ConfigApply, TLAPS

-----------------------------------------------------------------------------
(* The invariant.                                                            *)

\* The recovery of a stale lock looks at a lock nobody holds, and alone.
Recovering(p) == process[p].at \in {"bind", "remove"}

LockOwned ==
    /\ lock.by = NoProcess <=> lock = NoLock
    /\ \A p \in Process : Holding(p) => lock.by = p /\ ~lock.stale
    /\ \A p \in Process : Recovering(p) => lock.stale
    /\ \A p, q \in Process : Recovering(p) /\ Recovering(q) => p = q

\* What the owner of the lock may count on where it is.
Progress(p) ==
    /\ process[p].at # "idle" => process[p].candidate \in Payload
    /\ process[p].at \in {"promote", "write", "fill", "replace"} => process[p].decision = "write"
    /\ process[p].at = "fill" => open[p] = "temp" /\ temp = Torn
    /\ process[p].at \in {"promote", "replace"} => temp = process[p].candidate
    /\ process[p].at = "verify" => Current(p)
    /\ process[p].ok => process[p].at \in {"finally", "unlock"} /\ Current(p)

ApplyInv == TypeOK /\ LockOwned /\ TargetWhole /\ \A p \in Process : Progress(p)

\* The premises: what the code does not enforce.
Undisturbed == ~Slow /\ OneRecovers

At == {"idle", "locking", "finally", "unlock"} \cup Acquiring \cup Writing
State == [at: At, decision: {"write", "retain-existing"}, candidate: Payload \cup {Missing}, ok: BOOLEAN]

-----------------------------------------------------------------------------
(* The invariant, for one process and for the files.                         *)

LEMMA Exclusion == LockOwned => ExclusiveLock
BY DEF LockOwned, ExclusiveLock

\* A step moves one process only; the rest of its state comes from the source.
LEMMA Moves ==
    ASSUME TypeOK, NEW p \in Process, NEW at \in At, GoTo(p, at)
    PROVE  /\ process' \in [Process -> State]
           /\ process'[p].at = at /\ process'[p].decision = process[p].decision
           /\ process'[p].candidate = process[p].candidate /\ process'[p].ok = process[p].ok
           /\ \A q \in Process \ {p} : process'[q] = process[q]
BY DEF TypeOK, GoTo, State, At

LEMMA Finishes ==
    ASSUME TypeOK, NEW p \in Process, NEW ok \in BOOLEAN,
           process' = [process EXCEPT ![p].at = "finally", ![p].ok = ok]
    PROVE  /\ process' \in [Process -> State]
           /\ process'[p].at = "finally" /\ process'[p].decision = process[p].decision
           /\ process'[p].candidate = process[p].candidate /\ process'[p].ok = ok
           /\ \A q \in Process \ {p} : process'[q] = process[q]
<1>1. process \in [Process -> State] /\ process[p] \in State
  BY DEF TypeOK, State, At
<1>2. process'[p] = [process[p] EXCEPT !.at = "finally", !.ok = ok]
  BY <1>1
<1>3. process'[p] \in State
  BY <1>1, <1>2 DEF State, At
<1>4. QED
  BY <1>1, <1>2, <1>3 DEF State

LEMMA Ended ==
    ASSUME TypeOK, NEW p \in Process, Ends(p)
    PROVE  /\ process' \in [Process -> State]
           /\ process'[p].at = "idle" /\ process'[p].ok = FALSE
           /\ \A q \in Process \ {p} : process'[q] = process[q]
BY DEF TypeOK, Ends, Resting, State, At

\* What one process knows outlasts the steps of another that leave the files alone.
LEMMA OthersKnow ==
    ASSUME ApplyInv, NEW p \in Process, UNCHANGED files,
           \A q \in Process \ {p} : process'[q] = process[q]
    PROVE  \A q \in Process \ {p} : Progress(q)'
BY DEF ApplyInv, Progress, Current, files

\* While one process holds the lock, the others know nothing of the files.
LEMMA OthersWait ==
    ASSUME ApplyInv, NEW p \in Process, Holding(p),
           \A q \in Process \ {p} : process'[q] = process[q]
    PROVE  \A q \in Process \ {p} : Progress(q)'
<1> SUFFICES ASSUME NEW q \in Process \ {p} PROVE Progress(q)'
  OBVIOUS
<1>1. ~Holding(q)
  BY Exclusion DEF ApplyInv, ExclusiveLock
<1>2. process[q].at # "idle" => process[q].candidate \in Payload
  BY DEF ApplyInv, Progress
<1>3. ~process[q].ok
  BY <1>1 DEF ApplyInv, Progress, Holding
<1>4. QED
  BY <1>1, <1>2, <1>3 DEF Progress, Holding, Writing

\* The owner goes on, with the lock.
LEMMA OwnerKeepsLock ==
    ASSUME ApplyInv, NEW p \in Process, Holding(p), ~Recovering(p)',
           lock' = lock \/ lock' = [lock EXCEPT !.written = TRUE, !.stale = FALSE],
           \A q \in Process \ {p} : process'[q] = process[q]
    PROVE  LockOwned'
<1>1. lock.by = p /\ ~lock.stale /\ \A q \in Process \ {p} : ~Holding(q) /\ ~Recovering(q)
  BY Exclusion DEF ApplyInv, LockOwned, ExclusiveLock
<1>2. lock'.by = p /\ ~lock'.stale
  BY <1>1 DEF ApplyInv, TypeOK
<1>3. p # NoProcess
  BY ApplyAssumption
<1>4. QED
  BY <1>1, <1>2, <1>3 DEF LockOwned, Holding, Recovering, NoLock

\* A process that does not hold the lock goes on, or gives up.
LEMMA LockUntouched ==
    ASSUME ApplyInv, NEW p \in Process, lock' = lock,
           Holding(p)' => Holding(p), Recovering(p)' => Recovering(p),
           \A q \in Process \ {p} : process'[q] = process[q]
    PROVE  LockOwned'
BY DEF ApplyInv, LockOwned, Holding, Recovering

-----------------------------------------------------------------------------
(* Taking the lock.                                                          *)

LEMMA InvBegin ==
    ASSUME ApplyInv, NEW p \in Process, Begin(p) PROVE ApplyInv'
<1>1. PICK decision \in {"write", "retain-existing"}, candidate \in Payload :
         process' = [process EXCEPT ![p] = [at |-> "acquire", decision |-> decision,
                                            candidate |-> candidate, ok |-> FALSE]]
  BY DEF Begin
<1>2. /\ process' \in [Process -> State] /\ process'[p].at = "acquire" /\ ~process'[p].ok
      /\ process'[p].candidate \in Payload /\ \A q \in Process \ {p} : process'[q] = process[q]
  BY <1>1 DEF ApplyInv, TypeOK, State, At, Acquiring
<1>3. LockOwned'
  BY <1>2, LockUntouched DEF Begin, Holding, Recovering, Writing
<1>4. Progress(p)'
  BY <1>2 DEF Progress
<1>5. TypeOK' /\ TargetWhole'
  BY <1>2 DEF Begin, files, ApplyInv, TypeOK, State, At, TargetWhole
<1>6. QED
  BY <1>2, <1>3, <1>4, <1>5, OthersKnow DEF ApplyInv, Begin

\* The process creates the lock.
LEMMA InvCreate ==
    ASSUME ApplyInv, NEW p \in Process, process[p].at \in {"acquire", "retry"},
           lock = NoLock, lock' = NewLock(p), GoTo(p, "locking"), UNCHANGED files
    PROVE  ApplyInv'
<1>1. /\ process' \in [Process -> State] /\ process'[p].at = "locking"
      /\ process'[p].candidate = process[p].candidate /\ process'[p].ok = process[p].ok
      /\ \A q \in Process \ {p} : process'[q] = process[q]
  BY Moves DEF ApplyInv, At
<1>2. \A q \in Process : ~Holding(q) /\ ~Recovering(q)
  BY ApplyAssumption DEF ApplyInv, LockOwned, NoLock
<1>3. LockOwned'
  BY <1>1, <1>2, ApplyAssumption DEF LockOwned, Holding, Recovering, NoLock, NewLock
<1>4. Progress(p)'
  BY <1>1 DEF ApplyInv, Progress
<1>5. TypeOK' /\ TargetWhole'
  BY <1>1 DEF files, ApplyInv, TypeOK, State, At, TargetWhole, NewLock
<1>6. QED
  BY <1>1, <1>3, <1>4, <1>5, OthersKnow DEF ApplyInv

\* A process that waits for the lock moves on, and leaves lock and files alone.
LEMMA InvWait ==
    ASSUME ApplyInv, NEW p \in Process, process[p].at \in Acquiring, UNCHANGED <<files, lock>>,
           \/ Ends(p)
           \/ \E at \in Acquiring : GoTo(p, at) /\ (at \in {"bind", "remove"} => Recovering(p))
    PROVE  ApplyInv'
<1>1. /\ process' \in [Process -> State] /\ process'[p].at \in {"idle"} \cup Acquiring
      /\ process'[p].at \in {"bind", "remove"} => Recovering(p)
      /\ process'[p].at # "idle" => process'[p].candidate = process[p].candidate
      /\ process'[p].ok => process[p].ok
      /\ \A q \in Process \ {p} : process'[q] = process[q]
  BY Moves, Ended DEF ApplyInv, At, Acquiring
<1>2. LockOwned'
  BY <1>1, LockUntouched DEF Holding, Recovering, Writing, Acquiring
<1>3. Progress(p)'
  BY <1>1 DEF ApplyInv, Progress, Acquiring
<1>4. TypeOK' /\ TargetWhole'
  BY <1>1 DEF files, ApplyInv, TypeOK, State, At, Acquiring, TargetWhole
<1>5. QED
  BY <1>1, <1>2, <1>3, <1>4, OthersKnow DEF ApplyInv

\* The lock is stale and nobody else has seen that: the process starts to recover it.
LEMMA InvJudge ==
    ASSUME ApplyInv, Undisturbed, NEW p \in Process, Judge(p) PROVE ApplyInv'
<1>1. CASE ~Stale
  BY <1>1, InvWait DEF Judge, Acquiring
<1>2. CASE Stale
  <2>1. /\ process' \in [Process -> State] /\ process'[p].at = "bind"
        /\ process'[p].candidate = process[p].candidate /\ process'[p].ok = process[p].ok
        /\ \A q \in Process \ {p} : process'[q] = process[q]
    BY <1>2, Moves DEF Judge, ApplyInv, At, Acquiring
  <2>2. lock.stale /\ lock' = lock /\ \A q \in Process : ~Recovering(q)
    BY <1>2 DEF Judge, Stale, Undisturbed, Recovering
  <2>3. LockOwned'
    BY <2>1, <2>2 DEF ApplyInv, LockOwned, Holding, Recovering, Writing
  <2>4. Progress(p)'
    BY <2>1 DEF ApplyInv, Progress, Judge
  <2>5. TypeOK' /\ TargetWhole'
    BY <2>1 DEF Judge, files, ApplyInv, TypeOK, State, At, TargetWhole
  <2>6. QED
    BY <2>1, <2>3, <2>4, <2>5, OthersKnow DEF ApplyInv, Judge
<1>3. QED
  BY <1>1, <1>2

LEMMA InvRemoveLock ==
    ASSUME ApplyInv, NEW p \in Process, RemoveLock(p) PROVE ApplyInv'
<1>1. lock.stale /\ \A q \in Process : ~Holding(q) /\ (q # p => ~Recovering(q))
  BY DEF RemoveLock, ApplyInv, LockOwned, Recovering
<1>2. lock # NoLock /\ GoTo(p, "retry")
  BY <1>1 DEF RemoveLock, NoLock
<1>3. /\ process' \in [Process -> State] /\ process'[p].at = "retry"
      /\ process'[p].candidate = process[p].candidate /\ process'[p].ok = process[p].ok
      /\ \A q \in Process \ {p} : process'[q] = process[q]
  BY <1>2, Moves DEF ApplyInv, At, Acquiring
<1>4. LockOwned'
  BY <1>1, <1>3 DEF RemoveLock, LockOwned, Holding, Recovering, Writing, NoLock
<1>5. Progress(p)'
  BY <1>3 DEF RemoveLock, ApplyInv, Progress
<1>6. TypeOK' /\ TargetWhole'
  BY <1>3 DEF RemoveLock, NoLock, files, ApplyInv, TypeOK, State, At, TargetWhole
<1>7. QED
  BY <1>3, <1>4, <1>5, <1>6, OthersKnow DEF ApplyInv, RemoveLock

LEMMA InvWriteLock ==
    ASSUME ApplyInv, NEW p \in Process, WriteLock(p) PROVE ApplyInv'
<1>1. Holding(p) /\ lock.by = p
  BY DEF WriteLock, Holding, ApplyInv, LockOwned
<1>2. /\ process' \in [Process -> State] /\ process'[p].at = "temp"
      /\ process'[p].candidate = process[p].candidate /\ process'[p].ok = process[p].ok
      /\ \A q \in Process \ {p} : process'[q] = process[q]
  BY Moves DEF WriteLock, ApplyInv, At, Writing
<1>3. LockOwned'
  BY <1>1, <1>2, OwnerKeepsLock DEF WriteLock, Recovering
<1>4. Progress(p)'
  BY <1>2 DEF WriteLock, ApplyInv, Progress
<1>5. TypeOK' /\ TargetWhole'
  <2>1. lock' \in [by: Process \cup {NoProcess}, written: BOOLEAN, stale: BOOLEAN]
    BY <1>1 DEF WriteLock, ApplyInv, TypeOK
  <2>2. \A q \in Process : (open'[q] # "none") <=> (process'[q].at = "fill")
    BY <1>2 DEF WriteLock, files, ApplyInv, TypeOK
  <2>3. QED
    BY <1>2, <2>1, <2>2 DEF WriteLock, files, ApplyInv, TypeOK, State, At, TargetWhole
<1>6. QED
  BY <1>2, <1>3, <1>4, <1>5, OthersKnow DEF ApplyInv, WriteLock

\* Whoever holds the lock removes it and is done.
LEMMA InvRelease ==
    ASSUME ApplyInv, NEW p \in Process, process[p].at \in {"locking", "unlock"},
           lock' = NoLock, Ends(p), UNCHANGED files
    PROVE  ApplyInv'
<1>1. \A q \in Process \ {p} : ~Holding(q) /\ ~Recovering(q)
  BY Exclusion DEF ApplyInv, LockOwned, ExclusiveLock, Holding
<1>2. /\ process' \in [Process -> State] /\ process'[p].at = "idle" /\ process'[p].ok = FALSE
      /\ \A q \in Process \ {p} : process'[q] = process[q]
  BY Ended DEF ApplyInv
<1>3. LockOwned'
  BY <1>1, <1>2 DEF LockOwned, Holding, Recovering, Writing, NoLock
<1>4. Progress(p)'
  BY <1>2 DEF Progress
<1>5. TypeOK' /\ TargetWhole'
  BY <1>2 DEF NoLock, files, ApplyInv, TypeOK, State, At, TargetWhole
<1>6. QED
  BY <1>2, <1>3, <1>4, <1>5, OthersKnow DEF ApplyInv

-----------------------------------------------------------------------------
(* The transaction of the process that holds the lock.                       *)

\* Such a step has to answer for its own process and for the files only.
LEMMA OwnerStep ==
    ASSUME ApplyInv, NEW p \in Process, Holding(p), lock' = lock, process' \in [Process -> State],
           ~Recovering(p)', \A q \in Process \ {p} : process'[q] = process[q],
           target' \in Payload \cup {Missing}, temp' \in Payload \cup {Missing, Torn},
           open' \in [Process -> {"none", "temp", "target", "gone"}],
           \A q \in Process \ {p} : open'[q] = open[q],
           (open'[p] # "none") <=> (process'[p].at = "fill"), Progress(p)'
    PROVE  ApplyInv'
<1>1. LockOwned' /\ \A q \in Process \ {p} : Progress(q)'
  BY OwnerKeepsLock, OthersWait
<1>2. \A q \in Process : (open'[q] # "none") <=> (process'[q].at = "fill")
  BY DEF ApplyInv, TypeOK
<1>3. TypeOK' /\ TargetWhole'
  BY <1>2, ApplyAssumption DEF ApplyInv, TypeOK, State, At, TargetWhole
<1>4. QED
  BY <1>1, <1>3 DEF ApplyInv

\* Nobody has a file open but a process that is writing one, under the lock.
LEMMA NobodyElseWrites ==
    ASSUME ApplyInv, NEW p \in Process, Holding(p)
    PROVE  /\ \A q \in Process \ {p} : open[q] = "none"
           /\ process[p].at # "fill" => open[p] = "none"
BY Exclusion DEF ApplyInv, TypeOK, ExclusiveLock, Holding, Writing

\* A step of the owner that leaves the files alone.
LEMMA InvOwnerMoves ==
    ASSUME ApplyInv, NEW p \in Process, process[p].at \in Writing \ {"fill"},
           UNCHANGED <<files, lock>>,
           \/ Raises(p)
           \/ Current(p) /\ Returns(p)
           \/ GoTo(p, "target")
           \/ GoTo(p, "discard")
           \/ GoTo(p, "write") /\ process[p].decision = "write"
           \/ GoTo(p, "promote") /\ process[p].decision = "write" /\ temp = process[p].candidate
    PROVE  ApplyInv'
<1>1. /\ process' \in [Process -> State] /\ \A q \in Process \ {p} : process'[q] = process[q]
      /\ process'[p].at \in {"finally", "target", "discard", "write", "promote"}
      /\ process'[p].candidate = process[p].candidate /\ process'[p].decision = process[p].decision
      /\ process'[p].at \in {"write", "promote"} => process[p].decision = "write"
      /\ process'[p].at = "promote" => temp = process[p].candidate
      /\ process'[p].ok => process'[p].at = "finally" /\ Current(p)
  <2>1. ~process[p].ok
    BY DEF ApplyInv, Progress, Writing
  <2>2. CASE Raises(p)
    BY <2>2, Finishes DEF ApplyInv, Raises
  <2>3. CASE Current(p) /\ Returns(p)
    BY <2>3, Finishes DEF ApplyInv, Returns
  <2>4. CASE \E at \in {"target", "discard", "write", "promote"} :
                 /\ GoTo(p, at) /\ (at \in {"write", "promote"} => process[p].decision = "write")
                 /\ (at = "promote" => temp = process[p].candidate)
    BY <2>1, <2>4, Moves DEF ApplyInv, At, Writing
  <2>5. QED
    BY <2>2, <2>3, <2>4
<1>2. Holding(p) /\ process[p].candidate \in Payload /\ process[p].at # "idle"
  BY DEF Holding, Writing, ApplyInv, Progress
<1>3. Progress(p)'
  BY <1>1, <1>2 DEF Progress, Current, files
<1>4. open[p] = "none"
  BY <1>2, NobodyElseWrites
<1>5. QED
  BY <1>1, <1>2, <1>3, <1>4, OwnerStep, ApplyAssumption
     DEF ApplyInv, TypeOK, TargetWhole, Recovering, files

LEMMA InvDiscardTemp ==
    ASSUME ApplyInv, NEW p \in Process, DiscardTemp(p) PROVE ApplyInv'
<1>1. Holding(p) /\ ~process[p].ok /\ process[p].candidate \in Payload
  BY DEF DiscardTemp, Holding, Writing, ApplyInv, Progress
<1>2. /\ process' \in [Process -> State] /\ process'[p].at \in {"finally", "target"}
      /\ process'[p].candidate = process[p].candidate /\ ~process'[p].ok
      /\ \A q \in Process \ {p} : process'[q] = process[q]
  <2>1. CASE Raises(p)
    BY <2>1, Finishes DEF ApplyInv, Raises
  <2>2. CASE GoTo(p, "target")
    BY <1>1, <2>2, Moves DEF ApplyInv, At, Writing
  <2>3. QED
    BY <2>1, <2>2 DEF DiscardTemp
<1>3. open' = open /\ open[p] = "none"
  BY <1>1, NobodyElseWrites DEF DiscardTemp, Moved, ApplyInv, TypeOK
<1>4. Progress(p)'
  BY <1>1, <1>2 DEF Progress
<1>5. QED
  BY <1>1, <1>2, <1>3, <1>4, OwnerStep DEF DiscardTemp, ApplyInv, TypeOK, TargetWhole, Recovering

LEMMA InvOpenTemp ==
    ASSUME ApplyInv, NEW p \in Process, OpenTemp(p) PROVE ApplyInv'
<1>1. Holding(p) /\ ~process[p].ok /\ process[p].candidate \in Payload /\ process[p].decision = "write"
  BY DEF OpenTemp, Holding, Writing, ApplyInv, Progress
<1>2. /\ process' \in [Process -> State] /\ process'[p].at = "fill" /\ process'[p].decision = "write"
      /\ process'[p].candidate = process[p].candidate /\ ~process'[p].ok
      /\ \A q \in Process \ {p} : process'[q] = process[q]
  BY <1>1, Moves DEF OpenTemp, ApplyInv, At, Writing
<1>3. /\ open' \in [Process -> {"none", "temp", "target", "gone"}] /\ open'[p] = "temp"
      /\ \A q \in Process \ {p} : open'[q] = open[q]
  BY DEF OpenTemp, ApplyInv, TypeOK
<1>4. Progress(p)'
  BY <1>1, <1>2, <1>3 DEF Progress, OpenTemp
<1>5. QED
  BY <1>1, <1>2, <1>3, <1>4, OwnerStep DEF OpenTemp, ApplyInv, TypeOK, TargetWhole, Recovering

\* The temporary file is the one the process has emptied: it gets all of the snapshot.
LEMMA InvFillTemp ==
    ASSUME ApplyInv, NEW p \in Process, FillTemp(p) PROVE ApplyInv'
<1>1. /\ Holding(p) /\ ~process[p].ok /\ process[p].candidate \in Payload
      /\ process[p].decision = "write" /\ open[p] = "temp" /\ temp = Torn
  BY DEF FillTemp, Holding, Writing, ApplyInv, Progress
<1>2. /\ process' \in [Process -> State] /\ process'[p].at = "replace" /\ process'[p].decision = "write"
      /\ process'[p].candidate = process[p].candidate /\ ~process'[p].ok
      /\ \A q \in Process \ {p} : process'[q] = process[q]
  BY <1>1, Moves DEF FillTemp, ApplyInv, At, Writing
<1>3. temp' = process[p].candidate /\ target' = target
  BY <1>1 DEF FillTemp, Filled
<1>4. /\ open' \in [Process -> {"none", "temp", "target", "gone"}] /\ open'[p] = "none"
      /\ \A q \in Process \ {p} : open'[q] = open[q]
  BY DEF FillTemp, Closed, ApplyInv, TypeOK
<1>5. Progress(p)'
  BY <1>1, <1>2, <1>3 DEF Progress
<1>6. QED
  BY <1>1, <1>2, <1>3, <1>4, <1>5, OwnerStep DEF FillTemp, ApplyInv, TypeOK, TargetWhole, Recovering

LEMMA InvReplaceTarget ==
    ASSUME ApplyInv, NEW p \in Process, ReplaceTarget(p) PROVE ApplyInv'
<1>1. /\ Holding(p) /\ ~process[p].ok /\ process[p].candidate \in Payload
      /\ temp = process[p].candidate /\ temp # Missing
  BY ApplyAssumption DEF ReplaceTarget, Holding, Writing, ApplyInv, Progress
<1>2. target' = temp /\ temp' = Missing /\ GoTo(p, "verify")
  BY <1>1 DEF ReplaceTarget
<1>3. /\ process' \in [Process -> State] /\ process'[p].at = "verify"
      /\ process'[p].candidate = process[p].candidate /\ ~process'[p].ok
      /\ \A q \in Process \ {p} : process'[q] = process[q]
  BY <1>1, <1>2, Moves DEF ApplyInv, At, Writing
<1>4. open' = open /\ open[p] = "none"
  <2>1. \A q \in Process : open[q] = "none"
    BY <1>1, NobodyElseWrites DEF ReplaceTarget
  <2>2. open' = [q \in Process |-> open[q]]
    BY <1>1, <2>1 DEF ReplaceTarget, Replaced
  <2>3. QED
    BY <2>1, <2>2 DEF ApplyInv, TypeOK
<1>5. Progress(p)'
  BY <1>1, <1>2, <1>3 DEF Progress, Current
<1>6. QED
  BY <1>1, <1>2, <1>3, <1>4, <1>5, OwnerStep
     DEF ReplaceTarget, ApplyInv, TypeOK, TargetWhole, Recovering

LEMMA InvRemoveTemp ==
    ASSUME ApplyInv, NEW p \in Process, RemoveTemp(p) PROVE ApplyInv'
<1>1. Holding(p) /\ process[p].candidate \in Payload /\ (process[p].ok => Current(p))
  BY DEF RemoveTemp, Holding, ApplyInv, Progress
<1>2. /\ process' \in [Process -> State] /\ process'[p].at = "unlock"
      /\ process'[p].candidate = process[p].candidate /\ process'[p].ok = process[p].ok
      /\ \A q \in Process \ {p} : process'[q] = process[q]
  BY Moves DEF RemoveTemp, ApplyInv, At
<1>3. open' = open /\ open[p] = "none"
  BY <1>1, NobodyElseWrites DEF RemoveTemp, Moved, ApplyInv, TypeOK
<1>4. Progress(p)'
  BY <1>1, <1>2 DEF Progress, Current, RemoveTemp
<1>5. QED
  BY <1>1, <1>2, <1>3, <1>4, OwnerStep DEF RemoveTemp, ApplyInv, TypeOK, TargetWhole, Recovering

-----------------------------------------------------------------------------
(* Failures and deaths.                                                      *)

\* A process gives up or dies and leaves lock and files as they are.
LEMMA InvGivesUp ==
    ASSUME ApplyInv, NEW p \in Process, Ends(p), open' = Closed(p), UNCHANGED <<target, temp, lock>>
    PROVE  ApplyInv'
<1>1. /\ process' \in [Process -> State] /\ process'[p].at = "idle" /\ process'[p].ok = FALSE
      /\ \A q \in Process \ {p} : process'[q] = process[q]
  BY Ended DEF ApplyInv
<1>2. /\ open' \in [Process -> {"none", "temp", "target", "gone"}] /\ open'[p] = "none"
      /\ \A q \in Process \ {p} : open'[q] = open[q]
  BY DEF Closed, ApplyInv, TypeOK
<1>3. LockOwned'
  BY <1>1, LockUntouched DEF Holding, Recovering, Writing
<1>4. \A q \in Process : Progress(q)'
  BY <1>1, <1>2 DEF ApplyInv, Progress, Current
<1>5. TypeOK' /\ TargetWhole'
  BY <1>1, <1>2 DEF ApplyInv, TypeOK, State, At, TargetWhole
<1>6. QED
  BY <1>3, <1>4, <1>5 DEF ApplyInv

LEMMA InvFails ==
    ASSUME ApplyInv, NEW p \in Process, Fails(p) PROVE ApplyInv'
<1>1. CASE Ends(p)
  BY <1>1, InvGivesUp DEF Fails
<1>2. CASE process[p].at \in Writing /\ Raises(p)
  <2>1. Holding(p) /\ process[p].candidate \in Payload
    BY <1>2 DEF Holding, Writing, ApplyInv, Progress
  <2>2. /\ process' \in [Process -> State] /\ process'[p].at = "finally" /\ ~process'[p].ok
        /\ process'[p].candidate = process[p].candidate
        /\ \A q \in Process \ {p} : process'[q] = process[q]
    BY <1>2, Finishes DEF ApplyInv, Raises
  <2>3. /\ open' \in [Process -> {"none", "temp", "target", "gone"}] /\ open'[p] = "none"
        /\ \A q \in Process \ {p} : open'[q] = open[q]
    BY DEF Fails, Closed, ApplyInv, TypeOK
  <2>4. Progress(p)'
    BY <2>1, <2>2 DEF Progress
  <2>5. QED
    BY <2>1, <2>2, <2>3, <2>4, OwnerStep DEF Fails, ApplyInv, TypeOK, TargetWhole, Recovering
<1>3. QED
  BY <1>1, <1>2 DEF Fails

\* A lock gets old only when its owner is dead.
LEMMA InvTurnStale ==
    ASSUME ApplyInv, Undisturbed, TurnStale PROVE ApplyInv'
<1>1. /\ lock' \in [by: Process \cup {NoProcess}, written: BOOLEAN, stale: BOOLEAN]
      /\ lock'.by = lock.by /\ lock'.stale /\ lock # NoLock
  BY DEF TurnStale, ApplyInv, TypeOK
<1>2. \A p \in Process : ~Holding(p)
  BY DEF TurnStale, Undisturbed, ApplyInv, LockOwned
<1>3. LockOwned'
  BY <1>1, <1>2 DEF TurnStale, ApplyInv, LockOwned, Holding, Recovering, NoLock
<1>4. \A p \in Process : Progress(p)'
  BY DEF TurnStale, files, ApplyInv, Progress, Current
<1>5. TypeOK' /\ TargetWhole'
  BY <1>1 DEF TurnStale, files, ApplyInv, TypeOK, TargetWhole
<1>6. QED
  BY <1>3, <1>4, <1>5 DEF ApplyInv

-----------------------------------------------------------------------------
(* The invariant holds initially and in every step.                          *)

LEMMA InvInit == Init => ApplyInv
BY ApplyAssumption
   DEF Init, Resting, NoLock, ApplyInv, TypeOK, LockOwned, TargetWhole, Progress, Holding, Recovering, Writing

LEMMA InvApply ==
    ASSUME ApplyInv, Undisturbed, NEW p \in Process, Apply(p) PROVE ApplyInv'
<1>1. CASE Begin(p)
  BY <1>1, InvBegin
<1>2. CASE Acquire(p)
  BY <1>2, InvCreate, InvWait DEF Acquire, Acquiring
<1>3. CASE Judge(p)
  BY <1>3, InvJudge
<1>4. CASE Bind(p)
  BY <1>4, InvWait DEF Bind, Acquiring, Recovering
<1>5. CASE RemoveLock(p)
  BY <1>5, InvRemoveLock
<1>6. CASE Retry(p)
  BY <1>6, InvCreate, InvWait DEF Retry, Acquiring
<1>7. CASE WriteLock(p)
  BY <1>7, InvWriteLock
<1>8. CASE WriteLockFails(p) \/ Unlock(p)
  BY <1>8, InvRelease DEF WriteLockFails, Unlock
<1>9. CASE InspectTemp(p)
  BY <1>9, InvOwnerMoves DEF InspectTemp, Promotable, Writing
<1>10. CASE DiscardTemp(p)
  BY <1>10, InvDiscardTemp
<1>11. CASE InspectTarget(p)
  BY <1>11, InvOwnerMoves DEF InspectTarget, Writing
<1>12. CASE OpenTemp(p)
  BY <1>12, InvOpenTemp
<1>13. CASE FillTemp(p)
  BY <1>13, InvFillTemp
<1>14. CASE ReplaceTarget(p)
  BY <1>14, InvReplaceTarget
<1>15. CASE Verify(p)
  BY <1>15, InvOwnerMoves DEF Verify, Writing
<1>16. CASE Fails(p)
  BY <1>16, InvFails
<1>17. CASE RemoveTemp(p)
  BY <1>17, InvRemoveTemp
<1>18. QED
  BY <1>1, <1>2, <1>3, <1>4, <1>5, <1>6, <1>7, <1>8, <1>9, <1>10, <1>11, <1>12, <1>13, <1>14,
     <1>15, <1>16, <1>17 DEF Apply

LEMMA InvNext == ASSUME ApplyInv, Undisturbed, [Next]_vars PROVE ApplyInv'
<1>1. CASE \E p \in Process : Apply(p)
  BY <1>1, InvApply
<1>2. CASE \E p \in Process : Dies(p)
  BY <1>2, InvGivesUp DEF Dies
<1>3. CASE TurnStale
  BY <1>3, InvTurnStale
<1>4. CASE UNCHANGED vars
  BY <1>4 DEF vars, files, ApplyInv, TypeOK, LockOwned, TargetWhole, Progress, Holding, Recovering, Current
<1>5. QED
  BY <1>1, <1>2, <1>3, <1>4 DEF Next

LEMMA Invariant == ASSUME Undisturbed PROVE Spec => []ApplyInv
<1>1. ApplyInv /\ [Next]_vars => ApplyInv'
  BY InvNext
<1>2. QED
  BY InvInit, <1>1, PTL DEF Spec

-----------------------------------------------------------------------------
(* What follows.                                                             *)

\* Every variable keeps its type, and exactly the processes that write have a
\* file open (config_last_good_apply.py, _acquire_lock and apply_config_last_good).
THEOREM TypeCorrect == ASSUME Undisturbed PROVE Spec => []TypeOK
<1>1. ApplyInv => TypeOK
  BY DEF ApplyInv
<1>2. QED
  BY Invariant, <1>1, PTL

\* O_CREAT | O_EXCL and the recovery of stale locks let one process into the
\* transaction, as long as the recovery is not itself raced (_acquire_lock).
THEOREM LockExcludes == ASSUME Undisturbed PROVE Spec => []ExclusiveLock
<1>1. ApplyInv => ExclusiveLock
  BY Exclusion DEF ApplyInv
<1>2. QED
  BY Invariant, <1>1, PTL

\* Through every failure, death and recovery the target is one whole snapshot or
\* not there (_write_temp, os.replace and recover-temp in apply_config_last_good).
THEOREM TargetAlwaysWhole == ASSUME Undisturbed PROVE Spec => []TargetWhole
<1>1. ApplyInv => TargetWhole
  BY DEF ApplyInv
<1>2. QED
  BY Invariant, <1>1, PTL

\* A receipt tells the truth about the target until its lock is removed, whichever
\* of the four outcomes it reports (apply_config_last_good).
THEOREM ReceiptsTrue == ASSUME Undisturbed PROVE Spec => []ReceiptTrue
<1>1. ApplyInv => ReceiptTrue
  BY DEF ApplyInv, Progress, ReceiptTrue, Current
<1>2. QED
  BY Invariant, <1>1, PTL

\* A step that changes the target is the rename of the process that owns the lock,
\* and what it renames is the snapshot that process was asked to write.
THEOREM OwnersWrite == ASSUME Undisturbed PROVE Spec => OnlyOwnerWrites
<1> DEFINE Owned == \E p \in Process : /\ lock.by = p /\ Holding(p)
                                       /\ process[p].decision = "write"
                                       /\ target' = process[p].candidate
<1>1. ASSUME ApplyInv, [Next]_vars, target' # target PROVE Owned
  <2>1. PICK p \in Process : FillTemp(p) \/ ReplaceTarget(p)
    BY <1>1 DEF Next, Apply, vars, files, Begin, Acquire, Judge, Bind, RemoveLock, Retry, WriteLock,
       WriteLockFails, InspectTemp, DiscardTemp, InspectTarget, OpenTemp, Verify, Fails, RemoveTemp,
       Unlock, Dies, TurnStale
  <2>2. CASE FillTemp(p)
    BY <1>1, <2>2 DEF FillTemp, ApplyInv, Progress
  <2>3. CASE ReplaceTarget(p)
    BY <1>1, <2>3 DEF ReplaceTarget, files, ApplyInv, Progress, LockOwned, Holding, Writing
  <2>4. QED
    BY <2>1, <2>2, <2>3
<1>2. ApplyInv /\ [Next]_vars => [target' # target => Owned]_vars
  BY <1>1
<1>3. QED
  BY Invariant, <1>2, PTL DEF Spec, OnlyOwnerWrites

-----------------------------------------------------------------------------
(* The apply implements LastGoodFile.                                        *)

\* The calls as LastGoodFile sees them.
Calls == [p \in Process |-> [stage |-> CallStage(p), decision |-> process[p].decision,
                             candidate |-> process[p].candidate]]

\* Whoever is in the transaction, or on his way out of it, has entered.
LEMMA HoldersInside ==
    ASSUME NEW p \in Process, TypeOK
    PROVE  (Calls[p].stage \in {"entered", "replaced", "done", "failed"}) <=> Holding(p)
<1>1. process[p].at \in At
  BY DEF TypeOK, At
<1>2. Calls[p].stage = CallStage(p)
  BY DEF Calls
<1>3. QED
  BY <1>1, <1>2 DEF CallStage, Holding, Acquiring, Writing, At

\* A step that moves one process and keeps its request moves one call only.
LEMMA CallGoes ==
    ASSUME NEW p \in Process, process'[p].decision = process[p].decision,
           process'[p].candidate = process[p].candidate,
           \A q \in Process \ {p} : process'[q] = process[q]
    PROVE  Calls' = [Calls EXCEPT ![p].stage = CallStage(p)']
<1>1. \A q \in Process \ {p} : CallStage(q)' = CallStage(q)
  BY DEF CallStage
<1>2. QED
  BY <1>1 DEF Calls

\* A step within one stage.
LEMMA CallStays ==
    ASSUME NEW p \in Process, process'[p].decision = process[p].decision,
           process'[p].candidate = process[p].candidate, CallStage(p)' = CallStage(p),
           \A q \in Process \ {p} : process'[q] = process[q]
    PROVE  Calls' = Calls
<1>1. Calls' = [Calls EXCEPT ![p].stage = CallStage(p)]
  BY CallGoes
<1>2. QED
  BY <1>1 DEF Calls

\* The end of a call, however it ends.
LEMMA EndLeaves ==
    ASSUME TypeOK, NEW p \in Process, process[p].at # "idle", Ends(p), target' = target
    PROVE  LastGood!Next
<1>1. /\ process'[p].at = "idle" /\ process'[p].decision = "write" /\ process'[p].candidate = Missing
      /\ \A q \in Process \ {p} : process'[q] = process[q]
  BY DEF Ends, TypeOK, Resting
<1>2. CallStage(p)' = "outside"
  BY <1>1 DEF CallStage, Acquiring
<1>3. Calls' = [Calls EXCEPT ![p] = LastGood!NoCall]
  <2>1. \A q \in Process \ {p} : CallStage(q)' = CallStage(q)
    BY <1>1 DEF CallStage
  <2>2. Calls'[p] = LastGood!NoCall
    BY <1>1, <1>2 DEF Calls, LastGood!NoCall
  <2>3. \A q \in Process \ {p} : Calls'[q] = Calls[q]
    BY <1>1, <2>1 DEF Calls
  <2>4. QED
    BY <2>2, <2>3 DEF Calls
<1>4. process[p].at \in At
  BY DEF TypeOK, At
<1>5. Calls[p].stage # "outside"
  BY <1>4 DEF Calls, CallStage, At
<1>6. LastGood!Leave(p)
  BY <1>3, <1>5 DEF Calls, LastGood!Leave
<1>7. QED
  BY <1>6 DEF LastGood!Next

\* Giving up in the transaction.
LEMMA RaiseFails ==
    ASSUME TypeOK, NEW p \in Process, process[p].at \in Writing, Raises(p), target' = target
    PROVE  LastGood!Next
<1>1. /\ process'[p].at = "finally" /\ process'[p].ok = FALSE
      /\ process'[p].decision = process[p].decision /\ process'[p].candidate = process[p].candidate
      /\ \A q \in Process \ {p} : process'[q] = process[q]
  BY Finishes DEF Raises
<1>2. CallStage(p)' = "failed"
  BY <1>1 DEF CallStage, Acquiring
<1>3. Calls' = [Calls EXCEPT ![p].stage = "failed"]
  BY <1>1, <1>2, CallGoes
<1>4. Calls[p].stage \in {"entered", "replaced"}
  BY DEF Calls, CallStage, Acquiring, Writing
<1>5. LastGood!Fail(p)
  BY <1>3, <1>4 DEF Calls, LastGood!Fail, LastGood!Goes
<1>6. QED
  BY <1>5 DEF LastGood!Next

\* A receipt.
LEMMA ReturnSucceeds ==
    ASSUME TypeOK, NEW p \in Process, process[p].at \in Writing, Current(p), Returns(p),
           target' = target
    PROVE  LastGood!Next
<1>1. /\ process'[p].at = "finally" /\ process'[p].ok = TRUE
      /\ process'[p].decision = process[p].decision /\ process'[p].candidate = process[p].candidate
      /\ \A q \in Process \ {p} : process'[q] = process[q]
  BY Finishes DEF Returns
<1>2. CallStage(p)' = "done"
  BY <1>1 DEF CallStage, Acquiring
<1>3. Calls' = [Calls EXCEPT ![p].stage = "done"]
  BY <1>1, <1>2, CallGoes
<1>4. Calls[p].stage \in {"entered", "replaced"} /\ target = Calls[p].candidate
  BY DEF Calls, CallStage, Acquiring, Writing, Current
<1>5. LastGood!Succeed(p)
  BY <1>3, <1>4 DEF Calls, LastGood!Succeed, LastGood!Goes
<1>6. QED
  BY <1>5 DEF LastGood!Next

\* A process whose lock file is created finds nobody inside.
LEMMA CreateEnters ==
    ASSUME ApplyInv, NEW p \in Process, process[p].at \in {"acquire", "retry"},
           lock = NoLock, GoTo(p, "locking"), target' = target
    PROVE  LastGood!Next
<1>1. TypeOK
  BY DEF ApplyInv
<1>2. /\ process'[p].at = "locking"
      /\ process'[p].decision = process[p].decision /\ process'[p].candidate = process[p].candidate
      /\ \A q \in Process \ {p} : process'[q] = process[q]
  BY <1>1, Moves DEF At
<1>3. CallStage(p)' = "entered"
  BY <1>2 DEF CallStage, Acquiring
<1>4. Calls' = [Calls EXCEPT ![p].stage = "entered"]
  BY <1>2, <1>3, CallGoes
<1>5. Calls[p].stage = "waiting"
  BY DEF Calls, CallStage, Acquiring
<1>6. \A q \in Process : ~Holding(q)
  BY ApplyAssumption DEF ApplyInv, LockOwned, NoLock
<1>7. \A q \in Process : Calls[q].stage \notin {"entered", "replaced", "done", "failed"}
  BY <1>1, <1>6, HoldersInside
<1>8. LastGood!Enter(p)
  BY <1>4, <1>5, <1>7 DEF Calls, LastGood!Enter, LastGood!Goes, LastGood!Inside
<1>9. QED
  BY <1>8 DEF LastGood!Next

\* The rename puts the own snapshot in place, and is the only one of this call.
LEMMA ReplaceReplaces ==
    ASSUME ApplyInv, NEW p \in Process, ReplaceTarget(p)
    PROVE  LastGood!Next
<1>1. /\ TypeOK /\ process[p].at \in {"promote", "replace"} /\ process[p].decision = "write"
      /\ temp = process[p].candidate /\ temp # Missing
  BY ApplyAssumption DEF ReplaceTarget, ApplyInv, Progress
<1>2. target' = process[p].candidate /\ GoTo(p, "verify")
  BY <1>1 DEF ReplaceTarget
<1>3. /\ process'[p].at = "verify"
      /\ process'[p].decision = process[p].decision /\ process'[p].candidate = process[p].candidate
      /\ \A q \in Process \ {p} : process'[q] = process[q]
  BY <1>1, <1>2, Moves DEF At, Writing
<1>4. CallStage(p)' = "replaced"
  BY <1>3 DEF CallStage, Acquiring
<1>5. Calls' = [Calls EXCEPT ![p].stage = "replaced"]
  BY <1>3, <1>4, CallGoes
<1>6. Calls[p].stage = "entered" /\ Calls[p].decision = "write" /\ target' = Calls[p].candidate
  BY <1>1, <1>2 DEF Calls, CallStage, Acquiring
<1>7. LastGood!Replace(p)
  BY <1>5, <1>6 DEF Calls, LastGood!Replace, LastGood!Goes
<1>8. QED
  BY <1>7 DEF LastGood!Next

LEMMA BeginRequests ==
    ASSUME TypeOK, NEW p \in Process, Begin(p)
    PROVE  LastGood!Next
<1>1. PICK decision \in {"write", "retain-existing"}, candidate \in Payload :
         /\ decision = "retain-existing" => target # Missing
         /\ process' = [process EXCEPT ![p] = [at |-> "acquire", decision |-> decision,
                                               candidate |-> candidate, ok |-> FALSE]]
  BY DEF Begin
<1>2. /\ process'[p].at = "acquire" /\ process'[p].decision = decision
      /\ process'[p].candidate = candidate
      /\ \A q \in Process \ {p} : process'[q] = process[q]
  BY <1>1 DEF TypeOK
<1>3. CallStage(p)' = "waiting"
  BY <1>2 DEF CallStage, Acquiring
<1>4. Calls' = [Calls EXCEPT ![p] = [stage |-> "waiting", decision |-> decision,
                                     candidate |-> candidate]]
  <2>1. \A q \in Process \ {p} : CallStage(q)' = CallStage(q)
    BY <1>2 DEF CallStage
  <2>2. Calls'[p] = [stage |-> "waiting", decision |-> decision, candidate |-> candidate]
    BY <1>2, <1>3 DEF Calls
  <2>3. \A q \in Process \ {p} : Calls'[q] = Calls[q]
    BY <1>2, <2>1 DEF Calls
  <2>4. QED
    BY <2>2, <2>3 DEF Calls
<1>5. Calls[p].stage = "outside"
  BY DEF Calls, CallStage, Begin, Acquiring
<1>6. target' = target
  BY DEF Begin, files
<1>7. Calls'[p] = [stage |-> "waiting", decision |-> decision, candidate |-> candidate]
  BY <1>2, <1>3 DEF Calls
<1>8. Calls' = [Calls EXCEPT ![p] = Calls'[p]]
  BY <1>4, <1>7
<1>9. LastGood!Request(p)
  BY <1>1, <1>5, <1>6, <1>7, <1>8 DEF Calls, LastGood!Request
<1>10. QED
  BY <1>9 DEF LastGood!Next

\* A call of the file system that neither enters, replaces nor ends.
LEMMA StageKept ==
    ASSUME TypeOK, NEW p \in Process, NEW at \in At, GoTo(p, at), target' = target,
           \/ process[p].at \in Acquiring /\ at \in Acquiring
           \/ /\ process[p].at \in (Writing \ {"verify"}) \cup {"locking"}
              /\ at \in Writing \ {"verify"}
           \/ process[p].at = "finally" /\ at = "unlock"
    PROVE  UNCHANGED LastGood!vars
<1>1. /\ process'[p].at = at /\ process'[p].ok = process[p].ok
      /\ process'[p].decision = process[p].decision /\ process'[p].candidate = process[p].candidate
      /\ \A q \in Process \ {p} : process'[q] = process[q]
  BY Moves
<1>2. CallStage(p)' = CallStage(p)
  BY <1>1 DEF CallStage, Acquiring, Writing
<1>3. Calls' = Calls
  BY <1>1, <1>2, CallStays
<1>4. QED
  BY <1>3 DEF Calls, LastGood!vars

LEMMA ApplyImplements ==
    ASSUME ApplyInv, NEW p \in Process, Apply(p)
    PROVE  LastGood!Next \/ UNCHANGED LastGood!vars
<1>1. TypeOK
  BY DEF ApplyInv
<1>2. CASE Begin(p)
  BY <1>1, <1>2, BeginRequests
<1>3. CASE Acquire(p) \/ Retry(p)
  <2>1. target' = target
    BY <1>3 DEF Acquire, Retry, files
  <2>2. CASE lock = NoLock
    BY <1>3, <2>1, <2>2, CreateEnters DEF Acquire, Retry
  <2>3. CASE lock # NoLock
    BY <1>1, <1>3, <2>1, <2>3, StageKept, EndLeaves DEF Acquire, Retry, Acquiring, At
  <2>4. QED
    BY <2>2, <2>3
<1>4. CASE Judge(p) \/ Bind(p) \/ RemoveLock(p)
  <2>1. target' = target /\ process[p].at \in Acquiring /\ process[p].at # "idle"
    BY <1>4 DEF Judge, Bind, RemoveLock, files, Acquiring
  <2>2. Ends(p) \/ \E at \in {"bind", "remove", "retry"} : GoTo(p, at)
    BY <1>4 DEF Judge, Bind, RemoveLock
  <2>3. QED
    BY <1>1, <2>1, <2>2, StageKept, EndLeaves DEF Acquiring, At
<1>5. CASE WriteLock(p)
  BY <1>1, <1>5, StageKept DEF WriteLock, files, Writing, At
<1>6. CASE WriteLockFails(p) \/ Unlock(p)
  BY <1>1, <1>6, EndLeaves DEF WriteLockFails, Unlock, files
<1>7. CASE InspectTemp(p) \/ DiscardTemp(p)
  <2>1. target' = target /\ process[p].at \in {"temp", "discard"}
    BY <1>7 DEF InspectTemp, DiscardTemp, files
  <2>2. Raises(p) \/ \E at \in {"target", "promote", "discard"} : GoTo(p, at)
    BY <1>7 DEF InspectTemp, DiscardTemp
  <2>3. QED
    BY <1>1, <2>1, <2>2, StageKept, RaiseFails DEF Writing, At
<1>8. CASE InspectTarget(p)
  <2>1. target' = target /\ process[p].at = "target"
    BY <1>8 DEF InspectTarget, files
  <2>2. Raises(p) \/ (Current(p) /\ Returns(p)) \/ GoTo(p, "write")
    BY <1>8 DEF InspectTarget
  <2>3. QED
    BY <1>1, <2>1, <2>2, StageKept, RaiseFails, ReturnSucceeds DEF Writing, At
<1>9. CASE OpenTemp(p)
  BY <1>1, <1>9, StageKept DEF OpenTemp, Writing, At
<1>10. CASE FillTemp(p)
  <2>1. open[p] = "temp"
    BY <1>10 DEF FillTemp, ApplyInv, Progress
  <2>2. target' = target /\ process[p].at = "fill" /\ GoTo(p, "replace")
    BY <1>10, <2>1 DEF FillTemp
  <2>3. QED
    BY <1>1, <2>2, StageKept DEF Writing, At
<1>11. CASE ReplaceTarget(p)
  BY <1>11, ReplaceReplaces
<1>12. CASE Verify(p)
  BY <1>1, <1>12, RaiseFails, ReturnSucceeds DEF Verify, files, Writing
<1>13. CASE Fails(p)
  BY <1>1, <1>13, RaiseFails, EndLeaves DEF Fails, Acquiring
<1>14. CASE RemoveTemp(p)
  BY <1>1, <1>14, StageKept DEF RemoveTemp, At
<1>15. QED
  BY <1>2, <1>3, <1>4, <1>5, <1>6, <1>7, <1>8, <1>9, <1>10, <1>11, <1>12, <1>13, <1>14 DEF Apply

LEMMA StepImplements ==
    ASSUME ApplyInv, [Next]_vars
    PROVE  [LastGood!Next]_(LastGood!vars)
<1>1. CASE \E p \in Process : Apply(p)
  BY <1>1, ApplyImplements
<1>2. CASE \E p \in Process : Dies(p)
  BY <1>2, EndLeaves DEF Dies, ApplyInv
<1>3. CASE TurnStale \/ UNCHANGED vars
  <2>1. target' = target /\ process' = process
    BY <1>3 DEF TurnStale, files, vars
  <2>2. Calls' = Calls
    BY <2>1 DEF Calls, CallStage
  <2>3. QED
    BY <2>1, <2>2 DEF Calls, LastGood!vars
<1>4. QED
  BY <1>1, <1>2, <1>3 DEF Next

LEMMA InitImplements == Init => LastGood!Init
<1> SUFFICES ASSUME Init PROVE LastGood!Init
  OBVIOUS
<1>1. \A p \in Process : CallStage(p) = "outside" /\ process[p].decision = "write"
                         /\ process[p].candidate = Missing
  BY DEF Init, Resting, CallStage, Acquiring
<1>2. QED
  BY <1>1 DEF Init, LastGood!Init, LastGood!NoCall

\* apply_config_last_good implements LastGoodFile: through recoveries of stale locks,
\* left temporary files, failures and deaths, its callers see calls that enter one at
\* a time, replace the configuration once at most, and have receipts for what is there.
THEOREM ApplyImplementsFile == ASSUME Undisturbed PROVE Spec => KeepsFilePromises
<1>1. ApplyInv /\ [Next]_vars => [LastGood!Next]_(LastGood!vars)
  BY StepImplements
<1>2. QED
  BY Invariant, InitImplements, <1>1, PTL DEF Spec, KeepsFilePromises, LastGood!Spec
=============================================================================
