------------------------- MODULE JobSchedulerProofs -------------------------
(* What the scheduler guarantees for any jobs, workers, projects, leases and *)
(* clock: the invariants of JobScheduler, proved.                            *)
EXTENDS JobScheduler, FiniteSetTheorems, TLAPS

-----------------------------------------------------------------------------
(* The operators the actions are made of.                                    *)

\* A time an operation read lies between its beginning and the present.
LEMMA TimesReadBounds ==
    ASSUME SchedulerTypeOK, NEW since \in Nat, NEW t \in TimesRead(since)
    PROVE  t \in Nat /\ since <= t /\ t <= clock
BY DEF SchedulerTypeOK, TimesRead

\* The retry delay is a natural number, whatever the base and the cap.
LEMMA BackoffType ==
    ASSUME NEW a PROVE Backoff(a) \in Nat
BY ParametersAssumption DEF Backoff

\* Taking a job from its worker leaves a row of the table.
LEMMA ReleaseType ==
    ASSUME NEW row \in Row, NEW state \in States, NEW now \in Nat, NEW scheduled \in Nat
    PROVE  Release(row, state, now, scheduled) \in Row
BY DEF Release, Row

\* What the UPDATE leaves in the columns that the invariants speak of.
LEMMA ReleaseFields ==
    ASSUME NEW row \in Row, NEW state, NEW now, NEW scheduled
    PROVE  /\ Release(row, state, now, scheduled).state = state
           /\ Release(row, state, now, scheduled).lease_owner = NoWorker
           /\ Release(row, state, now, scheduled).attempt = row.attempt
BY DEF Release, Row

\* A reaped job is a row of the table, queued or a dead letter, without owner.
LEMMA ReapedRow ==
    ASSUME NEW j \in Job, NEW row \in Row, NEW now \in Nat
    PROVE  /\ Reaped(j, row, now) \in Row
           /\ Reaped(j, row, now).state = IF row.attempt < max_attempts[j] THEN "queued" ELSE "dead-letter"
           /\ Reaped(j, row, now).lease_owner = NoWorker
           /\ Reaped(j, row, now).attempt = row.attempt
<1>1. (IF row.attempt < max_attempts[j] THEN "queued" ELSE "dead-letter") \in States
  BY DEF States, Final
<1>2. Reaped(j, row, now) \in Row
  BY <1>1, ReleaseType DEF Reaped
<1>3. QED
  BY <1>2 DEF Reaped, Release, Row

\* The table after a reaper's pass.
LEMMA ReapExpiredRows ==
    ASSUME SchedulerTypeOK, NEW now \in Nat
    PROVE  /\ ReapExpired(now) \in [Job -> Row]
           /\ \A j \in Job : ReapExpired(now)[j] =
                 IF Expired(jobs[j], now) THEN Reaped(j, jobs[j], now) ELSE jobs[j]
<1>1. \A j \in Job : jobs[j] \in Row
  BY DEF SchedulerTypeOK
<1>2. \A j \in Job : (IF Expired(jobs[j], now) THEN Reaped(j, jobs[j], now) ELSE jobs[j]) \in Row
  BY <1>1, ReapedRow
<1>3. QED
  BY <1>2 DEF ReapExpired

\* A claimed job is a row of the table that runs under the claiming worker.
LEMMA ClaimedRow ==
    ASSUME NEW row \in Row, NEW w \in Worker, NEW now \in Nat
    PROVE  /\ Claimed(row, w, now) \in Row
           /\ Claimed(row, w, now).state = "running"
           /\ Claimed(row, w, now).lease_owner = w
           /\ Claimed(row, w, now).attempt = row.attempt + 1
           /\ Claimed(row, w, now).lease_until = now + LeaseSeconds
           /\ now + LeaseSeconds \in Nat \ {0}
<1>1. "running" \in States
  BY DEF States
<1>2. now + LeaseSeconds \in Nat \ {0}
  BY ParametersAssumption
<1>3. row.attempt + 1 \in Nat
  BY DEF Row
<1>4. Claimed(row, w, now) \in Row
  BY <1>1, <1>2, <1>3 DEF Claimed, Row
<1>5. QED
  BY <1>2, <1>4 DEF Claimed, Row

\* A failed job is a row of the table: queued again, failed or a dead letter.
LEMMA FailedRow ==
    ASSUME NEW j \in Job, NEW row \in Row, NEW retryable \in BOOLEAN, NEW now \in Nat
    PROVE  /\ Failed(j, row, retryable, now) \in Row
           /\ Failed(j, row, retryable, now).lease_owner = NoWorker
           /\ Failed(j, row, retryable, now).attempt = row.attempt
           /\ \/ /\ Failed(j, row, retryable, now).state \in {"queued", "failed"}
                 /\ row.attempt < max_attempts[j]
              \/ /\ Failed(j, row, retryable, now).state = "dead-letter"
                 /\ row.attempt >= max_attempts[j]
<1>1. now + Backoff(row.attempt) \in Nat
  BY BackoffType
<1>2. {"queued", "failed", "dead-letter"} \subseteq States
  BY DEF States, Final
<1>3. row.attempt \in Nat /\ max_attempts[j] \in Nat
  BY ParametersAssumption DEF Row
<1>4. Failed(j, row, retryable, now) \in Row
  BY <1>1, <1>2, ReleaseType DEF Failed
<1>5. QED
  BY <1>3, <1>4 DEF Failed, Release, Row

-----------------------------------------------------------------------------
(* Types.                                                                    *)

LEMMA TypeInit == SchedulerInit => SchedulerTypeOK
<1>1. Absent \in Row
  BY DEF Absent, Row, States
<1>2. QED
  BY <1>1 DEF SchedulerInit, SchedulerTypeOK

LEMMA TypeSubmit ==
    ASSUME SchedulerTypeOK, NEW j \in Job, Submit(j) PROVE SchedulerTypeOK'
<1>1. PICK now \in TimesRead(1), delay \in Delays :
         jobs' = [jobs EXCEPT ![j] = [Absent EXCEPT !.state = "queued",
                     !.scheduled_at = now + delay, !.created_at = now, !.updated_at = now]]
  BY DEF Submit
<1>2. now \in Nat /\ now + delay \in Nat
  BY TimesReadBounds, ParametersAssumption
<1>3. [Absent EXCEPT !.state = "queued", !.scheduled_at = now + delay,
                     !.created_at = now, !.updated_at = now] \in Row
  BY <1>2 DEF Absent, Row, States
<1>4. QED
  BY <1>1, <1>3 DEF SchedulerTypeOK, Submit

LEMMA TypeClaim ==
    ASSUME SchedulerTypeOK, NEW w \in Worker, Claim(w) PROVE SchedulerTypeOK'
<1>1. PICK now \in TimesRead(1) :
         \/ jobs' = ReapExpired(now) /\ UNCHANGED held
         \/ \E j \in Ready(ReapExpired(now), w, now) :
               /\ jobs' = [ReapExpired(now) EXCEPT ![j] = Claimed(@, w, now)]
               /\ held' = [held EXCEPT ![w] =
                     [job |-> j, attempt |-> ReapExpired(now)[j].attempt + 1,
                      since |-> clock, until |-> now + LeaseSeconds]]
  BY DEF Claim
<1>2. now \in Nat
  BY TimesReadBounds
<1>3. ReapExpired(now) \in [Job -> Row]
  BY <1>2, ReapExpiredRows
<1>4. CASE jobs' = ReapExpired(now) /\ UNCHANGED held
  BY <1>3, <1>4 DEF SchedulerTypeOK, Claim
<1>5. ASSUME NEW j \in Ready(ReapExpired(now), w, now),
             jobs' = [ReapExpired(now) EXCEPT ![j] = Claimed(@, w, now)],
             held' = [held EXCEPT ![w] =
                 [job |-> j, attempt |-> ReapExpired(now)[j].attempt + 1,
                  since |-> clock, until |-> now + LeaseSeconds]]
      PROVE  SchedulerTypeOK'
  <2>1. j \in Job
    BY ParametersAssumption DEF Ready
  <2>2. ReapExpired(now)[j] \in Row
    BY <1>3, <2>1
  <2>3. Claimed(ReapExpired(now)[j], w, now) \in Row /\ now + LeaseSeconds \in Nat
    BY <1>2, <2>2, ClaimedRow
  <2>4. jobs' \in [Job -> Row]
    BY <1>3, <1>5, <2>3
  <2>5. ReapExpired(now)[j].attempt + 1 \in Nat
    BY <2>2 DEF Row
  <2>6. held' \in [Worker -> Lease \cup {NoLease}]
    BY <1>5, <2>1, <2>3, <2>5 DEF SchedulerTypeOK, Lease
  <2>7. QED
    BY <2>4, <2>6 DEF SchedulerTypeOK, Claim
<1>6. QED
  BY <1>1, <1>4, <1>5

\* A lease in a worker's memory names a job and natural numbers.
LEMMA HeldType ==
    ASSUME SchedulerTypeOK, NEW w \in Worker, held[w] # NoLease
    PROVE  /\ held[w] \in Lease /\ held[w].job \in Job
           /\ held[w].since \in Nat /\ held[w].until \in Nat /\ held[w].attempt \in Nat
           /\ jobs[held[w].job] \in Row
BY DEF SchedulerTypeOK, Lease

LEMMA TypeRefused ==
    ASSUME SchedulerTypeOK, NEW w \in Worker, Refused(w) PROVE SchedulerTypeOK'
BY DEF SchedulerTypeOK, Refused

LEMMA TypeHeartbeat ==
    ASSUME SchedulerTypeOK, NEW w \in Worker, Heartbeat(w) PROVE SchedulerTypeOK'
<1>1. CASE Refused(w)
  BY <1>1, TypeRefused
<1>2. CASE ~Refused(w)
  <2>1. PICK now \in TimesRead(held[w].since) :
           /\ jobs' = [jobs EXCEPT ![held[w].job] = Extended(@, now)]
           /\ held' = [held EXCEPT ![w].since = clock, ![w].until = now + LeaseSeconds]
    BY <1>2 DEF Heartbeat
  <2>2. held[w] # NoLease /\ clock' = clock
    BY <1>2 DEF Heartbeat
  <2>3. now \in Nat /\ now + LeaseSeconds \in Nat /\ clock \in Nat
    BY <2>2, HeldType, TimesReadBounds, ParametersAssumption DEF SchedulerTypeOK
  <2>4. Extended(jobs[held[w].job], now) \in Row
    BY <2>2, <2>3, HeldType DEF Extended, Row
  <2>5. jobs' \in [Job -> Row]
    BY <2>1, <2>4 DEF SchedulerTypeOK
  <2>6. [held[w] EXCEPT !.since = clock, !.until = now + LeaseSeconds] \in Lease
    BY <2>2, <2>3, HeldType DEF Lease
  <2>7. held' = [held EXCEPT ![w] = [held[w] EXCEPT !.since = clock, !.until = now + LeaseSeconds]]
    BY <2>1 DEF SchedulerTypeOK
  <2>8. QED
    BY <2>2, <2>5, <2>6, <2>7 DEF SchedulerTypeOK
<1>3. QED
  BY <1>1, <1>2

LEMMA TypeComplete ==
    ASSUME SchedulerTypeOK, NEW w \in Worker, Complete(w) PROVE SchedulerTypeOK'
<1>1. CASE Refused(w)
  BY <1>1, TypeRefused
<1>2. CASE ~Refused(w)
  <2>1. /\ held[w] # NoLease
        /\ jobs' = [jobs EXCEPT ![held[w].job] = Release(@, "succeeded", clock, @.scheduled_at)]
        /\ held' = [held EXCEPT ![w] = NoLease]
        /\ clock' = clock
    BY <1>2 DEF Complete
  <2>2. Release(jobs[held[w].job], "succeeded", clock, jobs[held[w].job].scheduled_at) \in Row
    <3>1. jobs[held[w].job].scheduled_at \in Nat /\ "succeeded" \in States
      BY <2>1, HeldType DEF Row, States, Final
    <3>2. QED
      BY <2>1, <3>1, HeldType, ReleaseType DEF SchedulerTypeOK
  <2>3. QED
    BY <2>1, <2>2 DEF SchedulerTypeOK
<1>3. QED
  BY <1>1, <1>2

LEMMA TypeFail ==
    ASSUME SchedulerTypeOK, NEW w \in Worker, Fail(w) PROVE SchedulerTypeOK'
<1>1. CASE Refused(w)
  BY <1>1, TypeRefused
<1>2. CASE ~Refused(w)
  <2>1. PICK now \in TimesRead(held[w].since), retryable \in BOOLEAN :
           jobs' = [jobs EXCEPT ![held[w].job] = Failed(held[w].job, @, retryable, now)]
    BY <1>2 DEF Fail
  <2>2. /\ held[w] # NoLease
        /\ held' = [held EXCEPT ![w] = NoLease]
        /\ clock' = clock
    BY <1>2 DEF Fail
  <2>3. Failed(held[w].job, jobs[held[w].job], retryable, now) \in Row
    BY <2>2, HeldType, TimesReadBounds, FailedRow
  <2>4. QED
    BY <2>1, <2>2, <2>3 DEF SchedulerTypeOK
<1>3. QED
  BY <1>1, <1>2

LEMMA TypeCancel ==
    ASSUME SchedulerTypeOK, NEW j \in Job, Cancel(j) PROVE SchedulerTypeOK'
<1>1. jobs[j] \in Row /\ jobs[j].scheduled_at \in Nat /\ "cancelled" \in States
  BY DEF SchedulerTypeOK, Row, States, Final
<1>2. Release(jobs[j], "cancelled", clock, jobs[j].scheduled_at) \in Row
  BY <1>1, ReleaseType DEF SchedulerTypeOK
<1>3. QED
  BY <1>2 DEF SchedulerTypeOK, Cancel

\* Every step of the scheduler, its workers and its clock keeps the types.
LEMMA TypeStep == SchedulerTypeOK /\ [SchedulerNext]_schedulerVars => SchedulerTypeOK'
<1> SUFFICES ASSUME SchedulerTypeOK, [SchedulerNext]_schedulerVars PROVE SchedulerTypeOK'
  OBVIOUS
<1>1. ASSUME NEW j \in Job, Submit(j) PROVE SchedulerTypeOK'
  BY <1>1, TypeSubmit
<1>2. ASSUME NEW j \in Job, Cancel(j) PROVE SchedulerTypeOK'
  BY <1>2, TypeCancel
<1>3. ASSUME NEW w \in Worker, Claim(w) PROVE SchedulerTypeOK'
  BY <1>3, TypeClaim
<1>4. ASSUME NEW w \in Worker, Heartbeat(w) PROVE SchedulerTypeOK'
  BY <1>4, TypeHeartbeat
<1>5. ASSUME NEW w \in Worker, Complete(w) PROVE SchedulerTypeOK'
  BY <1>5, TypeComplete
<1>6. ASSUME NEW w \in Worker, Fail(w) PROVE SchedulerTypeOK'
  BY <1>6, TypeFail
<1>7. ASSUME NEW w \in Worker, Crash(w) PROVE SchedulerTypeOK'
  BY <1>7 DEF SchedulerTypeOK, Crash
<1>8. CASE Reap
  BY <1>8, ReapExpiredRows DEF SchedulerTypeOK, Reap
<1>9. CASE Tick
  BY <1>9 DEF SchedulerTypeOK, Tick
<1>10. CASE UNCHANGED schedulerVars
  BY <1>10 DEF SchedulerTypeOK, schedulerVars
<1>11. QED
  BY <1>1, <1>2, <1>3, <1>4, <1>5, <1>6, <1>7, <1>8, <1>9, <1>10 DEF SchedulerNext

\* Type correctness: the table, the clock and the workers' memory keep their types.
THEOREM TypeCorrect == SchedulerSpec => []SchedulerTypeOK
BY TypeInit, TypeStep, PTL DEF SchedulerSpec

-----------------------------------------------------------------------------
(* The table by itself: one fact per way a row changes, then one per action. *)

RowOK(j, row) == RowConsistent(row) /\ (row.state # "absent" => WithinBudget(j, row))

LEMMA ReapedOK ==
    ASSUME NEW j \in Job, NEW row \in Row, NEW now \in Nat, RowOK(j, row), Expired(row, now)
    PROVE  RowOK(j, Reaped(j, row, now))
<1>1. row.attempt \in Nat /\ max_attempts[j] \in Nat /\ row.state = "running"
  BY ParametersAssumption DEF Row, Expired
<1>2. row.attempt <= max_attempts[j]
  BY <1>1 DEF RowOK, WithinBudget
<1> DEFINE new == Reaped(j, row, now)
<1>3. /\ new.lease_owner = NoWorker /\ new.attempt = row.attempt
      /\ \/ new.state = "queued" /\ row.attempt < max_attempts[j]
         \/ new.state = "dead-letter" /\ row.attempt = max_attempts[j]
  <2>1. CASE row.attempt < max_attempts[j]
    BY <2>1, ReapedRow
  <2>2. CASE row.attempt = max_attempts[j]
    BY <1>1, <2>2, ReapedRow
  <2>3. QED
    BY <1>1, <1>2, <2>1, <2>2
<1> HIDE DEF new
<1>4. RowConsistent(new) /\ WithinBudget(j, new)
  BY <1>1, <1>3 DEF RowConsistent, WithinBudget
<1>5. QED
  BY <1>4 DEF RowOK, new

LEMMA ClaimedOK ==
    ASSUME NEW j \in Job, NEW row \in Row, NEW w \in Worker, NEW now \in Nat,
           RowOK(j, row), row.state = "queued"
    PROVE  RowOK(j, Claimed(row, w, now))
<1>1. row.attempt \in Nat /\ max_attempts[j] \in Nat /\ row.attempt < max_attempts[j]
  BY ParametersAssumption DEF Row, RowOK, WithinBudget
<1>2. NoWorker # w
  BY ParametersAssumption
<1> DEFINE new == Claimed(row, w, now)
<1>3. /\ new.state = "running" /\ new.lease_owner = w
      /\ new.attempt = row.attempt + 1 /\ new.lease_until \in Nat \ {0}
  BY ClaimedRow
<1> HIDE DEF new
<1>4. RowConsistent(new) /\ WithinBudget(j, new)
  BY <1>1, <1>2, <1>3 DEF RowConsistent, WithinBudget
<1>5. QED
  BY <1>4 DEF RowOK, new

LEMMA FailedOK ==
    ASSUME NEW j \in Job, NEW row \in Row, NEW retryable \in BOOLEAN, NEW now \in Nat,
           RowOK(j, row), row.state = "running"
    PROVE  RowOK(j, Failed(j, row, retryable, now))
<1>1. row.attempt \in Nat /\ max_attempts[j] \in Nat /\ row.attempt <= max_attempts[j]
  BY ParametersAssumption DEF Row, RowOK, WithinBudget
<1>2. QED
  BY <1>1, FailedRow DEF RowOK, RowConsistent, WithinBudget

LEMMA ReleasedOK ==
    ASSUME NEW j \in Job, NEW row \in Row, NEW state \in {"succeeded", "cancelled"},
           NEW now \in Nat, NEW scheduled \in Nat, RowOK(j, row), row.state # "absent"
    PROVE  RowOK(j, Release(row, state, now, scheduled))
BY DEF Release, Row, RowOK, RowConsistent, WithinBudget

LEMMA ExtendedOK ==
    ASSUME NEW j \in Job, NEW row \in Row, NEW now \in Nat,
           RowOK(j, row), row.state = "running"
    PROVE  RowOK(j, Extended(row, now))
<1>1. now + LeaseSeconds > 0
  BY ParametersAssumption
<1>2. QED
  BY <1>1 DEF Extended, Row, RowOK, RowConsistent, WithinBudget

\* After the reaper's pass every row is as it should be.
LEMMA ReapExpiredOK ==
    ASSUME SchedulerTypeOK, NEW now \in Nat, \A j \in Job : RowOK(j, jobs[j])
    PROVE  \A j \in Job : RowOK(j, ReapExpired(now)[j])
<1> SUFFICES ASSUME NEW j \in Job PROVE RowOK(j, ReapExpired(now)[j])
  OBVIOUS
<1>1. jobs[j] \in Row /\ RowOK(j, jobs[j])
  BY DEF SchedulerTypeOK
<1>2. CASE Expired(jobs[j], now)
  BY <1>1, <1>2, ReapedOK, ReapExpiredRows
<1>3. CASE ~Expired(jobs[j], now)
  BY <1>1, <1>3, ReapExpiredRows
<1>4. QED
  BY <1>2, <1>3

\* Every step of the scheduler leaves rows as they should be.
LEMMA RowsStep ==
    ASSUME SchedulerTypeOK, \A j \in Job : RowOK(j, jobs[j]), [SchedulerNext]_schedulerVars
    PROVE  \A j \in Job : RowOK(j, jobs'[j])
<1>0. jobs \in [Job -> Row]
  BY DEF SchedulerTypeOK
<1>1. ASSUME NEW j \in Job, Submit(j) PROVE \A k \in Job : RowOK(k, jobs'[k])
  <2>1. PICK now \in TimesRead(1), delay \in Delays :
           jobs' = [jobs EXCEPT ![j] = [Absent EXCEPT !.state = "queued",
                       !.scheduled_at = now + delay, !.created_at = now, !.updated_at = now]]
    BY <1>1 DEF Submit
  <2>2. max_attempts[j] \in Nat \ {0}
    BY ParametersAssumption
  <2>3. RowOK(j, [Absent EXCEPT !.state = "queued", !.scheduled_at = now + delay,
                                !.created_at = now, !.updated_at = now])
    BY <2>2 DEF Absent, RowOK, RowConsistent, WithinBudget
  <2>4. QED
    BY <1>0, <2>1, <2>3
<1>2. ASSUME NEW j \in Job, Cancel(j) PROVE \A k \in Job : RowOK(k, jobs'[k])
  <2>1. jobs[j] \in Row /\ jobs[j].scheduled_at \in Nat /\ clock \in Nat
    BY DEF SchedulerTypeOK, Row
  <2>2. RowOK(j, Release(jobs[j], "cancelled", clock, jobs[j].scheduled_at))
    BY <1>2, <2>1, ReleasedOK DEF Cancel
  <2>3. QED
    BY <1>0, <1>2, <2>2 DEF Cancel
<1>3. ASSUME NEW w \in Worker, Claim(w) PROVE \A k \in Job : RowOK(k, jobs'[k])
  <2>1. PICK now \in TimesRead(1) :
           \/ jobs' = ReapExpired(now)
           \/ \E j \in Ready(ReapExpired(now), w, now) :
                 jobs' = [ReapExpired(now) EXCEPT ![j] = Claimed(@, w, now)]
    BY <1>3 DEF Claim
  <2>2. /\ now \in Nat
        /\ ReapExpired(now) \in [Job -> Row]
        /\ \A k \in Job : RowOK(k, ReapExpired(now)[k])
    BY TimesReadBounds, ReapExpiredRows, ReapExpiredOK
  <2>3. ASSUME NEW j \in Ready(ReapExpired(now), w, now),
               jobs' = [ReapExpired(now) EXCEPT ![j] = Claimed(@, w, now)]
        PROVE  \A k \in Job : RowOK(k, jobs'[k])
    <3>1. j \in Job /\ ReapExpired(now)[j].state = "queued"
      BY ParametersAssumption DEF Ready
    <3>2. RowOK(j, Claimed(ReapExpired(now)[j], w, now))
      BY <2>2, <3>1, ClaimedOK
    <3>3. QED
      BY <2>2, <2>3, <3>1, <3>2
  <2>4. QED
    BY <2>1, <2>2, <2>3
<1>4. ASSUME NEW w \in Worker, Heartbeat(w) PROVE \A k \in Job : RowOK(k, jobs'[k])
  <2>1. CASE Owns(w)
    <3>1. PICK now \in TimesRead(held[w].since) :
             jobs' = [jobs EXCEPT ![held[w].job] = Extended(@, now)]
      BY <1>4, <2>1 DEF Heartbeat, Refused
    <3>2. now \in Nat /\ held[w].job \in Job /\ jobs[held[w].job].state = "running"
      BY <1>4, <2>1, HeldType, TimesReadBounds DEF Heartbeat, Owns
    <3>3. RowOK(held[w].job, Extended(jobs[held[w].job], now))
      BY <1>0, <3>2, ExtendedOK
    <3>4. QED
      BY <1>0, <3>1, <3>2, <3>3
  <2>2. CASE ~Owns(w)
    BY <1>4, <2>2 DEF Heartbeat, Refused
  <2>3. QED
    BY <2>1, <2>2
<1>5. ASSUME NEW w \in Worker, Complete(w) PROVE \A k \in Job : RowOK(k, jobs'[k])
  <2>1. CASE Owns(w)
    <3>1. jobs' = [jobs EXCEPT ![held[w].job] = Release(@, "succeeded", clock, @.scheduled_at)]
      BY <1>5, <2>1 DEF Complete, Refused
    <3>2. /\ held[w].job \in Job /\ jobs[held[w].job].state = "running"
          /\ clock \in Nat /\ jobs[held[w].job].scheduled_at \in Nat
      BY <1>5, <2>1, HeldType DEF Complete, Owns, SchedulerTypeOK, Row
    <3>3. RowOK(held[w].job, Release(jobs[held[w].job], "succeeded", clock,
                                     jobs[held[w].job].scheduled_at))
      BY <1>0, <3>2, ReleasedOK
    <3>4. QED
      BY <1>0, <3>1, <3>2, <3>3
  <2>2. CASE ~Owns(w)
    BY <1>5, <2>2 DEF Complete, Refused
  <2>3. QED
    BY <2>1, <2>2
<1>6. ASSUME NEW w \in Worker, Fail(w) PROVE \A k \in Job : RowOK(k, jobs'[k])
  <2>1. CASE Owns(w)
    <3>1. PICK now \in TimesRead(held[w].since), retryable \in BOOLEAN :
             jobs' = [jobs EXCEPT ![held[w].job] = Failed(held[w].job, @, retryable, now)]
      BY <1>6, <2>1 DEF Fail, Refused
    <3>2. now \in Nat /\ held[w].job \in Job /\ jobs[held[w].job].state = "running"
      BY <1>6, <2>1, HeldType, TimesReadBounds DEF Fail, Owns
    <3>3. RowOK(held[w].job, Failed(held[w].job, jobs[held[w].job], retryable, now))
      BY <1>0, <3>2, FailedOK
    <3>4. QED
      BY <1>0, <3>1, <3>2, <3>3
  <2>2. CASE ~Owns(w)
    BY <1>6, <2>2 DEF Fail, Refused
  <2>3. QED
    BY <2>1, <2>2
<1>7. ASSUME NEW w \in Worker, Crash(w) PROVE \A k \in Job : RowOK(k, jobs'[k])
  BY <1>7 DEF Crash
<1>8. CASE Reap
  BY <1>8, ReapExpiredOK DEF Reap, SchedulerTypeOK
<1>9. CASE Tick \/ UNCHANGED schedulerVars
  BY <1>9 DEF Tick, schedulerVars
<1>10. QED
  BY <1>1, <1>2, <1>3, <1>4, <1>5, <1>6, <1>7, <1>8, <1>9 DEF SchedulerNext

-----------------------------------------------------------------------------
(* Over is over: no operation touches the row of a finished job.             *)

LEMMA FinalRowsFrozen ==
    ASSUME SchedulerTypeOK, [SchedulerNext]_schedulerVars, NEW j \in Job, jobs[j].state \in Final
    PROVE  jobs'[j] = jobs[j]
<1>0. jobs \in [Job -> Row] /\ jobs[j].state \notin {"absent", "queued", "running"}
  BY DEF SchedulerTypeOK, Final
<1>1. ASSUME NEW k \in Job, Submit(k) \/ Cancel(k) PROVE jobs'[j] = jobs[j]
  BY <1>0, <1>1 DEF Submit, Cancel
<1>2. ASSUME NEW now \in Nat PROVE ReapExpired(now)[j] = jobs[j]
  BY <1>0, <1>2, ReapExpiredRows DEF Expired
<1>3. ASSUME NEW w \in Worker, Claim(w) PROVE jobs'[j] = jobs[j]
  <2>1. PICK now \in TimesRead(1) :
           \/ jobs' = ReapExpired(now)
           \/ \E k \in Ready(ReapExpired(now), w, now) :
                 jobs' = [ReapExpired(now) EXCEPT ![k] = Claimed(@, w, now)]
    BY <1>3 DEF Claim
  <2>2. now \in Nat /\ ReapExpired(now) \in [Job -> Row] /\ ReapExpired(now)[j] = jobs[j]
    BY <1>2, TimesReadBounds, ReapExpiredRows
  <2>3. \A k \in Ready(ReapExpired(now), w, now) : k # j
    BY <1>0, <2>2 DEF Ready
  <2>4. QED
    BY <2>1, <2>2, <2>3
<1>4. ASSUME NEW w \in Worker, Heartbeat(w) \/ Complete(w) \/ Fail(w) PROVE jobs'[j] = jobs[j]
  <2>1. Owns(w) => held[w].job # j
    BY <1>0 DEF Owns
  <2>2. QED
    BY <1>0, <1>4, <2>1 DEF Heartbeat, Complete, Fail, Refused
<1>5. QED
  BY <1>1, <1>2, <1>3, <1>4 DEF SchedulerNext, Crash, Reap, Tick, schedulerVars, SchedulerTypeOK

\* An attempt begins only in a claim of a ready job.
LEMMA AttemptsBeginInClaim ==
    ASSUME SchedulerTypeOK, \A k \in Job : RowOK(k, jobs[k]), [SchedulerNext]_schedulerVars,
           NEW j \in Job, jobs'[j].attempt # jobs[j].attempt
    PROVE  \E w \in Worker : \E now \in Nat :
              now <= clock /\ Claim(w) /\ j \in Ready(ReapExpired(now), w, now)
<1>0. jobs \in [Job -> Row] /\ \A k \in Job : jobs[k].attempt \in Nat
  BY DEF SchedulerTypeOK, Row
<1>1. ASSUME NEW now \in Nat PROVE ReapExpired(now)[j].attempt = jobs[j].attempt
  <2>1. CASE Expired(jobs[j], now)
    <3>1. Reaped(j, jobs[j], now).attempt = jobs[j].attempt
      BY <1>0, <1>1, ReapedRow
    <3>2. QED
      BY <1>1, <2>1, <3>1, ReapExpiredRows
  <2>2. CASE ~Expired(jobs[j], now)
    BY <1>1, <2>2, ReapExpiredRows
  <2>3. QED
    BY <2>1, <2>2
<1>2. ASSUME NEW w \in Worker, Claim(w)
      PROVE  \E now \in Nat : now <= clock /\ j \in Ready(ReapExpired(now), w, now)
  <2>1. PICK now \in TimesRead(1) :
           \/ jobs' = ReapExpired(now)
           \/ \E k \in Ready(ReapExpired(now), w, now) :
                 jobs' = [ReapExpired(now) EXCEPT ![k] = Claimed(@, w, now)]
    BY <1>2 DEF Claim
  <2>2. /\ now \in Nat /\ now <= clock
        /\ ReapExpired(now) \in [Job -> Row] /\ ReapExpired(now)[j].attempt = jobs[j].attempt
    BY <1>1, TimesReadBounds, ReapExpiredRows
  <2>3. QED
    BY <2>1, <2>2
<1>3. ASSUME NEW k \in Job, Submit(k) PROVE FALSE
  <2>1. jobs[k].attempt = 0
    BY <1>3 DEF Submit, RowOK, RowConsistent
  <2>2. QED
    BY <1>0, <1>3, <2>1 DEF Submit, Absent
<1>4. ASSUME NEW k \in Job, Cancel(k) PROVE FALSE
  BY <1>0, <1>4 DEF Cancel, Release, Row
<1>5. ASSUME NEW w \in Worker, Heartbeat(w) \/ Complete(w) \/ Fail(w) PROVE FALSE
  <2>1. held[w].job \in Job /\ jobs[held[w].job] \in Row /\ held[w].since \in Nat
    BY <1>5, HeldType DEF Heartbeat, Complete, Fail
  <2>2. \A now \in Nat, retryable \in BOOLEAN :
           Failed(held[w].job, jobs[held[w].job], retryable, now).attempt = jobs[held[w].job].attempt
    BY <2>1, FailedRow
  <2>3. \A now : Extended(jobs[held[w].job], now).attempt = jobs[held[w].job].attempt
    BY <2>1 DEF Extended, Row
  <2>4. \A state, now, scheduled :
           Release(jobs[held[w].job], state, now, scheduled).attempt = jobs[held[w].job].attempt
    BY <2>1 DEF Release, Row
  <2>5. CASE Heartbeat(w)
    BY <1>0, <2>1, <2>3, <2>5 DEF Heartbeat, Refused
  <2>6. CASE Complete(w)
    BY <1>0, <2>1, <2>4, <2>6 DEF Complete, Refused
  <2>7. CASE Fail(w)
    BY <1>0, <2>1, <2>2, <2>7, TimesReadBounds DEF Fail, Refused
  <2>8. QED
    BY <1>5, <2>5, <2>6, <2>7
<1>6. ~Reap
  BY <1>1 DEF Reap, SchedulerTypeOK
<1>7. ASSUME NEW w \in Worker, Crash(w) PROVE FALSE
  BY <1>7 DEF Crash
<1>8. ~Tick /\ ~UNCHANGED schedulerVars
  BY DEF Tick, schedulerVars
<1>9. PICK w \in Worker : Claim(w)
  BY <1>3, <1>4, <1>5, <1>6, <1>7, <1>8 DEF SchedulerNext
<1>10. QED
  BY <1>2, <1>9

\* Dependencies: an attempt begins when all are succeeded, and they stay so.
LEMMA DependencyStep ==
    ASSUME SchedulerTypeOK, \A k \in Job : RowOK(k, jobs[k]), DependencyOrder, [SchedulerNext]_schedulerVars
    PROVE  DependencyOrder'
<1> SUFFICES ASSUME NEW j \in Job, jobs'[j].attempt > 0, NEW d \in dependencies[j]
             PROVE  jobs'[d].state = "succeeded"
  BY DEF DependencyOrder
<1>1. d \in Job
  BY ParametersAssumption
<1>2. jobs[d].state = "succeeded"
  <2>1. CASE jobs'[j].attempt = jobs[j].attempt
    BY <2>1 DEF DependencyOrder
  <2>2. CASE jobs'[j].attempt # jobs[j].attempt
    <3>1. PICK w \in Worker, now \in Nat : j \in Ready(ReapExpired(now), w, now)
      BY <2>2, AttemptsBeginInClaim
    <3>2. ReapExpired(now)[d].state = "succeeded" /\ jobs[d] \in Row
      BY <1>1, <3>1 DEF Ready, SchedulerTypeOK
    <3>3. CASE Expired(jobs[d], now)
      BY <1>1, <3>2, <3>3, ReapExpiredRows, ReapedRow
    <3>4. CASE ~Expired(jobs[d], now)
      BY <1>1, <3>2, <3>4, ReapExpiredRows
    <3>5. QED
      BY <3>3, <3>4
  <2>3. QED
    BY <2>1, <2>2
<1>3. QED
  BY <1>1, <1>2, FinalRowsFrozen DEF Final

-----------------------------------------------------------------------------
(* The table and the workers' memory.                                        *)

\* A worker that does not act keeps agreeing with the table, if its job's row
\* stays, or goes to another owner or to none only when the lease has run out,
\* or is cancelled.
LEMMA BystanderAgrees ==
    ASSUME SchedulerTypeOK, SchedulerTypeOK', NEW v \in Worker, held[v] # NoLease, Agrees(v),
           held'[v] = held[v], clock <= clock',
           LET old == jobs[held[v].job]
               new == jobs'[held[v].job]
           IN  \/ new = old
               \/ /\ new.attempt >= old.attempt
                  /\ new.state # "running" \/ new.lease_owner # v
                  /\ \/ held[v].until <= clock
                     \/ new.state = "cancelled" /\ new.attempt = old.attempt
    PROVE  Agrees(v)'
<1>1. /\ held[v].since \in Nat /\ held[v].until \in Nat /\ held[v].attempt \in Nat
      /\ jobs[held[v].job].attempt \in Nat /\ jobs'[held[v].job].attempt \in Nat
      /\ clock \in Nat /\ clock' \in Nat
  BY HeldType DEF SchedulerTypeOK, Row
<1>2. CASE jobs'[held[v].job] = jobs[held[v].job]
  BY <1>1, <1>2 DEF Agrees, Owns
<1>3. CASE jobs'[held[v].job] # jobs[held[v].job]
  BY <1>1, <1>3 DEF Agrees, Owns
<1>4. QED
  BY <1>2, <1>3

\* What the reaper does to the row of a lease that somebody remembers.
LEMMA ReaperAgrees ==
    ASSUME SchedulerTypeOK, NEW v \in Worker, held[v] # NoLease, Agrees(v),
           NEW now \in Nat, now <= clock,
           Expired(jobs[held[v].job], now)
    PROVE  held[v].until <= clock
<1>1. held[v].until \in Nat /\ clock \in Nat /\ jobs[held[v].job].lease_until \in Nat
  BY HeldType DEF SchedulerTypeOK, Row
<1>2. QED
  BY <1>1 DEF Agrees, Expired

\* Any step, seen by a worker v that does not act in it.
LEMMA BystanderStep ==
    ASSUME SchedulerTypeOK, SchedulerTypeOK', \A k \in Job : RowOK(k, jobs[k]), [SchedulerNext]_schedulerVars,
           NEW v \in Worker, held[v] # NoLease, Agrees(v), held'[v] = held[v]
    PROVE  Agrees(v)' \/ \E w \in Worker : Heartbeat(w) /\ w = v
<1> DEFINE h == held[v].job
<1>0. /\ h \in Job /\ jobs \in [Job -> Row] /\ jobs[h] \in Row /\ clock \in Nat
      /\ held[v].until \in Nat /\ jobs[h].attempt \in Nat
  BY HeldType DEF SchedulerTypeOK, Row
<1>1. ASSUME NEW j \in Job, Submit(j) PROVE Agrees(v)'
  <2>1. CASE j # h
    BY <1>0, <1>1, <2>1, BystanderAgrees DEF Submit
  <2>2. CASE j = h
    <3>1. jobs[h].state = "absent" /\ jobs[h].attempt = 0
      BY <1>1, <2>2 DEF Submit, RowOK, RowConsistent
    <3>2. held[v].until <= clock
      BY <3>1 DEF Agrees, Owns
    <3>3. jobs'[h].state = "queued" /\ jobs'[h].attempt = 0
      BY <1>0, <1>1, <2>2 DEF Submit, Absent
    <3>4. QED
      BY <1>0, <1>1, <3>1, <3>2, <3>3, BystanderAgrees DEF Submit
  <2>3. QED
    BY <2>1, <2>2
<1>2. ASSUME NEW j \in Job, Cancel(j) PROVE Agrees(v)'
  <2>1. CASE j # h
    BY <1>0, <1>2, <2>1, BystanderAgrees DEF Cancel
  <2>2. CASE j = h
    <3>1. jobs'[h].state = "cancelled" /\ jobs'[h].attempt = jobs[h].attempt
      <4>1. PICK scheduled : jobs' = [jobs EXCEPT ![h] = Release(jobs[h], "cancelled", clock, scheduled)]
        BY <1>2, <2>2 DEF Cancel
      <4>2. jobs'[h] = Release(jobs[h], "cancelled", clock, scheduled)
        BY <1>0, <4>1
      <4>3. QED
        <5>1. jobs[h] \in Row
          BY <1>0
        <5>2. /\ jobs'[h].state = Release(jobs[h], "cancelled", clock, scheduled).state
              /\ jobs'[h].attempt = Release(jobs[h], "cancelled", clock, scheduled).attempt
          BY <4>2
        <5>3. QED
          BY <5>1, <5>2, ReleaseFields
    <3>2. clock' = clock
      BY <1>2 DEF Cancel
    <3>3. /\ jobs'[h].attempt >= jobs[h].attempt /\ jobs'[h].state # "running"
          /\ jobs'[h].state = "cancelled" /\ jobs'[h].attempt = jobs[h].attempt
      BY <1>0, <3>1
    <3>4. QED
      BY <1>0, <3>2, <3>3, BystanderAgrees
  <2>3. QED
    BY <2>1, <2>2
<1>3. ASSUME NEW now \in Nat, now <= clock
      PROVE  /\ ReapExpired(now)[h] \in Row
             /\ ReapExpired(now)[h].attempt = jobs[h].attempt
             /\ \/ ReapExpired(now)[h] = jobs[h]
                \/ ReapExpired(now)[h].state # "running" /\ held[v].until <= clock
  <2>1. CASE Expired(jobs[h], now)
    <3>1. /\ Reaped(h, jobs[h], now) \in Row /\ Reaped(h, jobs[h], now).state # "running"
          /\ Reaped(h, jobs[h], now).attempt = jobs[h].attempt
      BY <1>0, <1>3, ReapedRow
    <3>2. held[v].until <= clock
      BY <1>3, <2>1, ReaperAgrees
    <3>3. QED
      BY <1>0, <1>3, <2>1, <3>1, <3>2, ReapExpiredRows
  <2>2. CASE ~Expired(jobs[h], now)
    BY <1>0, <1>3, <2>2, ReapExpiredRows
  <2>3. QED
    BY <2>1, <2>2
<1>4. ASSUME NEW w \in Worker, Claim(w) PROVE Agrees(v)'
  <2>1. PICK now \in TimesRead(1) :
           \/ jobs' = ReapExpired(now) /\ UNCHANGED held
           \/ \E k \in Ready(ReapExpired(now), w, now) :
                 /\ jobs' = [ReapExpired(now) EXCEPT ![k] = Claimed(@, w, now)]
                 /\ held' = [held EXCEPT ![w] =
                       [job |-> k, attempt |-> ReapExpired(now)[k].attempt + 1,
                        since |-> clock, until |-> now + LeaseSeconds]]
    BY <1>4 DEF Claim
  <2>2. now \in Nat /\ now <= clock /\ ReapExpired(now) \in [Job -> Row] /\ clock' = clock
    BY <1>4, TimesReadBounds, ReapExpiredRows DEF Claim
  <2>3. CASE jobs'[h] = ReapExpired(now)[h]
    BY <1>0, <1>3, <2>2, <2>3, BystanderAgrees
  <2>4. CASE jobs'[h] # ReapExpired(now)[h]
    <3>1. /\ h \in Ready(ReapExpired(now), w, now)
          /\ jobs'[h] = Claimed(ReapExpired(now)[h], w, now)
      BY <1>0, <2>1, <2>2, <2>4
    <3>2. /\ ReapExpired(now)[h].state = "queued" /\ ReapExpired(now)[h] \in Row
          /\ ReapExpired(now)[h].attempt = jobs[h].attempt
      BY <1>3, <2>2, <3>1 DEF Ready
    <3>3. jobs'[h].lease_owner = w /\ jobs'[h].attempt = jobs[h].attempt + 1
      BY <2>2, <3>1, <3>2, ClaimedRow
    <3>4. held[v].until <= clock
      <4>1. CASE ReapExpired(now)[h] = jobs[h]
        BY <3>2, <4>1 DEF Agrees, Owns
      <4>2. CASE ReapExpired(now)[h] # jobs[h]
        BY <1>3, <2>2, <4>2
      <4>3. QED
        BY <4>1, <4>2
    <3>5. w # v
      BY <1>4 DEF Claim
    <3>6. QED
      BY <1>0, <2>2, <3>3, <3>4, <3>5, BystanderAgrees
  <2>5. QED
    BY <2>3, <2>4
<1>5. ASSUME NEW w \in Worker, w # v, Heartbeat(w) \/ Complete(w) \/ Fail(w) PROVE Agrees(v)'
  <2>0. /\ held[w].job \in Job /\ jobs[held[w].job] \in Row
        /\ held[w].since \in Nat /\ clock' = clock
    BY <1>5, HeldType DEF Heartbeat, Complete, Fail, Refused
  <2>1. CASE jobs'[h] = jobs[h]
    BY <1>0, <2>0, <2>1, BystanderAgrees
  <2>2. CASE jobs'[h] # jobs[h]
    <3>1. Owns(w) /\ held[w].job = h
      BY <1>0, <1>5, <2>0, <2>2 DEF Heartbeat, Complete, Fail, Refused
    <3>2. jobs[h].state = "running" /\ jobs[h].lease_owner = w
      BY <3>1 DEF Owns
    <3>3. held[v].until <= clock
      BY <1>5, <3>2 DEF Agrees, Owns
    <3>4. jobs'[h].attempt = jobs[h].attempt /\ jobs'[h].lease_owner \in {w, NoWorker}
      <4>1. CASE Heartbeat(w)
        <5>1. PICK now \in TimesRead(held[w].since) : jobs' = [jobs EXCEPT ![h] = Extended(@, now)]
          BY <3>1, <4>1 DEF Heartbeat, Refused
        <5>2. jobs'[h] = Extended(jobs[h], now)
          BY <1>0, <5>1
        <5>3. QED
          BY <1>0, <3>2, <5>2 DEF Extended, Row
      <4>2. CASE Complete(w)
        <5>1. jobs'[h] = Release(jobs[h], "succeeded", clock, jobs[h].scheduled_at)
          BY <1>0, <3>1, <4>2 DEF Complete, Refused
        <5>2. QED
          BY <1>0, <5>1 DEF Release, Row
      <4>3. CASE Fail(w)
        <5>1. PICK now \in TimesRead(held[w].since), retryable \in BOOLEAN :
                 jobs' = [jobs EXCEPT ![h] = Failed(h, @, retryable, now)]
          BY <3>1, <4>3 DEF Fail, Refused
        <5>2. now \in Nat
          BY <2>0, TimesReadBounds
        <5>3. QED
          BY <1>0, <5>1, <5>2, FailedRow
      <4>4. QED
        BY <1>5, <4>1, <4>2, <4>3
    <3>5. v # NoWorker
      BY ParametersAssumption
    <3>6. QED
      BY <1>0, <1>5, <2>0, <3>3, <3>4, <3>5, BystanderAgrees
  <2>3. QED
    BY <2>1, <2>2
<1>6. CASE Complete(v) \/ Fail(v) \/ Crash(v)
  BY <1>6 DEF Complete, Fail, Crash, Refused, SchedulerTypeOK
<1>7. ASSUME NEW w \in Worker, Crash(w) PROVE Agrees(v)'
  BY <1>0, <1>7, BystanderAgrees DEF Crash
<1>8. CASE Reap
  BY <1>0, <1>3, <1>8, BystanderAgrees DEF Reap
<1>9. CASE Tick \/ UNCHANGED schedulerVars
  BY <1>0, <1>9, BystanderAgrees DEF Tick, schedulerVars
<1>10. QED
  <2>1. CASE UNCHANGED schedulerVars
    BY <1>9, <2>1
  <2>2. CASE SchedulerNext
    <3>1. ASSUME NEW w \in Worker, Heartbeat(w) \/ Complete(w) \/ Fail(w)
          PROVE  Agrees(v)' \/ (Heartbeat(w) /\ w = v)
      BY <1>5, <1>6, <3>1
    <3>2. QED
      BY <1>1, <1>2, <1>4, <1>7, <1>8, <1>9, <2>2, <3>1 DEF SchedulerNext
  <2>3. QED
    BY <2>1, <2>2

\* What a claim gives a worker: the next attempt of a job nobody runs.
LEMMA ClaimGives ==
    ASSUME SchedulerTypeOK, NEW w \in Worker, Claim(w), held'[w] # NoLease
    PROVE  \E now \in Nat : \E j \in Job :
              /\ now <= clock
              /\ j \in Ready(ReapExpired(now), w, now)
              /\ jobs' = [ReapExpired(now) EXCEPT ![j] = Claimed(@, w, now)]
              /\ held' = [held EXCEPT ![w] =
                    [job |-> j, attempt |-> jobs[j].attempt + 1,
                     since |-> clock, until |-> now + LeaseSeconds]]
              /\ jobs'[j].state = "running" /\ jobs'[j].lease_owner = w
              /\ jobs'[j].attempt = jobs[j].attempt + 1
              /\ jobs'[j].lease_until = now + LeaseSeconds
<1>1. PICK now \in TimesRead(1) :
         \/ jobs' = ReapExpired(now) /\ UNCHANGED held
         \/ \E j \in Ready(ReapExpired(now), w, now) :
               /\ jobs' = [ReapExpired(now) EXCEPT ![j] = Claimed(@, w, now)]
               /\ held' = [held EXCEPT ![w] =
                     [job |-> j, attempt |-> ReapExpired(now)[j].attempt + 1,
                      since |-> clock, until |-> now + LeaseSeconds]]
  BY DEF Claim
<1>2. now \in Nat /\ now <= clock /\ ReapExpired(now) \in [Job -> Row] /\ held[w] = NoLease
  BY TimesReadBounds, ReapExpiredRows DEF Claim
<1>3. PICK j \in Ready(ReapExpired(now), w, now) :
         /\ jobs' = [ReapExpired(now) EXCEPT ![j] = Claimed(@, w, now)]
         /\ held' = [held EXCEPT ![w] =
               [job |-> j, attempt |-> ReapExpired(now)[j].attempt + 1,
                since |-> clock, until |-> now + LeaseSeconds]]
  BY <1>1, <1>2
<1>4. j \in Job
  BY ParametersAssumption DEF Ready
<1>5. jobs[j] \in Row /\ ReapExpired(now)[j] \in Row
  BY <1>2, <1>4 DEF SchedulerTypeOK
<1>6. ReapExpired(now)[j].attempt = jobs[j].attempt
  <2>1. CASE Expired(jobs[j], now)
    BY <1>2, <1>4, <1>5, <2>1, ReapExpiredRows, ReapedRow
  <2>2. CASE ~Expired(jobs[j], now)
    BY <1>2, <1>4, <2>2, ReapExpiredRows
  <2>3. QED
    BY <2>1, <2>2
<1>7. jobs'[j] = Claimed(ReapExpired(now)[j], w, now)
  BY <1>2, <1>3, <1>4
<1>8. /\ jobs'[j].state = "running" /\ jobs'[j].lease_owner = w
      /\ jobs'[j].attempt = jobs[j].attempt + 1
      /\ jobs'[j].lease_until = now + LeaseSeconds
  BY <1>2, <1>5, <1>6, <1>7, ClaimedRow
<1>9. held' = [held EXCEPT ![w] =
         [job |-> j, attempt |-> jobs[j].attempt + 1,
          since |-> clock, until |-> now + LeaseSeconds]]
  BY <1>3, <1>6
<1>10. QED
  BY <1>2, <1>3, <1>4, <1>8, <1>9, ZenonT(30)

\* A worker's lease keeps its job and its attempt until the worker lets it go.
LEMMA LeaseStep ==
    ASSUME SchedulerTypeOK, [SchedulerNext]_schedulerVars, NEW v \in Worker, held'[v] # NoLease
    PROVE  \/ /\ held[v] # NoLease
              /\ held'[v].job = held[v].job /\ held'[v].attempt = held[v].attempt
           \/ Claim(v) /\ held[v] = NoLease
<1>0. held \in [Worker -> Lease \cup {NoLease}]
  BY DEF SchedulerTypeOK
<1>1. ASSUME NEW w \in Worker, w # v,
             Claim(w) \/ Heartbeat(w) \/ Complete(w) \/ Fail(w) \/ Crash(w)
      PROVE  held'[v] = held[v]
  BY <1>0, <1>1 DEF Claim, Heartbeat, Complete, Fail, Crash, Refused
<1>2. CASE Heartbeat(v)
  <2>1. ~Refused(v) /\ held[v] # NoLease /\ held[v] \in Lease
    BY <1>0, <1>2 DEF Heartbeat, Refused
  <2>2. PICK now \in TimesRead(held[v].since) :
           held' = [held EXCEPT ![v].since = clock, ![v].until = now + LeaseSeconds]
    BY <1>2, <2>1 DEF Heartbeat
  <2>3. held'[v] = [held[v] EXCEPT !.since = clock, !.until = now + LeaseSeconds]
    BY <1>0, <2>2
  <2>4. QED
    BY <2>1, <2>3 DEF Lease
<1>3. CASE Claim(v)
  BY <1>3 DEF Claim
<1>4. CASE Complete(v) \/ Fail(v) \/ Crash(v)
  BY <1>0, <1>4 DEF Complete, Fail, Crash, Refused
<1>5. CASE \/ \E j \in Job : Submit(j) \/ Cancel(j)
           \/ Reap \/ Tick \/ UNCHANGED schedulerVars
  BY <1>5 DEF Submit, Cancel, Reap, Tick, schedulerVars
<1>6. QED
  BY <1>1, <1>2, <1>3, <1>4, <1>5 DEF SchedulerNext

\* A worker that has just extended its lease agrees with the table.
LEMMA HeartbeatAgrees ==
    ASSUME SchedulerTypeOK, NEW v \in Worker, held[v] # NoLease, Agrees(v), Heartbeat(v),
           held'[v] # NoLease
    PROVE  Agrees(v)'
<1> DEFINE h == held[v].job
<1>0. /\ h \in Job /\ jobs[h] \in Row /\ held[v] \in Lease
      /\ jobs \in [Job -> Row] /\ held \in [Worker -> Lease \cup {NoLease}]
      /\ clock \in Nat \ {0} /\ held[v].since \in Nat /\ held[v].attempt \in Nat
  BY HeldType DEF SchedulerTypeOK
<1>1. ~Refused(v)
  BY <1>0 DEF Refused
<1>2. Owns(v) /\ clock' = clock
  BY <1>1 DEF Heartbeat
<1>3. PICK now \in TimesRead(held[v].since) :
         /\ jobs' = [jobs EXCEPT ![h] = Extended(@, now)]
         /\ held' = [held EXCEPT ![v].since = clock, ![v].until = now + LeaseSeconds]
  BY <1>1 DEF Heartbeat
<1>4. held'[v] = [held[v] EXCEPT !.since = clock, !.until = now + LeaseSeconds]
  BY <1>0, <1>3
<1>5. /\ held'[v].job = h /\ held'[v].attempt = held[v].attempt
      /\ held'[v].since = clock /\ held'[v].until = now + LeaseSeconds
  BY <1>0, <1>4 DEF Lease
<1>6. jobs'[h] = Extended(jobs[h], now)
  BY <1>0, <1>3
<1>7. /\ jobs'[h].state = "running" /\ jobs'[h].lease_owner = v
      /\ jobs'[h].attempt = held[v].attempt /\ jobs'[h].lease_until = now + LeaseSeconds
  BY <1>0, <1>2, <1>6 DEF Extended, Row, Owns, Agrees
<1>8. QED
  BY <1>0, <1>2, <1>5, <1>7 DEF Agrees, Owns

\* A worker that has just claimed a job agrees with the table.
LEMMA ClaimAgrees ==
    ASSUME SchedulerTypeOK, NEW v \in Worker, Claim(v), held'[v] # NoLease
    PROVE  Agrees(v)'
<1>1. PICK now \in Nat, j \in Job :
         /\ held' = [held EXCEPT ![v] =
               [job |-> j, attempt |-> jobs[j].attempt + 1,
                since |-> clock, until |-> now + LeaseSeconds]]
         /\ jobs'[j].state = "running" /\ jobs'[j].lease_owner = v
         /\ jobs'[j].attempt = jobs[j].attempt + 1
         /\ jobs'[j].lease_until = now + LeaseSeconds
  BY ClaimGives
<1>2. /\ held'[v].job = j /\ held'[v].attempt = jobs[j].attempt + 1
      /\ held'[v].since = clock /\ held'[v].until = now + LeaseSeconds
  BY <1>1 DEF SchedulerTypeOK
<1>3. clock' = clock /\ clock \in Nat \ {0} /\ jobs[j].attempt \in Nat
  BY DEF Claim, SchedulerTypeOK, Row
<1>4. QED
  BY <1>1, <1>2, <1>3 DEF Agrees, Owns

\* The table and the workers' memory keep agreeing, and attempts stay exclusive.
LEMMA AgreementStep ==
    ASSUME SchedulerTypeOK, SchedulerTypeOK', \A k \in Job : RowOK(k, jobs[k]), LeaseAgreement, [SchedulerNext]_schedulerVars
    PROVE  LeaseAgreement'
<1>1. ASSUME NEW v \in Worker, held'[v] # NoLease PROVE Agrees(v)'
  <2>1. CASE Claim(v) /\ held[v] = NoLease
    BY <1>1, <2>1, ClaimAgrees
  <2>2. CASE held[v] # NoLease
    <3>1. Agrees(v)
      BY <2>2 DEF LeaseAgreement
    <3>2. CASE Heartbeat(v)
      BY <1>1, <2>2, <3>1, <3>2, HeartbeatAgrees
    <3>3. CASE ~Heartbeat(v)
      <4>1. held'[v] = held[v]
        BY <1>1, <2>2, <3>3 DEF SchedulerNext, schedulerVars, SchedulerTypeOK, Submit, Cancel, Claim, Heartbeat,
              Complete, Fail, Crash, Refused, Reap, Tick
      <4>2. QED
        BY <2>2, <3>1, <3>3, <4>1, BystanderStep
    <3>4. QED
      BY <3>2, <3>3
  <2>3. QED
    BY <1>1, <2>1, <2>2, LeaseStep
<1>2. ASSUME NEW v \in Worker, NEW w \in Worker, v # w,
             held'[v] # NoLease, held'[w] # NoLease, held'[v].job = held'[w].job,
             Claim(v), held[v] = NoLease
      PROVE  held'[v].attempt # held'[w].attempt
  <2>1. PICK now \in Nat, j \in Job :
           held' = [held EXCEPT ![v] =
               [job |-> j, attempt |-> jobs[j].attempt + 1,
                since |-> clock, until |-> now + LeaseSeconds]]
    BY <1>2, ClaimGives
  <2>2. held'[v].job = j /\ held'[v].attempt = jobs[j].attempt + 1 /\ held'[w] = held[w]
    BY <1>2, <2>1 DEF SchedulerTypeOK
  <2>3. Agrees(w) /\ held[w].job = j /\ held[w].attempt \in Nat /\ jobs[j].attempt \in Nat
    BY <1>2, <2>2, HeldType DEF LeaseAgreement, Row
  <2>4. held[w].attempt <= jobs[j].attempt
    BY <2>3 DEF Agrees
  <2>5. QED
    BY <2>2, <2>3, <2>4
<1>3. ASSUME NEW v \in Worker, NEW w \in Worker, v # w,
             held'[v] # NoLease, held'[w] # NoLease, held'[v].job = held'[w].job
      PROVE  held'[v].attempt # held'[w].attempt
  <2>1. CASE Claim(v) /\ held[v] = NoLease
    BY <1>2, <1>3, <2>1
  <2>2. CASE Claim(w) /\ held[w] = NoLease
    BY <1>2, <1>3, <2>2
  <2>3. CASE /\ held[v] # NoLease /\ held'[v].job = held[v].job /\ held'[v].attempt = held[v].attempt
             /\ held[w] # NoLease /\ held'[w].job = held[w].job /\ held'[w].attempt = held[w].attempt
    BY <1>3, <2>3 DEF LeaseAgreement
  <2>4. QED
    BY <1>3, <2>1, <2>2, <2>3, LeaseStep
<1>4. QED
  BY <1>1, <1>3 DEF LeaseAgreement

-----------------------------------------------------------------------------
(* The inductive invariant, and the invariants it implies.                   *)

\* Leases alone are not inductive: that a reaped lease has run out in its
\* worker's memory needs both the table and the memory, and that no attempt
\* precedes its dependencies needs that finished rows are never touched again.
IInv ==
    /\ SchedulerTypeOK
    /\ \A j \in Job : RowOK(j, jobs[j])
    /\ DependencyOrder
    /\ LeaseAgreement

LEMMA IInvInit == SchedulerInit => IInv
<1> SUFFICES ASSUME SchedulerInit PROVE IInv
  OBVIOUS
<1>1. SchedulerTypeOK
  BY TypeInit
<1>2. \A j \in Job : RowOK(j, jobs[j])
  BY DEF SchedulerInit, Absent, RowOK, RowConsistent
<1>3. DependencyOrder
  BY DEF SchedulerInit, Absent, DependencyOrder
<1>4. LeaseAgreement
  BY DEF SchedulerInit, LeaseAgreement
<1>5. QED
  BY <1>1, <1>2, <1>3, <1>4 DEF IInv

LEMMA IInvStep == IInv /\ [SchedulerNext]_schedulerVars => IInv'
<1> SUFFICES ASSUME IInv, [SchedulerNext]_schedulerVars PROVE IInv'
  OBVIOUS
<1>1. SchedulerTypeOK /\ (\A j \in Job : RowOK(j, jobs[j])) /\ DependencyOrder /\ LeaseAgreement
  BY DEF IInv
<1>2. SchedulerTypeOK'
  BY <1>1, TypeStep
<1>3. \A j \in Job : RowOK(j, jobs'[j])
  BY <1>1, RowsStep
<1>4. DependencyOrder'
  BY <1>1, DependencyStep
<1>5. LeaseAgreement'
  BY <1>1, <1>2, AgreementStep
<1>6. QED
  BY <1>2, <1>3, <1>4, <1>5 DEF IInv

LEMMA Invariance == SchedulerSpec => []IInv
BY IInvInit, IInvStep, PTL DEF SchedulerSpec

\* A row has an owner and a lease exactly while its job runs (claim, fail,
\* complete, cancel and _reap_expired agree about it).
THEOREM RowsStayConsistent == SchedulerSpec => []RowsConsistent
<1>1. IInv => RowsConsistent
  BY DEF IInv, RowOK, RowsConsistent
<1>2. QED
  BY <1>1, Invariance, PTL

\* No job is attempted more often than its max_attempts, and exactly the
\* exhausted ones become dead letters (claim, fail, _reap_expired).
THEOREM AttemptBudgetKept == SchedulerSpec => []AttemptBudget
<1>1. IInv => AttemptBudget
  BY DEF IInv, RowOK, AttemptBudget
<1>2. QED
  BY <1>1, Invariance, PTL

\* No attempt begins before every dependency has succeeded (claim).
THEOREM DependenciesFirst == SchedulerSpec => []DependencyOrder
<1>1. IInv => DependencyOrder
  BY DEF IInv
<1>2. QED
  BY <1>1, Invariance, PTL

\* What a worker remembers of its lease and what the table says never conflict
\* while the lease lasts (claim, heartbeat, _reap_expired).
THEOREM LeasesAgree == SchedulerSpec => []LeaseAgreement
<1>1. IInv => LeaseAgreement
  BY DEF IInv
<1>2. QED
  BY <1>1, Invariance, PTL

\* Two workers never execute the same job, each within its lease.
THEOREM ExecutionExclusive == SchedulerSpec => []ExclusiveExecution
<1>1. IInv => ExclusiveExecution
  <2> SUFFICES ASSUME IInv, NEW v \in Worker, NEW w \in Worker, v # w,
                      held[v] # NoLease, held[w] # NoLease, held[v].job = held[w].job
               PROVE  held[v].until <= clock \/ held[w].until <= clock
    BY DEF ExclusiveExecution
  <2>1. Agrees(v) /\ Agrees(w) /\ held[v].attempt # held[w].attempt
    BY DEF IInv, LeaseAgreement
  <2>2. /\ held[v].attempt \in Nat /\ held[w].attempt \in Nat
        /\ jobs[held[v].job].attempt \in Nat
    BY HeldType DEF IInv, Row
  <2>3. \/ held[v].attempt < jobs[held[v].job].attempt
        \/ held[w].attempt < jobs[held[w].job].attempt
    BY <2>1, <2>2 DEF Agrees
  <2>4. QED
    BY <2>1, <2>3 DEF Agrees
<1>2. QED
  BY <1>1, Invariance, PTL

-----------------------------------------------------------------------------
(* What a step may never do.                                                 *)

\* A late result is never taken for a later attempt's (complete, fail).
THEOREM ResultsFenced == SchedulerSpec => FencedResult
<1>1. IInv /\ [SchedulerNext]_schedulerVars =>
        [\A w \in Worker :
            (held[w] # NoLease /\ jobs'[held[w].job] # jobs[held[w].job] /\ held'[w] = NoLease)
            => held[w].attempt = jobs[held[w].job].attempt]_schedulerVars
  <2> SUFFICES ASSUME IInv, [SchedulerNext]_schedulerVars, NEW w \in Worker, held[w] # NoLease,
                      jobs'[held[w].job] # jobs[held[w].job], held'[w] = NoLease
               PROVE  held[w].attempt = jobs[held[w].job].attempt
    OBVIOUS
  <2>1. Agrees(w) /\ held \in [Worker -> Lease \cup {NoLease}]
    BY DEF IInv, LeaseAgreement, SchedulerTypeOK
  <2>2. CASE Heartbeat(w) \/ Complete(w) \/ Fail(w)
    BY <2>1, <2>2 DEF Agrees, Heartbeat, Complete, Fail, Refused
  <2>3. CASE ~(Heartbeat(w) \/ Complete(w) \/ Fail(w))
    BY <2>1, <2>3 DEF SchedulerNext, schedulerVars, Submit, Cancel, Claim, Heartbeat, Complete, Fail, Crash,
                      Refused, Reap, Tick
  <2>4. QED
    BY <2>2, <2>3
<1>2. QED
  BY <1>1, Invariance, PTL DEF SchedulerSpec, FencedResult

\* Submission and cancellation change one row, and never to running.
LEMMA SubmittedOrCancelled ==
    ASSUME jobs \in [Job -> Row], NEW j \in Job, NEW k \in Job, Submit(k) \/ Cancel(k)
    PROVE  \/ jobs'[j] = jobs[j]
           \/ jobs[j].state = "absent" /\ jobs'[j].state = "queued"
           \/ jobs'[j].state = "cancelled"
<1>1. CASE Submit(k)
  <2>1. \E now, delay : jobs' = [jobs EXCEPT ![k] = [Absent EXCEPT !.state = "queued",
                !.scheduled_at = now + delay, !.created_at = now, !.updated_at = now]]
    BY <1>1 DEF Submit
  <2>2. jobs[k].state = "absent"
    BY <1>1 DEF Submit
  <2>3. QED
    BY <2>1, <2>2 DEF Absent
<1>2. CASE Cancel(k)
  <2>1. jobs' = [jobs EXCEPT ![k] = Release(jobs[k], "cancelled", clock, jobs[k].scheduled_at)]
    BY <1>2 DEF Cancel
  <2>2. Release(jobs[k], "cancelled", clock, jobs[k].scheduled_at).state = "cancelled"
    BY DEF Release, Row
  <2>3. QED
    BY <2>1, <2>2
<1>3. QED
  BY <1>1, <1>2

\* An unexpired lease ends only with its worker's answer, or by a cancel (reap and
\* claim take back leases by a time no later than the present).
THEOREM LeasesKept == SchedulerSpec => UnexpiredLeaseKept
<1>1. IInv /\ [SchedulerNext]_schedulerVars =>
        [\A j \in Job :
          (/\ jobs[j].state = "running"
           /\ jobs[j].lease_until > clock
           /\ jobs'[j].state \notin {"running", "cancelled"})
          => \E w \in Worker : held[w] # NoLease /\ held[w].job = j
                               /\ held[w].attempt = jobs[j].attempt /\ held'[w] = NoLease]_schedulerVars
  <2> SUFFICES ASSUME IInv, [SchedulerNext]_schedulerVars, NEW j \in Job, jobs[j].state = "running",
                      jobs[j].lease_until > clock,
                      jobs'[j].state \notin {"running", "cancelled"}
               PROVE  \E w \in Worker : held[w] # NoLease /\ held[w].job = j
                               /\ held[w].attempt = jobs[j].attempt /\ held'[w] = NoLease
    OBVIOUS
  <2>0. /\ SchedulerTypeOK /\ jobs \in [Job -> Row] /\ jobs[j] \in Row /\ clock \in Nat
        /\ jobs[j].lease_until \in Nat
    BY DEF IInv, SchedulerTypeOK, Row
  <2>1. ASSUME NEW now \in Nat, now <= clock PROVE ReapExpired(now)[j] = jobs[j]
    BY <2>0, <2>1, ReapExpiredRows DEF Expired
  <2>2. ASSUME NEW w \in Worker, Claim(w) PROVE FALSE
    <3>1. PICK now \in TimesRead(1) :
             \/ jobs' = ReapExpired(now)
             \/ \E k \in Ready(ReapExpired(now), w, now) :
                   jobs' = [ReapExpired(now) EXCEPT ![k] = Claimed(@, w, now)]
      BY <2>2 DEF Claim
    <3>2. /\ now \in Nat /\ ReapExpired(now)[j] = jobs[j]
          /\ ReapExpired(now) \in [Job -> Row]
      BY <2>0, <2>1, TimesReadBounds, ReapExpiredRows
    <3>3. \A k \in Ready(ReapExpired(now), w, now) : k # j
      BY <3>2 DEF Ready
    <3>4. QED
      BY <3>1, <3>2, <3>3
  <2>3. ASSUME NEW k \in Job, Submit(k) \/ Cancel(k) PROVE FALSE
    BY <2>0, <2>3, SubmittedOrCancelled
  <2>4. ~Reap
    BY <2>0, <2>1 DEF Reap
  <2>5. ASSUME NEW w \in Worker, Heartbeat(w) PROVE FALSE
    <3>1. CASE Refused(w)
      BY <3>1 DEF Refused
    <3>2. CASE ~Refused(w)
      <4>1. PICK now \in TimesRead(held[w].since) :
               jobs' = [jobs EXCEPT ![held[w].job] = Extended(@, now)]
        BY <2>5, <3>2 DEF Heartbeat
      <4>2. Extended(jobs[j], now).state = "running"
        BY <2>0 DEF Extended, Row
      <4>3. QED
        BY <2>0, <4>1, <4>2
    <3>3. QED
      BY <3>1, <3>2
  <2>6. ASSUME NEW w \in Worker, Crash(w) PROVE FALSE
    BY <2>6 DEF Crash
  <2>7. PICK w \in Worker : Complete(w) \/ Fail(w)
    BY <2>2, <2>3, <2>4, <2>5, <2>6 DEF SchedulerNext, Tick, schedulerVars
  <2>8. held[w] # NoLease /\ held \in [Worker -> Lease \cup {NoLease}] /\ Agrees(w)
    BY <2>7 DEF Complete, Fail, IInv, SchedulerTypeOK, LeaseAgreement
  <2>9. Owns(w) /\ held[w].job = j
    BY <2>0, <2>7 DEF Complete, Fail, Refused
  <2>10. held[w].attempt = jobs[j].attempt /\ held'[w] = NoLease
    BY <2>7, <2>8, <2>9 DEF Agrees, Complete, Fail, Refused
  <2>11. QED
    BY <2>8, <2>9, <2>10
<1>2. QED
  BY <1>1, Invariance, PTL DEF SchedulerSpec, UnexpiredLeaseKept

-----------------------------------------------------------------------------
(* Concurrency.                                                              *)

\* A job runs only if it already did, or by a claim.
LEMMA OnlyClaimStarts ==
    ASSUME SchedulerTypeOK, SchedulerNext, ~\E w \in Worker : Claim(w), NEW j \in Job, jobs'[j].state = "running"
    PROVE  jobs[j].state = "running"
<1>0. jobs \in [Job -> Row] /\ jobs[j] \in Row /\ clock \in Nat
  BY DEF SchedulerTypeOK
<1>1. ASSUME NEW k \in Job, Submit(k) \/ Cancel(k) PROVE jobs[j].state = "running"
  BY <1>0, <1>1, SubmittedOrCancelled
<1>2. CASE Reap
  <2>1. jobs'[j] = IF Expired(jobs[j], clock) THEN Reaped(j, jobs[j], clock) ELSE jobs[j]
    BY <1>0, <1>2, ReapExpiredRows DEF Reap
  <2>2. QED
    BY <2>1 DEF Expired
<1>3. ASSUME NEW w \in Worker, Heartbeat(w) \/ Complete(w) \/ Fail(w)
      PROVE  jobs[j].state = "running"
  <2>1. jobs'[j] = jobs[j] \/ (Owns(w) /\ held[w].job = j)
    BY <1>0, <1>3 DEF Heartbeat, Complete, Fail, Refused
  <2>2. QED
    BY <2>1 DEF Owns
<1>4. ASSUME NEW w \in Worker, Crash(w) PROVE jobs[j].state = "running"
  BY <1>4 DEF Crash
<1>5. QED
  BY <1>1, <1>2, <1>3, <1>4 DEF SchedulerNext, Tick

\* Fewer running jobs stay within the limit; one more is within it if the claim
\* found the project below it.
LEMMA ConcurrencyStep ==
    ASSUME SchedulerTypeOK, ConcurrencyLimit, [SchedulerNext]_schedulerVars
    PROVE  ConcurrencyLimit'
<1> SUFFICES ASSUME NEW p \in Project PROVE Cardinality(Running(jobs', p)) <= Concurrency
  BY DEF ConcurrencyLimit, Running
<1>0. /\ jobs \in [Job -> Row] /\ Concurrency \in Nat
      /\ Cardinality(Running(jobs, p)) <= Concurrency
  BY ParametersAssumption DEF SchedulerTypeOK, ConcurrencyLimit
<1>1. \A rows : IsFiniteSet(Running(rows, p)) /\ Cardinality(Running(rows, p)) \in Nat
  BY JobsFinite, FS_Subset, FS_CardinalityType DEF Running
<1>2. ASSUME NEW rows, Running(rows, p) \subseteq Running(jobs, p)
      PROVE  Cardinality(Running(rows, p)) <= Concurrency
  BY <1>0, <1>1, <1>2, FS_Subset
<1>3. ASSUME NEW w \in Worker, Claim(w)
      PROVE  Cardinality(Running(jobs', p)) <= Concurrency
  <2>1. PICK now \in TimesRead(1) :
           \/ jobs' = ReapExpired(now)
           \/ \E k \in Ready(ReapExpired(now), w, now) :
                 jobs' = [ReapExpired(now) EXCEPT ![k] = Claimed(@, w, now)]
    BY <1>3 DEF Claim
  <2> DEFINE rows == ReapExpired(now)
  <2>2. now \in Nat /\ rows \in [Job -> Row]
    BY TimesReadBounds, ReapExpiredRows
  <2>3. Running(rows, p) \subseteq Running(jobs, p)
    BY <2>2, ReapExpiredRows DEF Running, Expired
  <2>4. CASE jobs' = rows
    BY <1>2, <2>3, <2>4
  <2>5. ASSUME NEW k \in Ready(rows, w, now), jobs' = [rows EXCEPT ![k] = Claimed(@, w, now)]
        PROVE  Cardinality(Running(jobs', p)) <= Concurrency
    <3>1. k \in Job /\ rows[k] \in Row
      BY <2>2, ParametersAssumption DEF Ready
    <3>2. jobs'[k].state = "running" /\ \A j \in Job : j # k => jobs'[j] = rows[j]
      BY <2>2, <2>5, <3>1, ClaimedRow
    <3>3. CASE project[k] # p
      <4>1. Running(jobs', p) = Running(rows, p)
        BY <3>2, <3>3 DEF Running
      <4>2. QED
        BY <1>2, <2>3, <4>1
    <3>4. CASE project[k] = p
      <4>1. Running(jobs', p) = Running(rows, p) \cup {k} /\ k \notin Running(rows, p)
        BY <3>1, <3>2, <3>4 DEF Running, Ready
      <4>2. Cardinality(Running(rows, p)) < Concurrency
        BY <3>4 DEF Ready
      <4>3. Cardinality(Running(rows, p) \cup {k}) = Cardinality(Running(rows, p)) + 1
        BY <1>1, <4>1, FS_AddElement
      <4>4. QED
        BY <1>0, <1>1, <4>1, <4>2, <4>3
    <3>5. QED
      BY <3>3, <3>4
  <2>6. QED
    BY <2>1, <2>4, <2>5
<1>4. CASE SchedulerNext /\ ~\E w \in Worker : Claim(w)
  <2>1. Running(jobs', p) \subseteq Running(jobs, p)
    BY <1>4, OnlyClaimStarts DEF Running
  <2>2. QED
    BY <1>2, <2>1
<1>5. CASE UNCHANGED schedulerVars
  BY <1>0, <1>5 DEF schedulerVars
<1>6. QED
  BY <1>3, <1>4, <1>5

\* No project ever runs more jobs than its limit (claim).
THEOREM ConcurrencyLimited == SchedulerSpec => []ConcurrencyLimit
<1>1. SchedulerInit => ConcurrencyLimit
  <2> SUFFICES ASSUME SchedulerInit, NEW p \in Project
               PROVE  Cardinality(Running(jobs, p)) <= Concurrency
    BY DEF ConcurrencyLimit
  <2>1. Running(jobs, p) = {}
    BY DEF SchedulerInit, Running, Absent
  <2>2. QED
    BY <2>1, FS_EmptySet, ParametersAssumption
<1>2. SchedulerTypeOK /\ ConcurrencyLimit /\ [SchedulerNext]_schedulerVars => ConcurrencyLimit'
  BY ConcurrencyStep
<1>3. QED
  BY <1>1, <1>2, TypeCorrect, PTL DEF SchedulerSpec
-----------------------------------------------------------------------------
(* The scheduler implements the queue that clients are promised: its initial *)
(* state is one of JobQueue's, and every step of it is a step of JobQueue.   *)

-----------------------------------------------------------------------------
(* Leases end within LeaseSeconds of the last time their worker was heard.   *)

LeasesShort ==
    \A w \in Worker : held[w] # NoLease => held[w].until <= held[w].since + LeaseSeconds

LEMMA LeasesShortStep ==
    ASSUME SchedulerTypeOK, LeasesShort, [SchedulerNext]_schedulerVars
    PROVE  LeasesShort'
<1> SUFFICES ASSUME NEW w \in Worker, held'[w] # NoLease
             PROVE  held'[w].until <= held'[w].since + LeaseSeconds
  BY DEF LeasesShort
<1>0. /\ held \in [Worker -> Lease \cup {NoLease}] /\ clock \in Nat /\ LeaseSeconds \in Nat
      /\ held[w] # NoLease => held[w].until <= held[w].since + LeaseSeconds
  BY ParametersAssumption DEF SchedulerTypeOK, LeasesShort
<1>1. CASE held'[w] = held[w]
  BY <1>0, <1>1
<1>2. CASE Claim(w)
  <2>1. PICK now \in Nat, j \in Job :
           /\ now <= clock
           /\ held' = [held EXCEPT ![w] =
                 [job |-> j, attempt |-> jobs[j].attempt + 1,
                  since |-> clock, until |-> now + LeaseSeconds]]
    BY <1>2, ClaimGives
  <2>2. held'[w].until = now + LeaseSeconds /\ held'[w].since = clock
    BY <1>0, <2>1
  <2>3. QED
    BY <1>0, <2>1, <2>2
<1>3. CASE Heartbeat(w)
  <2>1. held[w] # NoLease /\ ~Refused(w) /\ held[w] \in Lease
    BY <1>0, <1>3 DEF Heartbeat, Refused
  <2>2. PICK now \in TimesRead(held[w].since) :
           held' = [held EXCEPT ![w].since = clock, ![w].until = now + LeaseSeconds]
    BY <1>3, <2>1 DEF Heartbeat
  <2>3. held'[w] = [held[w] EXCEPT !.since = clock, !.until = now + LeaseSeconds]
    BY <1>0, <2>2
  <2>4. held'[w].until = now + LeaseSeconds /\ held'[w].since = clock
    BY <2>1, <2>3 DEF Lease
  <2>5. now \in Nat /\ now <= clock
    BY <2>1, HeldType, TimesReadBounds
  <2>6. QED
    BY <1>0, <2>4, <2>5
<1>4. CASE ~Claim(w) /\ ~Heartbeat(w)
  <2>1. ASSUME NEW v \in Worker, v # w,
               Claim(v) \/ Heartbeat(v) \/ Complete(v) \/ Fail(v) \/ Crash(v)
        PROVE  held'[w] = held[w]
    BY <1>0, <2>1 DEF Claim, Heartbeat, Complete, Fail, Crash, Refused
  <2>2. ~(Complete(w) \/ Fail(w) \/ Crash(w))
    BY <1>0 DEF Complete, Fail, Crash, Refused
  <2>3. CASE \/ \E j \in Job : Submit(j) \/ Cancel(j)
             \/ Reap \/ Tick \/ UNCHANGED schedulerVars
    BY <1>1, <2>3 DEF Submit, Cancel, Reap, Tick, schedulerVars
  <2>4. QED
    BY <1>1, <1>4, <2>1, <2>2, <2>3 DEF SchedulerNext
<1>5. QED
  BY <1>2, <1>3, <1>4

-----------------------------------------------------------------------------
(* How the rows of the table move, as the queue sees it.                     *)

LEMMA SameRow ==
    ASSUME NEW j \in Job, jobs'[j] = jobs[j] PROVE Queue!Same(j)
BY DEF Queue!Same

\* What the reaper does to a row: nothing, or its holder's time is up.
LEMMA ReapedJob ==
    ASSUME SchedulerTypeOK, NEW j \in Job, RowOK(j, jobs[j]), NEW now \in Nat, now <= clock,
           jobs'[j] = ReapExpired(now)[j]
    PROVE  Queue!Same(j) \/ Queue!TimedOut(j)
<1>0. jobs[j] \in Row /\ clock \in Nat /\ max_attempts[j] \in Nat
  BY ParametersAssumption DEF SchedulerTypeOK
<1>1. CASE ~Expired(jobs[j], now)
  BY <1>1, ReapExpiredRows, SameRow
<1>2. CASE Expired(jobs[j], now)
  <2>1. jobs'[j] = Reaped(j, jobs[j], now)
    BY <1>2, ReapExpiredRows
  <2>2. /\ jobs'[j].state = IF jobs[j].attempt < max_attempts[j] THEN "queued" ELSE "dead-letter"
        /\ jobs'[j].lease_owner = NoWorker /\ jobs'[j].attempt = jobs[j].attempt
    <3>1. PICK row \in Row : row = jobs[j]
      BY <1>0
    <3>2. /\ Reaped(j, row, now).state = IF row.attempt < max_attempts[j] THEN "queued" ELSE "dead-letter"
          /\ Reaped(j, row, now).lease_owner = NoWorker /\ Reaped(j, row, now).attempt = row.attempt
      BY ReapedRow
    <3>3. jobs'[j] = Reaped(j, row, now)
      BY <2>1, <3>1
    <3>4. QED
      BY <3>1, <3>2, <3>3
  <2>3. jobs'[j].lease_until = 0
    BY <1>0, <2>1 DEF Reaped, Release, Row
  <2>4. /\ jobs[j].state = "running" /\ jobs[j].lease_owner # NoWorker
        /\ jobs[j].lease_until \in Nat /\ jobs[j].lease_until <= clock
    BY <1>0, <1>2 DEF Expired, RowOK, RowConsistent, Row
  <2>5. Queue!GivenBack(j)
    BY <2>2, <2>3, <2>4 DEF Queue!GivenBack
  <2>6. QED
    BY <2>4, <2>5 DEF Queue!TimedOut
<1>3. QED
  BY <1>1, <1>2

\* One operation on one job is a step of the queue.
LEMMA OneOperation ==
    ASSUME NEW j \in Job, Queue!Operation(j), clock' = clock,
           \A k \in Job \ {j} : Queue!Same(k) \/ Queue!TimedOut(k)
    PROVE  Queue!Next
BY DEF Queue!Next

LEMMA OneRow ==
    ASSUME NEW j \in Job, NEW row, jobs' = [jobs EXCEPT ![j] = row], clock' = clock,
           SchedulerTypeOK, Queue!Operation(j)
    PROVE  Queue!Next
<1>1. \A k \in Job \ {j} : jobs'[k] = jobs[k]
  BY DEF SchedulerTypeOK
<1>2. \A k \in Job \ {j} : Queue!Same(k)
  BY <1>1, SameRow
<1>3. QED
  BY <1>2, OneOperation

-----------------------------------------------------------------------------
(* One lemma per operation.                                                  *)

LEMMA SubmitIsAdd ==
    ASSUME IInv, NEW j \in Job, Submit(j) PROVE Queue!Next
<1>0. SchedulerTypeOK /\ jobs \in [Job -> Row] /\ jobs[j].attempt = 0 /\ jobs[j].state = "absent"
  BY DEF IInv, SchedulerTypeOK, Submit, RowOK, RowConsistent
<1>1. PICK now \in TimesRead(1), delay \in Delays :
         jobs' = [jobs EXCEPT ![j] = [Absent EXCEPT !.state = "queued",
                     !.scheduled_at = now + delay, !.created_at = now, !.updated_at = now]]
  BY DEF Submit
<1>2. /\ jobs'[j].state = "queued" /\ jobs'[j].attempt = 0
      /\ jobs'[j].lease_owner = NoWorker /\ jobs'[j].lease_until = 0
  BY <1>0, <1>1 DEF Absent
<1>3. \A d \in dependencies[j] : d \in Job /\ jobs[d].state # "absent"
  BY ParametersAssumption DEF Submit
<1>4. Queue!Add(j)
  BY <1>0, <1>2, <1>3 DEF Queue!Add
<1>5. QED
  BY <1>0, <1>1, <1>4, OneRow DEF Submit, Queue!Operation

LEMMA CancelIsCallOff ==
    ASSUME IInv, NEW j \in Job, Cancel(j) PROVE Queue!Next
<1>0. SchedulerTypeOK /\ jobs \in [Job -> Row] /\ jobs[j] \in Row
  BY DEF IInv, SchedulerTypeOK
<1>1. jobs' = [jobs EXCEPT ![j] = Release(jobs[j], "cancelled", clock, jobs[j].scheduled_at)]
  BY DEF Cancel
<1>2. /\ jobs'[j].state = "cancelled" /\ jobs'[j].attempt = jobs[j].attempt
      /\ jobs'[j].lease_owner = NoWorker /\ jobs'[j].lease_until = 0
  BY <1>0, <1>1 DEF Release, Row
<1>3. Queue!CallOff(j)
  BY <1>2 DEF Queue!CallOff, Cancel
<1>4. QED
  BY <1>0, <1>1, <1>3, OneRow DEF Cancel, Queue!Operation

\* A call that is refused, a death, or a claim that finds nothing.
LEMMA RowsOfReap ==
    ASSUME IInv, NEW now \in Nat, now <= clock, jobs' = ReapExpired(now), clock' = clock
    PROVE  Queue!Next
<1>1. \A j \in Job : Queue!Same(j) \/ Queue!TimedOut(j)
  BY ReapedJob DEF IInv
<1>2. QED
  BY <1>1 DEF Queue!Next

LEMMA NothingChanges ==
    ASSUME jobs' = jobs, clock' = clock PROVE Queue!Next
<1>1. \A j \in Job : Queue!Same(j)
  BY SameRow
<1>2. QED
  BY <1>1 DEF Queue!Next

\* Complete is an answer of the holder.
LEMMA CompleteIsAnswer ==
    ASSUME IInv, NEW w \in Worker, NEW j \in Job, j = held[w].job, Complete(w)
    PROVE  Queue!Next
<1>0. SchedulerTypeOK /\ jobs \in [Job -> Row] /\ held[w] # NoLease
  BY DEF IInv, SchedulerTypeOK, Complete
<1>1. CASE Refused(w)
  BY <1>1, NothingChanges DEF Refused
<1>2. CASE ~Refused(w)
  <2>1. /\ Owns(w) /\ clock' = clock
        /\ jobs' = [jobs EXCEPT ![j] = Release(jobs[j], "succeeded", clock, jobs[j].scheduled_at)]
    BY <1>2 DEF Complete
  <2>2. j \in Job /\ jobs[j] \in Row
    BY <1>0, HeldType
  <2>3. /\ jobs'[j].state = "succeeded" /\ jobs'[j].attempt = jobs[j].attempt
        /\ jobs'[j].lease_owner = NoWorker /\ jobs'[j].lease_until = 0
    BY <1>0, <2>1, <2>2 DEF Release, Row
  <2>4. jobs[j].state = "running" /\ jobs[j].lease_owner # NoWorker
    BY <2>1, <2>2, ParametersAssumption DEF Owns
  <2>5. Queue!Answer(j)
    BY <2>2, <2>3, <2>4 DEF Queue!Answer
  <2>6. QED
    BY <1>0, <2>1, <2>2, <2>5, OneRow DEF Queue!Operation
<1>3. QED
  BY <1>1, <1>2

\* Fail gives the job back, or answers that it has failed.
LEMMA FailIsAnswer ==
    ASSUME IInv, NEW w \in Worker, NEW j \in Job, j = held[w].job, Fail(w)
    PROVE  Queue!Next
<1>0. SchedulerTypeOK /\ jobs \in [Job -> Row] /\ held[w] # NoLease
  BY DEF IInv, SchedulerTypeOK, Fail
<1>1. CASE Refused(w)
  BY <1>1, NothingChanges DEF Refused
<1>2. CASE ~Refused(w)
  <2>1. PICK now \in TimesRead(held[w].since), retryable \in BOOLEAN :
           jobs' = [jobs EXCEPT ![j] = Failed(j, jobs[j], retryable, now)]
    BY <1>2 DEF Fail
  <2>2. j \in Job /\ jobs[j] \in Row /\ held[w].since \in Nat
    BY <1>0, HeldType
  <2>3. Owns(w) /\ clock' = clock /\ now \in Nat
    BY <1>0, <1>2, <2>2, TimesReadBounds DEF Fail
  <2>4. jobs[j].state = "running" /\ jobs[j].lease_owner # NoWorker
    BY <2>2, <2>3, ParametersAssumption DEF Owns
  <2>5. jobs'[j] = Failed(j, jobs[j], retryable, now)
    BY <1>0, <2>1, <2>2
  <2>6. /\ jobs'[j].lease_owner = NoWorker /\ jobs'[j].attempt = jobs[j].attempt
        /\ \/ jobs'[j].state \in {"queued", "failed"} /\ jobs[j].attempt < max_attempts[j]
           \/ jobs'[j].state = "dead-letter" /\ ~(jobs[j].attempt < max_attempts[j])
    <3>1. jobs[j].attempt \in Nat /\ max_attempts[j] \in Nat
      BY <2>2, ParametersAssumption DEF Row
    <3>2. QED
      BY <2>2, <2>3, <2>5, <3>1, FailedRow
  <2>7. jobs'[j].lease_until = 0
    BY <2>2, <2>5 DEF Failed, Release, Row
  <2>8. Queue!GivenBack(j) \/ Queue!Answer(j)
    BY <2>2, <2>4, <2>6, <2>7 DEF Queue!GivenBack, Queue!Answer
  <2>9. QED
    BY <1>0, <2>1, <2>2, <2>3, <2>8, OneRow DEF Queue!Operation
<1>3. QED
  BY <1>1, <1>2

\* A heartbeat renews the lease and never shortens it: the time it read is not
\* before the last time the worker was heard.
LEMMA HeartbeatIsRenew ==
    ASSUME IInv, LeasesShort, NEW w \in Worker, NEW j \in Job, j = held[w].job, Heartbeat(w)
    PROVE  Queue!Next
<1>0. SchedulerTypeOK /\ jobs \in [Job -> Row] /\ held[w] # NoLease /\ Agrees(w)
  BY DEF IInv, SchedulerTypeOK, Heartbeat, LeaseAgreement
<1>1. CASE Refused(w)
  BY <1>1, NothingChanges DEF Refused
<1>2. CASE ~Refused(w)
  <2>1. PICK now \in TimesRead(held[w].since) :
           jobs' = [jobs EXCEPT ![j] = Extended(jobs[j], now)]
    BY <1>2 DEF Heartbeat
  <2>2. j \in Job /\ jobs[j] \in Row /\ held[w].since \in Nat /\ held[w].until \in Nat
    BY <1>0, HeldType
  <2>3. Owns(w) /\ clock' = clock
    BY <1>2 DEF Heartbeat
  <2>4. now \in Nat /\ held[w].since <= now /\ now <= clock /\ clock \in Nat /\ LeaseSeconds \in Nat
    BY <1>0, <2>2, TimesReadBounds, ParametersAssumption DEF SchedulerTypeOK
  <2>5. jobs[j].state = "running" /\ jobs[j].lease_owner # NoWorker
    BY <2>2, <2>3, ParametersAssumption DEF Owns
  <2>6. jobs[j].lease_until <= held[w].since + LeaseSeconds
    BY <1>0, <2>3 DEF Agrees, LeasesShort
  <2>7. /\ jobs'[j].state = "running" /\ jobs'[j].attempt = jobs[j].attempt
        /\ jobs'[j].lease_owner = jobs[j].lease_owner
        /\ jobs'[j].lease_until = now + LeaseSeconds
    BY <1>0, <2>1, <2>2, <2>5 DEF Extended, Row
  <2>8. jobs[j].lease_until <= jobs'[j].lease_until /\ jobs'[j].lease_until <= clock + LeaseSeconds
    <3>1. jobs[j].lease_until \in Nat
      BY <2>2 DEF Row
    <3>2. QED
      BY <2>2, <2>4, <2>6, <2>7, <3>1
  <2>9. Queue!Renew(j)
    BY <2>2, <2>5, <2>7, <2>8 DEF Queue!Renew
  <2>10. QED
    BY <1>0, <2>1, <2>2, <2>3, <2>9, OneRow DEF Queue!Operation
<1>3. QED
  BY <1>1, <1>2

\* A claim hands out one job; the others it touches have run out of time.
LEMMA ClaimIsHandOut ==
    ASSUME IInv, NEW w \in Worker, Claim(w) PROVE Queue!Next
<1>0. /\ SchedulerTypeOK /\ jobs \in [Job -> Row] /\ clock \in Nat /\ clock' = clock
      /\ LeaseSeconds \in Nat
  BY ParametersAssumption DEF IInv, SchedulerTypeOK, Claim
<1>1. PICK now \in TimesRead(1) :
         \/ jobs' = ReapExpired(now)
         \/ \E j \in Ready(ReapExpired(now), w, now) :
               jobs' = [ReapExpired(now) EXCEPT ![j] = Claimed(@, w, now)]
  BY DEF Claim
<1> DEFINE rows == ReapExpired(now)
<1>2. now \in Nat /\ now <= clock /\ rows \in [Job -> Row]
  BY <1>0, TimesReadBounds, ReapExpiredRows
<1>3. CASE jobs' = rows
  BY <1>0, <1>2, <1>3, RowsOfReap
<1>4. ASSUME NEW j \in Ready(rows, w, now),
             jobs' = [rows EXCEPT ![j] = Claimed(rows[j], w, now)]
      PROVE  Queue!Next
  <2>1. /\ j \in Job /\ rows[j] \in Row /\ jobs[j] \in Row /\ rows[j].state = "queued"
        /\ \A d \in dependencies[j] : d \in Job /\ rows[d].state = "succeeded"
    BY <1>0, <1>2, ParametersAssumption DEF Ready
  <2>2. RowOK(j, jobs[j]) /\ RowOK(j, rows[j])
    BY <1>0, <1>2, <2>1, ReapExpiredOK DEF IInv
  <2>3. \A d \in dependencies[j] : d \in Job /\ jobs[d].state = "succeeded"
    <3> SUFFICES ASSUME NEW d \in dependencies[j] PROVE d \in Job /\ jobs[d].state = "succeeded"
      OBVIOUS
    <3>1. d \in Job /\ rows[d].state = "succeeded" /\ jobs[d] \in Row
      BY <1>0, <2>1
    <3>2. ~Expired(jobs[d], now)
      <4>1. rows[d] = IF Expired(jobs[d], now) THEN Reaped(d, jobs[d], now) ELSE jobs[d]
        BY <1>0, <1>2, <3>1, ReapExpiredRows
      <4>2. Reaped(d, jobs[d], now).state # "succeeded"
        BY <1>2, <3>1, ReapedRow
      <4>3. QED
        BY <3>1, <4>1, <4>2
    <3>3. QED
      BY <1>0, <1>2, <3>1, <3>2, ReapExpiredRows
  <2>4. /\ jobs[j].state \in {"queued", "running"}
        /\ jobs[j].lease_owner = NoWorker \/ jobs[j].lease_until <= clock
        /\ rows[j].attempt = jobs[j].attempt
    <3>1. CASE Expired(jobs[j], now)
      <4>1. rows[j] = Reaped(j, jobs[j], now)
        BY <1>0, <1>2, <2>1, <3>1, ReapExpiredRows
      <4>2. jobs[j].lease_until \in Nat
        BY <2>1 DEF Row
      <4>3. rows[j].attempt = jobs[j].attempt
        BY <1>2, <2>1, <4>1, ReapedRow
      <4>4. QED
        BY <1>0, <1>2, <3>1, <4>2, <4>3 DEF Expired
    <3>2. CASE ~Expired(jobs[j], now)
      <4>1. rows[j] = jobs[j]
        BY <1>0, <1>2, <2>1, <3>2, ReapExpiredRows
      <4>2. QED
        BY <2>1, <2>2, <4>1 DEF RowOK, RowConsistent
    <3>3. QED
      BY <3>1, <3>2
  <2>5. jobs[j].attempt < max_attempts[j] /\ jobs[j].attempt \in Nat
    BY <2>1, <2>2, <2>4 DEF RowOK, WithinBudget, Row
  <2>6. jobs'[j] = Claimed(rows[j], w, now)
    BY <1>2, <1>4, <2>1
  <2>7. /\ jobs'[j].state = "running" /\ jobs'[j].lease_owner = w
        /\ jobs'[j].attempt = jobs[j].attempt + 1
        /\ jobs'[j].lease_until = now + LeaseSeconds
    BY <1>2, <2>1, <2>4, <2>6, ClaimedRow
  <2>8. jobs'[j].lease_until <= clock + LeaseSeconds
    BY <1>0, <1>2, <2>7
  <2>9. Queue!HandOut(j)
    BY <2>1, <2>3, <2>4, <2>5, <2>7, <2>8 DEF Queue!HandOut
  <2>10. \A k \in Job \ {j} : jobs'[k] = rows[k]
    BY <1>2, <1>4
  <2>11. \A k \in Job \ {j} : Queue!Same(k) \/ Queue!TimedOut(k)
    BY <1>0, <1>2, <2>10, ReapedJob DEF IInv
  <2>12. QED
    BY <1>0, <2>1, <2>9, <2>11, OneOperation DEF Queue!Operation
<1>5. QED
  BY <1>1, <1>3, <1>4

-----------------------------------------------------------------------------
(* Refinement.                                                               *)

LEMMA QueueInit == SchedulerInit => Queue!Init
BY DEF SchedulerInit, Queue!Init, Absent

LEMMA QueueStep == IInv /\ LeasesShort /\ [SchedulerNext]_schedulerVars => [Queue!Next]_(Queue!vars)
<1> SUFFICES ASSUME IInv, LeasesShort, [SchedulerNext]_schedulerVars PROVE Queue!Next
  OBVIOUS
<1>0. SchedulerTypeOK /\ clock \in Nat
  BY DEF IInv, SchedulerTypeOK
<1>1. ASSUME NEW j \in Job, Submit(j) \/ Cancel(j) PROVE Queue!Next
  BY <1>1, SubmitIsAdd, CancelIsCallOff
<1>2. ASSUME NEW w \in Worker, Claim(w) \/ Heartbeat(w) \/ Complete(w) \/ Fail(w)
      PROVE  Queue!Next
  <2>1. CASE Claim(w)
    BY <2>1, ClaimIsHandOut
  <2>2. CASE Heartbeat(w) \/ Complete(w) \/ Fail(w)
    <3>1. held[w] # NoLease
      BY <2>2 DEF Heartbeat, Complete, Fail
    <3>2. PICK j \in Job : j = held[w].job
      BY <1>0, <3>1, HeldType
    <3>3. QED
      BY <2>2, <3>2, HeartbeatIsRenew, CompleteIsAnswer, FailIsAnswer
  <2>3. QED
    BY <1>2, <2>1, <2>2
<1>3. ASSUME NEW w \in Worker, Crash(w) PROVE Queue!Next
  BY <1>3, NothingChanges DEF Crash
<1>4. CASE Reap
  BY <1>0, <1>4, RowsOfReap DEF Reap
<1>5. CASE Tick
  <2>1. \A j \in Job : Queue!Same(j)
    BY <1>5, SameRow DEF Tick
  <2>2. QED
    BY <1>0, <1>5, <2>1 DEF Tick, Queue!Next
<1>6. CASE UNCHANGED schedulerVars
  BY <1>6, NothingChanges DEF schedulerVars
<1>7. QED
  BY <1>1, <1>2, <1>3, <1>4, <1>5, <1>6 DEF SchedulerNext

\* The scheduler implements JobQueue: whatever the order of claims, heartbeats,
\* answers, cancels, crashes and reaper passes, clients see a queue that hands a
\* job out at most max_attempts times, to one holder at a time, after its
\* dependencies, and ends it once.
THEOREM SchedulerImplementsQueue == SchedulerSpec => KeepsQueuePromises
<1>1. SchedulerInit => LeasesShort
  BY DEF SchedulerInit, LeasesShort
<1>2. IInv => SchedulerTypeOK
  BY DEF IInv
<1>3. SchedulerSpec => [](IInv /\ LeasesShort)
  BY <1>1, <1>2, LeasesShortStep, Invariance, PTL DEF SchedulerSpec
<1>4. QED
  BY <1>3, QueueInit, QueueStep, PTL DEF SchedulerSpec, KeepsQueuePromises, Queue!Spec
=============================================================================
