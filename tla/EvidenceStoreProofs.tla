------------------------ MODULE EvidenceStoreProofs ------------------------
(* What the evidence store guarantees for any contents, references, writers *)
(* and key versions: the invariants of EvidenceStore, and that a rotation   *)
(* alone among its kind keeps the last copy.                                *)
EXTENDS EvidenceStore, FiniteSetTheorems, TLAPS

-----------------------------------------------------------------------------
(* What the rows, the processes and gc are made of, as TypeOK says.          *)

Row == [present: BOOLEAN, refs: SUBSET Reference, ref_count: Nat,
        hold: BOOLEAN, expires: Expiry, unused: BOOLEAN]
PutState == [at: {"idle", "verify", "encrypt", "look", "describe", "index"},
             digest: Digest \cup {NoDigest}, ttl: BOOLEAN,
             reference: Reference \cup {NoReference}, version: {0} \cup Version]
RotateState == [at: Steps, list: SUBSET Digest,
                digest: Digest \cup {NoDigest}, source: {0} \cup Version]

\* A put has a digest and a key version from its beginning on.
PutLocated(put) == put.at # "idle" => put.digest \in Digest /\ put.version \in Version

\* A rotation has a digest exactly while it re-encrypts an object.
RotationLocated(rotation) ==
    IF rotation.at \in {"idle", "next"} THEN rotation.digest = NoDigest
    ELSE rotation.digest \in Digest

\* The variables of gc outside and inside its transaction.
CollectorLocated ==
    /\ collector.todo \subseteq collector.selected
    /\ collector.at = "idle" => collector.selected = {}
    /\ collector.at = "metadata" => collector.digest \in Digest

Located ==
    /\ \A p \in Process : PutLocated(putting[p])
    /\ \A p \in Process : RotationLocated(rotating[p]) /\ (rotating[p].at # "idle" => p \in Rotator)
    /\ CollectorLocated

\* The invariant that every step preserves.
EvidenceInv == TypeOK /\ Located /\ ReferencesCounted /\ OnlyGarbageCollected

-----------------------------------------------------------------------------
(* The operators the transactions are made of.                               *)

\* The number of references is the size of the set, and its members are known.
Counted(row) == row \in Row /\ row.ref_count = Cardinality(row.refs)
                /\ IsFiniteSet(row.refs) /\ (~row.present => row = NoRow)

LEMMA NoRowCounted == Counted(NoRow)
<1>1. IsFiniteSet({}) /\ Cardinality({}) = 0
  BY FS_EmptySet
<1>2. QED
  BY <1>1 DEF Counted, NoRow, Row, Expiry

\* Inserting a reference into a row keeps the counter right.
LEMMA ReferencedCounted ==
    ASSUME NEW row, Counted(row), row.present, NEW reference \in Reference
    PROVE  Counted(Referenced(row, reference)) /\ Referenced(row, reference).present
<1>1. CASE reference \in row.refs
  BY <1>1 DEF Referenced
<1>2. CASE reference \notin row.refs
  <2> DEFINE new == [row EXCEPT !.refs = @ \cup {reference}, !.ref_count = @ + 1]
  <2>1. /\ IsFiniteSet(row.refs \cup {reference})
        /\ Cardinality(row.refs \cup {reference}) = row.ref_count + 1
    BY <1>2, FS_AddElement DEF Counted
  <2>2. row \in Row
    BY DEF Counted
  <2>3. row.ref_count + 1 \in Nat /\ row.refs \cup {reference} \in SUBSET Reference
    BY <2>2 DEF Row
  <2>4. new \in Row /\ new.refs = row.refs \cup {reference} /\ new.ref_count = row.ref_count + 1
        /\ new.present
    BY <2>2, <2>3 DEF Row
  <2>5. Referenced(row, reference) = new
    BY <1>2 DEF Referenced
  <2>6. QED
    BY <2>1, <2>4, <2>5 DEF Counted
<1>3. QED
  BY <1>1, <1>2

\* Deleting one does, too: the counter is never cut off at zero.
LEMMA UnreferencedCounted ==
    ASSUME NEW row, Counted(row), NEW reference \in Reference
    PROVE  Counted(Unreferenced(row, reference))
<1>1. CASE reference \notin row.refs
  BY <1>1 DEF Unreferenced
<1>2. CASE reference \in row.refs
  <2> DEFINE new == [row EXCEPT !.refs = @ \ {reference},
                                !.ref_count = IF @ = 0 THEN 0 ELSE @ - 1]
  <2>1. /\ IsFiniteSet(row.refs \ {reference})
        /\ Cardinality(row.refs \ {reference}) = row.ref_count - 1
    BY <1>2, FS_RemoveElement DEF Counted
  <2>2. Cardinality(row.refs \ {reference}) \in Nat
    BY <2>1, FS_CardinalityType
  <2>3. row \in Row /\ row.present
    BY <1>2 DEF Counted, NoRow
  <2>4. row.ref_count \in Nat /\ row.ref_count - 1 \in Nat /\ row.ref_count # 0
    BY <2>1, <2>2, <2>3 DEF Row
  <2>5. row.refs \ {reference} \in SUBSET Reference
    BY <2>3 DEF Row
  <2>6. /\ new \in Row /\ new.refs = row.refs \ {reference} /\ new.ref_count = row.ref_count - 1
        /\ new.present
    BY <2>3, <2>4, <2>5 DEF Row
  <2>7. Unreferenced(row, reference) = new
    BY <1>2 DEF Unreferenced
  <2>8. QED
    BY <2>1, <2>6, <2>7 DEF Counted
<1>3. QED
  BY <1>1, <1>2

\* So does put's row, whether it was there or not.
LEMMA StoredCounted ==
    ASSUME NEW row, Counted(row), NEW ttl \in BOOLEAN, NEW reference \in Reference \cup {NoReference}
    PROVE  Counted(Stored(row, ttl, reference))
<1> DEFINE expires == IF ttl THEN "future" ELSE "never"
           stored == IF row.present
                     THEN [row EXCEPT !.unused = FALSE, !.expires = Later(@, expires)]
                     ELSE [NoRow EXCEPT !.present = TRUE, !.expires = expires]
<1>1. \A old \in Expiry : Later(old, expires) \in Expiry
  BY DEF Later, Expiry
<1>2. expires \in Expiry
  BY DEF Expiry
<1>3. Counted(stored) /\ stored.present
  <2>1. CASE row.present
    <3>1. /\ stored \in Row /\ stored.refs = row.refs /\ stored.ref_count = row.ref_count
          /\ stored.present
      BY <2>1, <1>1 DEF Counted, Row
    <3>2. QED
      BY <3>1 DEF Counted
  <2>2. CASE ~row.present
    <3>1. stored \in Row /\ stored.refs = {} /\ stored.ref_count = 0 /\ stored.present
      BY <2>2, <1>2 DEF NoRow, Row
    <3>2. QED
      BY <3>1, FS_EmptySet DEF Counted
  <2>3. QED
    BY <2>1, <2>2
<1>4. Stored(row, ttl, reference) =
          IF reference = NoReference THEN stored ELSE Referenced(stored, reference)
  BY DEF Stored
<1>5. QED
  BY <1>3, <1>4, ReferencedCounted

\* Every row of the index is counted, and its references are finite.
LEMMA RowsCounted ==
    ASSUME TypeOK, ReferencesCounted PROVE \A d \in Digest : Counted(index[d])
<1> SUFFICES ASSUME NEW d \in Digest PROVE Counted(index[d])
  OBVIOUS
<1>1. index[d] \in Row
  BY DEF TypeOK, Row
<1>2. IsFiniteSet(index[d].refs)
  BY <1>1, FS_Subset, StoreAssumption DEF Row
<1>3. QED
  BY <1>1, <1>2 DEF ReferencesCounted, Counted

-----------------------------------------------------------------------------
(* Types, and which process works on which digest.                           *)

\* What is known of one process and one file.
LEMMA Known ==
    ASSUME TypeOK, Located, NEW p \in Process
    PROVE  /\ putting[p] \in PutState /\ PutLocated(putting[p])
           /\ rotating[p] \in RotateState /\ RotationLocated(rotating[p])
           /\ active[p] \in Version
BY DEF TypeOK, Located, PutState, RotateState

\* A step that changes only where puts are.
LEMMA PutMoves ==
    ASSUME TypeOK, Located, NEW p \in Process, NEW put \in PutState, PutLocated(put),
           putting' = [putting EXCEPT ![p] = put]
    PROVE  /\ putting' \in [Process -> PutState]
           /\ \A q \in Process : PutLocated(putting'[q])
BY DEF TypeOK, Located, PutState

\* A step that changes only where rotations are.
LEMMA RotationMoves ==
    ASSUME TypeOK, Located, NEW p \in Rotator, NEW rotation \in RotateState,
           RotationLocated(rotation), rotating' = [rotating EXCEPT ![p] = rotation]
    PROVE  /\ rotating' \in [Process -> RotateState]
           /\ \A q \in Process : /\ RotationLocated(rotating'[q])
                                 /\ rotating'[q].at # "idle" => q \in Rotator
BY DEF TypeOK, Located, RotateState, Process

LEMMA IdleProcesses ==
    /\ NotPutting \in PutState /\ PutLocated(NotPutting)
    /\ NotRotating \in RotateState /\ RotationLocated(NotRotating)
<1>1. "idle" \in Steps
  BY DEF Steps
<1>2. QED
  BY <1>1 DEF NotPutting, NotRotating, PutState, RotateState, PutLocated, RotationLocated

LEMMA TypeInit == Init => TypeOK /\ Located
<1> SUFFICES ASSUME Init PROVE TypeOK /\ Located
  OBVIOUS
<1>1. 1 \in Version
  BY StoreAssumption DEF Version
<1>2. NoRow \in Row
  BY NoRowCounted DEF Counted
<1>3. /\ object \in [Digest -> {Missing} \cup Version] /\ backup \in [Digest -> {Missing} \cup Version]
      /\ staging \in [Digest -> SUBSET Version] /\ metadata \in [Digest -> {Missing} \cup Version]
      /\ marker \in Version /\ active \in [Process -> Version]
  BY <1>1 DEF Init
<1>4. index \in [Digest -> Row]
  BY <1>2 DEF Init
<1>5. /\ putting \in [Process -> PutState] /\ rotating \in [Process -> RotateState]
      /\ \A p \in Process : PutLocated(putting[p])
      /\ \A p \in Process : RotationLocated(rotating[p]) /\ rotating[p].at = "idle"
  BY IdleProcesses DEF Init, NotRotating
<1>6. /\ collector \in [selected: SUBSET Digest, todo: SUBSET Digest,
                        at: {"idle", "object", "metadata"}, digest: Digest \cup {NoDigest}]
      /\ CollectorLocated
  BY DEF Init, NotCollecting, CollectorLocated
<1>7. QED
  BY <1>3, <1>4, <1>5, <1>6 DEF TypeOK, Located, Row, PutState, RotateState

\* put_stream
LEMMA TypePut ==
    ASSUME TypeOK, Located, ReferencesCounted, NEW p \in Process, Put(p) \/ PutFails(p)
    PROVE  TypeOK' /\ Located'
<1> DEFINE put == putting[p]
           Goal == \E new \in PutState : PutLocated(new) /\ putting' = [putting EXCEPT ![p] = new]
<1>1. put \in PutState /\ PutLocated(put) /\ active[p] \in Version
  BY Known
<1>2. CASE PutBegin(p)
  <2>1. PICK d \in Digest, ttl \in BOOLEAN, reference \in Reference \cup {NoReference} :
           putting' = [putting EXCEPT ![p] =
              [at |-> IF object[d] = Missing THEN "encrypt" ELSE "verify",
               digest |-> d, ttl |-> ttl, reference |-> reference, version |-> active[p]]]
    BY <1>2 DEF PutBegin
  <2>2. Goal
    BY <1>1, <2>1 DEF PutState, PutLocated
  <2>3. QED
    BY <1>2, <2>2, PutMoves DEF PutBegin, TypeOK, Located, CollectorLocated, PutState, files, keys
<1>3. CASE PutVerify(p)
  <2>1. Goal
    BY <1>1, <1>3, IdleProcesses DEF PutVerify, PutState, PutLocated
  <2>2. QED
    BY <1>3, <2>1, PutMoves DEF PutVerify, TypeOK, Located, CollectorLocated, PutState, files, keys
<1>4. CASE PutEncrypt(p)
  <2>1. Goal
    BY <1>1, <1>4 DEF PutEncrypt, PutState, PutLocated
  <2>2. object' \in [Digest -> {Missing} \cup Version]
    BY <1>1, <1>4 DEF PutEncrypt, PutState, PutLocated, TypeOK
  <2>3. QED
    BY <1>4, <2>1, <2>2, PutMoves DEF PutEncrypt, TypeOK, Located, CollectorLocated, PutState, keys
<1>5. CASE PutLook(p)
  <2>1. Goal
    BY <1>1, <1>5 DEF PutLook, PutState, PutLocated, TypeOK
  <2>2. QED
    BY <1>5, <2>1, PutMoves DEF PutLook, TypeOK, Located, CollectorLocated, PutState, files, keys
<1>6. CASE PutDescribe(p)
  <2>1. Goal
    BY <1>1, <1>6 DEF PutDescribe, PutState, PutLocated
  <2>2. metadata' \in [Digest -> {Missing} \cup Version]
    BY <1>1, <1>6 DEF PutDescribe, PutState, PutLocated, TypeOK
  <2>3. QED
    BY <1>6, <2>1, <2>2, PutMoves DEF PutDescribe, TypeOK, Located, CollectorLocated, PutState, keys
<1>7. CASE PutIndex(p)
  <2>1. Goal
    BY <1>7, IdleProcesses DEF PutIndex
  <2>2. put.digest \in Digest /\ put.ttl \in BOOLEAN /\ put.reference \in Reference \cup {NoReference}
    BY <1>1, <1>7 DEF PutIndex, PutState, PutLocated
  <2>3. Counted(Stored(index[put.digest], put.ttl, put.reference))
    BY <2>2, RowsCounted, StoredCounted
  <2>4. index' \in [Digest -> Row]
    BY <1>7, <2>3 DEF PutIndex, Counted, TypeOK, Row
  <2>5. QED
    BY <1>7, <2>1, <2>4, PutMoves DEF PutIndex, TypeOK, Located, CollectorLocated, PutState, Row, files, keys
<1>8. CASE PutFails(p)
  <2>1. Goal
    BY <1>8, IdleProcesses DEF PutFails
  <2>2. QED
    BY <1>8, <2>1, PutMoves DEF PutFails, TypeOK, Located, CollectorLocated, PutState, files, keys
<1>9. QED
  BY <1>2, <1>3, <1>4, <1>5, <1>6, <1>7, <1>8 DEF Put

\* What concerns only rows: get, retain, release, set_legal_hold and time.
Touch(d) ==
    \/ Get(d) \/ Expire(d) \/ Age(d)
    \/ \E reference \in Reference : Retain(d, reference) \/ Release(d, reference)
    \/ \E enabled \in BOOLEAN : SetLegalHold(d, enabled)

\* Each of them replaces one row by another that is counted and as present.
LEMMA TouchedRow ==
    ASSUME TypeOK, ReferencesCounted, NEW d \in Digest, Touch(d)
    PROVE  \E row : /\ Counted(row) /\ row.present = index[d].present
                    /\ index' = [index EXCEPT ![d] = row]
<1> DEFINE old == index[d]
<1>1. Counted(old) /\ old \in Row
  BY RowsCounted DEF Counted
<1>2. ASSUME NEW row \in Row, row.refs = old.refs, row.ref_count = old.ref_count,
             row.present = old.present, old.present
      PROVE  Counted(row)
  BY <1>1, <1>2 DEF Counted
<1>3. CASE Get(d)
  <2>1. CASE old.present
    <3>1. [old EXCEPT !.unused = FALSE] \in Row
      BY <1>1 DEF Row
    <3>2. QED
      BY <1>1, <1>2, <1>3, <2>1, <3>1 DEF Get, Row
  <2>2. CASE ~old.present
    <3>1. old = NoRow
      BY <1>1, <2>2 DEF Counted
    <3>2. [NoRow EXCEPT !.unused = FALSE] = NoRow
      <4> DEFINE row == [NoRow EXCEPT !.unused = FALSE]
      <4>1. NoRow \in Row /\ row \in Row
        BY NoRowCounted DEF Counted, Row
      <4>2. /\ row.present = NoRow.present /\ row.refs = NoRow.refs
            /\ row.ref_count = NoRow.ref_count /\ row.hold = NoRow.hold
            /\ row.expires = NoRow.expires /\ row.unused = NoRow.unused
        BY DEF NoRow
      <4>3. QED
        BY <4>1, <4>2 DEF Row
    <3>3. QED
      BY <1>1, <1>3, <3>1, <3>2 DEF Get
  <2>3. QED
    BY <2>1, <2>2
<1>4. CASE Expire(d)
  <2>1. old.present
    BY <1>1, <1>4 DEF Expire, Counted, NoRow
  <2>2. [old EXCEPT !.expires = "passed"] \in Row
    BY <1>1 DEF Row, Expiry
  <2>3. QED
    BY <1>1, <1>2, <1>4, <2>1, <2>2 DEF Expire, Row
<1>5. CASE Age(d)
  <2>1. [old EXCEPT !.unused = TRUE] \in Row
    BY <1>1 DEF Row
  <2>2. QED
    BY <1>1, <1>2, <1>5, <2>1 DEF Age, Row
<1>6. ASSUME NEW reference \in Reference, Retain(d, reference)
      PROVE  \E row : /\ Counted(row) /\ row.present = index[d].present
                      /\ index' = [index EXCEPT ![d] = row]
  BY <1>1, <1>6, ReferencedCounted DEF Retain
<1>7. ASSUME NEW reference \in Reference, Release(d, reference)
      PROVE  \E row : /\ Counted(row) /\ row.present = index[d].present
                      /\ index' = [index EXCEPT ![d] = row]
  <2>1. Unreferenced(old, reference).present = old.present
    BY <1>1 DEF Unreferenced, Row
  <2>2. QED
    BY <1>1, <1>7, <2>1, UnreferencedCounted DEF Release
<1>8. ASSUME NEW enabled \in BOOLEAN, SetLegalHold(d, enabled)
      PROVE  \E row : /\ Counted(row) /\ row.present = index[d].present
                      /\ index' = [index EXCEPT ![d] = row]
  <2>1. [old EXCEPT !.hold = enabled] \in Row
    BY <1>1 DEF Row
  <2>2. QED
    BY <1>1, <1>2, <1>8, <2>1 DEF SetLegalHold, Row
<1>9. QED
  BY <1>3, <1>4, <1>5, <1>6, <1>7, <1>8 DEF Touch

LEMMA TypeTouch ==
    ASSUME TypeOK, Located, ReferencesCounted, NEW d \in Digest, Touch(d)
    PROVE  TypeOK' /\ Located'
<1>1. UNCHANGED <<files, keys, putting, rotating, collector>>
  BY DEF Touch, Get, Expire, Age, Retain, Release, SetLegalHold
<1>2. index' \in [Digest -> Row]
  BY TouchedRow DEF TypeOK, Row, Counted
<1>3. QED
  BY <1>1, <1>2 DEF TypeOK, Located, CollectorLocated, Row, files, keys

\* gc
LEMMA TypeGC ==
    ASSUME TypeOK, Located, GC \/ CollectionDies
    PROVE  TypeOK' /\ Located'
<1> DEFINE Collectors == [selected: SUBSET Digest, todo: SUBSET Digest,
                          at: {"idle", "object", "metadata"}, digest: Digest \cup {NoDigest}]
<1>1. collector \in Collectors /\ CollectorLocated
  BY DEF TypeOK, Located
<1>2. NotCollecting \in Collectors
  BY DEF NotCollecting
<1>3. CASE Collect
  <2>1. collector' \in Collectors /\ CollectorLocated'
    BY <1>3 DEF Collect, CollectorLocated
  <2>2. QED
    BY <1>3, <2>1 DEF Collect, TypeOK, Located, files, keys
<1>4. ASSUME NEW d \in Digest, UnlinkObject(d) PROVE TypeOK' /\ Located'
  <2>1. collector' \in Collectors /\ CollectorLocated'
    BY <1>1, <1>4 DEF UnlinkObject, CollectorLocated
  <2>2. object' \in [Digest -> {Missing} \cup Version]
    BY <1>4 DEF UnlinkObject, TypeOK
  <2>3. QED
    BY <1>4, <2>1, <2>2 DEF UnlinkObject, TypeOK, Located, keys
<1>5. CASE UnlinkMetadata
  <2>1. collector' \in Collectors /\ CollectorLocated'
    BY <1>1, <1>5 DEF UnlinkMetadata, CollectorLocated
  <2>2. metadata' \in [Digest -> {Missing} \cup Version]
    BY <1>5 DEF UnlinkMetadata, TypeOK
  <2>3. QED
    BY <1>5, <2>1, <2>2 DEF UnlinkMetadata, TypeOK, Located, keys
<1>6. CASE CommitCollection
  <2>1. collector' \in Collectors /\ CollectorLocated'
    BY <1>2, <1>6 DEF CommitCollection, CollectorLocated, NotCollecting
  <2>2. index' \in [Digest -> Row]
    BY <1>6, NoRowCounted DEF CommitCollection, TypeOK, Row, Counted
  <2>3. QED
    BY <1>6, <2>1, <2>2 DEF CommitCollection, TypeOK, Located, Row, files, keys
<1>7. CASE CollectionDies
  <2>1. collector' \in Collectors /\ CollectorLocated'
    BY <1>2, <1>7 DEF CollectionDies, CollectorLocated, NotCollecting
  <2>2. QED
    BY <1>7, <2>1 DEF CollectionDies, TypeOK, Located, files, keys
<1>8. QED
  BY <1>3, <1>4, <1>5, <1>6, <1>7 DEF GC

\* A process starts again.
LEMMA TypeDies ==
    ASSUME TypeOK, Located, NEW p \in Process, Dies(p)
    PROVE  TypeOK' /\ Located'
<1>1. active' \in [Process -> Version]
  BY DEF Dies, TypeOK
<1>2. putting' \in [Process -> PutState] /\ \A q \in Process : PutLocated(putting'[q])
  BY IdleProcesses, PutMoves DEF Dies
<1>3. /\ rotating' \in [Process -> RotateState]
      /\ \A q \in Process : RotationLocated(rotating'[q]) /\ (rotating'[q].at # "idle" => q \in Rotator)
  BY IdleProcesses DEF Dies, TypeOK, Located, NotRotating, RotateState
<1>4. QED
  BY <1>1, <1>2, <1>3 DEF Dies, TypeOK, Located, CollectorLocated, PutState, RotateState, files

\* rotate_evidence_key
RotatingOK == /\ rotating \in [Process -> RotateState]
              /\ \A p \in Process : /\ RotationLocated(rotating[p])
                                    /\ rotating[p].at # "idle" => p \in Rotator

\* A step inside _reencrypt_object keeps its digest.
Inside == Steps \ {"idle", "next"}

LEMMA RotationGoes ==
    ASSUME TypeOK, Located, NEW p \in Process, NEW at \in Inside,
           rotating[p].at \in Inside, GoTo(p, at)
    PROVE  RotatingOK'
<1>1. rotating[p] \in RotateState /\ RotationLocated(rotating[p]) /\ p \in Rotator
  BY Known DEF Inside, Located
<1>2. [rotating[p] EXCEPT !.at = at] \in RotateState
      /\ RotationLocated([rotating[p] EXCEPT !.at = at])
  BY <1>1 DEF RotateState, RotationLocated, Inside
<1>3. rotating' = [rotating EXCEPT ![p] = [rotating[p] EXCEPT !.at = at]]
  BY DEF GoTo
<1>4. QED
  BY <1>1, <1>2, <1>3, RotationMoves DEF RotatingOK

\* A step that changes nothing but the place, one object's files and its metadata.
LEMMA RotationFiles ==
    ASSUME TypeOK, Located, RotatingOK', UNCHANGED <<index, marker, putting, collector>>,
           active' \in [Process -> Version],
           object' \in [Digest -> {Missing} \cup Version],
           backup' \in [Digest -> {Missing} \cup Version],
           staging' \in [Digest -> SUBSET Version],
           metadata' \in [Digest -> {Missing} \cup Version]
    PROVE  TypeOK' /\ Located'
BY DEF TypeOK, Located, CollectorLocated, RotatingOK, RotateState

LEMMA TypeReencrypt ==
    ASSUME TypeOK, Located, NEW p \in Process, rotating[p].at \in Inside,
           \/ RotateStage(p) \/ RotateUnlink(p) \/ RotateRename(p) \/ RotateSwap(p)
           \/ RotateDescribe(p) \/ RotateIndex(p) \/ RotateFails(p) \/ RotateInterrupted(p)
           \/ Restore(p) \/ RestoreMetadata(p) \/ RestoreIndex(p)
    PROVE  TypeOK' /\ Located'
<1>1. /\ Current(p) \in Digest /\ Target(p) \in Version
      /\ rotating[p].source \in {Missing} \cup Version
  BY Known DEF Current, Target, Inside, RotationLocated, RotateState, Missing
<1>2. {"stage", "unlink", "rename", "swap", "describe", "index", "finish", "restore",
       "redescribe", "reindex", "finally", "giveup"} \subseteq Inside
  BY DEF Inside, Steps, BackupCreated, RollingBack
<1>3. RotatingOK'
  <2>1. \E at \in Inside : GoTo(p, at)
    BY <1>2 DEF RotateStage, RotateUnlink, RotateRename, RotateSwap, RotateDescribe,
                RotateIndex, RotateFails, RotateInterrupted, Restore, RestoreMetadata, RestoreIndex,
                RollbackFailed
  <2>2. QED
    BY <2>1, RotationGoes
<1>4. UNCHANGED <<index, marker, active, putting, collector>>
  BY DEF RotateStage, RotateUnlink, RotateRename, RotateSwap, RotateDescribe,
         RotateIndex, RotateFails, RotateInterrupted, Restore, RestoreMetadata, RestoreIndex, keys
<1>5. /\ object' \in [Digest -> {Missing} \cup Version]
      /\ backup' \in [Digest -> {Missing} \cup Version]
  <2>1. CASE RotateStage(p) \/ RotateUnlink(p)
    BY <1>1, <2>1 DEF RotateStage, RotateUnlink, files, TypeOK
  <2>2. CASE RotateRename(p) \/ RotateSwap(p)
    <3>1. CASE RotateRename(p)
      <4>1. CASE object[Current(p)] = Missing
        BY <3>1, <4>1 DEF RotateRename, TypeOK
      <4>2. CASE object[Current(p)] # Missing
        <5>1. /\ backup' = [backup EXCEPT ![Current(p)] = object[Current(p)]]
              /\ object' = [object EXCEPT ![Current(p)] = Missing]
          BY <3>1, <4>2 DEF RotateRename
        <5>2. object[Current(p)] \in {Missing} \cup Version
          BY <1>1 DEF TypeOK
        <5>3. QED
          BY <5>1, <5>2 DEF TypeOK
      <4>3. QED
        BY <4>1, <4>2
    <3>2. CASE RotateSwap(p)
      BY <1>1, <3>2 DEF RotateSwap, TypeOK
    <3>3. QED
      BY <2>2, <3>1, <3>2
  <2>3. CASE Restore(p)
    BY <1>1, <2>3 DEF Restore, TypeOK
  <2>4. CASE \/ RotateDescribe(p) \/ RotateIndex(p) \/ RotateFails(p) \/ RotateInterrupted(p)
             \/ RestoreMetadata(p) \/ RestoreIndex(p)
    BY <2>4 DEF RotateDescribe, RotateIndex, RotateFails, RotateInterrupted, RestoreMetadata,
                RestoreIndex, files, TypeOK
  <2>5. QED
    BY <2>1, <2>2, <2>3, <2>4
<1>6. staging' \in [Digest -> SUBSET Version]
  BY <1>1 DEF RotateStage, RotateUnlink, RotateRename, RotateSwap, RotateDescribe, RotateIndex,
              RotateFails, RotateInterrupted, Restore, RestoreMetadata, RestoreIndex, files, TypeOK
<1>7. metadata' \in [Digest -> {Missing} \cup Version]
  BY <1>1 DEF RotateStage, RotateUnlink, RotateRename, RotateSwap, RotateDescribe, RotateIndex,
              RotateFails, RotateInterrupted, Restore, RestoreMetadata, RestoreIndex, files, TypeOK
<1>8. active' \in [Process -> Version]
  BY <1>4 DEF TypeOK
<1>9. QED
  BY <1>3, <1>4, <1>5, <1>6, <1>7, <1>8, RotationFiles

LEMMA TypeRotate ==
    ASSUME TypeOK, Located, NEW p \in Process, Rotate(p) \/ RotateFails(p) \/ RotateInterrupted(p)
    PROVE  TypeOK' /\ Located'
<1> DEFINE Goal(q) == \E new \in RotateState :
                         RotationLocated(new) /\ rotating' = [rotating EXCEPT ![q] = new]
<1>1. rotating[p] \in RotateState /\ RotationLocated(rotating[p]) /\ active[p] \in Version
  BY Known
<1>2. {"next", "stage", "finish", "finally", "giveup"} \subseteq Steps
  BY DEF Steps, BackupCreated
<1>3. CASE RotateBegin(p)
  <2>1. Goal(p) /\ p \in Rotator
    <3>1. PICK list \in SUBSET Digest :
             rotating' = [rotating EXCEPT ![p].at = "next", ![p].list = list]
      BY <1>3 DEF RotateBegin
    <3>2. rotating' = [rotating EXCEPT ![p] = [rotating[p] EXCEPT !.at = "next", !.list = list]]
      BY <3>1 DEF TypeOK
    <3>3. /\ [rotating[p] EXCEPT !.at = "next", !.list = list] \in RotateState
          /\ RotationLocated([rotating[p] EXCEPT !.at = "next", !.list = list])
      BY <1>1, <1>2, <1>3 DEF RotateBegin, Idle, RotateState, RotationLocated
    <3>4. QED
      BY <1>3, <3>2, <3>3 DEF RotateBegin
  <2>2. RotatingOK'
    BY <2>1, RotationMoves DEF RotatingOK
  <2>3. active[p] + 1 \in Version
    BY <1>1, <1>3, StoreAssumption DEF RotateBegin, Version
  <2>4. active' \in [Process -> Version] /\ marker' \in Version
    BY <1>3, <2>3 DEF RotateBegin, TypeOK
  <2>5. QED
    BY <1>3, <2>2, <2>4 DEF RotateBegin, RotatingOK, RotateState, TypeOK, Located,
                            CollectorLocated, files
<1>4. CASE RotateNext(p)
  <2>1. p \in Rotator
    BY <1>4 DEF RotateNext, Located
  <2>2. ASSUME rotating' = [rotating EXCEPT ![p] = NotRotating] PROVE RotatingOK'
    BY <2>1, <2>2, IdleProcesses, RotationMoves DEF RotatingOK
  <2>3. ASSUME NEW d \in rotating[p].list,
               rotating' = [rotating EXCEPT ![p].list = @ \ {d}]
        PROVE  RotatingOK'
    <3>1. /\ [rotating[p] EXCEPT !.list = @ \ {d}] \in RotateState
          /\ RotationLocated([rotating[p] EXCEPT !.list = @ \ {d}])
      BY <1>1 DEF RotateState, RotationLocated
    <3>2. QED
      BY <2>1, <2>3, <3>1, RotationMoves DEF RotatingOK
  <2>4. ASSUME NEW d \in rotating[p].list,
               rotating' = [rotating EXCEPT ![p].at = "stage", ![p].digest = d, ![p].source = metadata[d]]
        PROVE  RotatingOK'
    <3>1. d \in Digest /\ metadata[d] \in {Missing} \cup Version
      BY <1>1 DEF RotateState, TypeOK
    <3>2. /\ [rotating[p] EXCEPT !.at = "stage", !.digest = d, !.source = metadata[d]] \in RotateState
          /\ RotationLocated([rotating[p] EXCEPT !.at = "stage", !.digest = d, !.source = metadata[d]])
      BY <1>1, <1>2, <3>1 DEF RotateState, RotationLocated, Missing
    <3>3. rotating' = [rotating EXCEPT ![p] =
                          [rotating[p] EXCEPT !.at = "stage", !.digest = d, !.source = metadata[d]]]
      BY <2>4 DEF TypeOK
    <3>4. QED
      BY <2>1, <3>2, <3>3, RotationMoves DEF RotatingOK
  <2>5. RotatingOK'
    BY <1>4, <2>2, <2>3, <2>4 DEF RotateNext
  <2>6. QED
    BY <1>4, <2>5, RotationFiles DEF RotateNext, TypeOK, files, keys
<1>5. CASE RotateFinish(p)
  <2>1. p \in Rotator /\ Current(p) \in Digest
    BY <1>1, <1>5 DEF RotateFinish, Located, RotationLocated, Current
  <2>2. Goal(p)
    BY <1>1, <1>2, <1>5 DEF RotateFinish, RotateState, RotationLocated
  <2>3. RotatingOK'
    BY <2>1, <2>2, RotationMoves DEF RotatingOK
  <2>4. backup' \in [Digest -> {Missing} \cup Version] /\ staging' \in [Digest -> SUBSET Version]
    BY <1>5, <2>1 DEF RotateFinish, TypeOK
  <2>5. QED
    BY <1>5, <2>3, <2>4, RotationFiles DEF RotateFinish, TypeOK, keys
<1>6. CASE RotateRaises(p)
  <2>1. p \in Rotator /\ Current(p) \in Digest
    BY <1>1, <1>6 DEF RotateRaises, Located, RotationLocated, Current
  <2>2. RotatingOK'
    BY <1>6, <2>1, IdleProcesses, RotationMoves DEF RotateRaises, RotatingOK
  <2>3. backup' \in [Digest -> {Missing} \cup Version] /\ staging' \in [Digest -> SUBSET Version]
    BY <1>6, <2>1 DEF RotateRaises, Removed, TypeOK
  <2>4. QED
    BY <1>6, <2>2, <2>3, RotationFiles DEF RotateRaises, TypeOK, keys
<1>7. CASE ~(RotateBegin(p) \/ RotateNext(p) \/ RotateFinish(p) \/ RotateRaises(p))
  <2>1. \/ RotateStage(p) \/ RotateUnlink(p) \/ RotateRename(p) \/ RotateSwap(p)
        \/ RotateDescribe(p) \/ RotateIndex(p) \/ RotateFails(p) \/ RotateInterrupted(p)
        \/ Restore(p) \/ RestoreMetadata(p) \/ RestoreIndex(p)
    BY <1>7 DEF Rotate
  <2>2. rotating[p].at \in Inside
    BY <1>1, <2>1 DEF RotateStage, RotateUnlink, RotateRename, RotateSwap, RotateDescribe, RotateIndex,
              RotateFails, RotateInterrupted, Restore, RestoreMetadata, RestoreIndex, Inside, RotateState,
              BackupCreated, RollingBack
  <2>3. QED
    BY <2>1, <2>2, TypeReencrypt
<1>8. QED
  BY <1>3, <1>4, <1>5, <1>6, <1>7

-----------------------------------------------------------------------------
(* The rows.                                                                 *)

\* The index changes by a put, by an operation on one row, or when gc commits.
LEMMA IndexChanges ==
    ASSUME TypeOK, Located, [Next]_vars
    PROVE  \/ index' = index
           \/ \E p \in Process : PutIndex(p)
           \/ \E d \in Digest : Touch(d)
           \/ CommitCollection
<1>1. ASSUME NEW p \in Process, Put(p) \/ PutFails(p) PROVE index' = index \/ PutIndex(p)
  BY <1>1 DEF Put, PutBegin, PutVerify, PutEncrypt, PutLook, PutDescribe, PutFails, files, keys
<1>2. ASSUME NEW p \in Process, Rotate(p) PROVE index' = index
  BY <1>2 DEF Rotate, RotateBegin, RotateNext, RotateStage, RotateUnlink, RotateRename, RotateSwap,
      RotateDescribe, RotateIndex, RotateFinish, Restore, RestoreMetadata, RestoreIndex, RotateRaises,
      files, keys
<1>3. ASSUME NEW p \in Process, RotateFails(p) \/ RotateInterrupted(p) \/ Dies(p) PROVE index' = index
  BY <1>3 DEF RotateFails, RotateInterrupted, Dies, files, keys
<1>4. ASSUME GC \/ CollectionDies PROVE index' = index \/ CommitCollection
  BY <1>4 DEF GC, Collect, UnlinkObject, UnlinkMetadata, CollectionDies, files, keys
<1>5. CASE UNCHANGED vars
  BY <1>5 DEF vars
<1>6. QED
  BY <1>1, <1>2, <1>3, <1>4, <1>5 DEF Next, Touch

LEMMA CountedStep ==
    ASSUME TypeOK, Located, ReferencesCounted, [Next]_vars
    PROVE  ReferencesCounted'
<1>1. \A d \in Digest : Counted(index[d])
  BY RowsCounted
<1>2. CASE index' = index
  BY <1>2 DEF ReferencesCounted
<1>3. ASSUME NEW p \in Process, PutIndex(p) PROVE \A d \in Digest : Counted(index'[d])
  <2>1. /\ putting[p].digest \in Digest /\ putting[p].ttl \in BOOLEAN
        /\ putting[p].reference \in Reference \cup {NoReference}
    BY <1>3, Known DEF PutIndex, PutState, PutLocated
  <2>2. Counted(Stored(index[putting[p].digest], putting[p].ttl, putting[p].reference))
    BY <1>1, <2>1, StoredCounted
  <2>3. QED
    BY <1>1, <1>3, <2>1, <2>2 DEF PutIndex, TypeOK
<1>4. ASSUME NEW d \in Digest, Touch(d) PROVE \A e \in Digest : Counted(index'[e])
  BY <1>1, <1>4, TouchedRow DEF TypeOK
<1>5. ASSUME CommitCollection PROVE \A d \in Digest : Counted(index'[d])
  BY <1>1, <1>5, NoRowCounted DEF CommitCollection
<1>6. (\A d \in Digest : Counted(index'[d])) => ReferencesCounted'
  BY DEF Counted, ReferencesCounted
<1>7. QED
  BY <1>2, <1>3, <1>4, <1>5, <1>6, IndexChanges

\* A row that the WHERE clause selects is not protected: the counter tells whether
\* there are references.
LEMMA CollectableUnprotected ==
    ASSUME TypeOK, ReferencesCounted, NEW d \in Digest, Collectable(index[d])
    PROVE  ~Protected(d)
<1>1. Counted(index[d])
  BY RowsCounted
<1>2. index[d].refs = {}
  BY <1>1, FS_EmptySet DEF Collectable, Counted
<1>3. QED
  BY <1>2 DEF Collectable, Protected

LEMMA GarbageStep ==
    ASSUME EvidenceInv, [Next]_vars
    PROVE  OnlyGarbageCollected'
<1> USE DEF EvidenceInv
<1>1. CASE Collect
  <2>1. collector'.selected \subseteq {d \in Digest : Collectable(index[d])} /\ index' = index
    BY <1>1 DEF Collect
  <2>2. QED
    BY <2>1, CollectableUnprotected DEF OnlyGarbageCollected, Collectable, Protected
<1>2. CASE collector'.selected = {}
  BY <1>2 DEF OnlyGarbageCollected
<1>3. CASE collector'.selected = collector.selected
  <2>1. CASE index' = index
    BY <1>3, <2>1 DEF OnlyGarbageCollected, Protected
  <2>2. CASE DatabaseFree
    BY <1>2, <1>3, <2>2 DEF DatabaseFree, Located, CollectorLocated
  <2>3. ASSUME NEW d \in Digest, Expire(d) \/ Age(d) PROVE OnlyGarbageCollected'
    <3>1. \A e \in Digest : index[e] \in Row
      BY DEF TypeOK, Row
    <3>2. \A e \in Digest : /\ index'[e].present = index[e].present /\ index'[e].refs = index[e].refs
                            /\ index'[e].hold = index[e].hold
                            /\ index[e].unused => index'[e].unused
                            /\ index[e].expires = "passed" => index'[e].expires = "passed"
      BY <2>3, <3>1 DEF Expire, Age, TypeOK, Row
    <3>3. collector.selected \subseteq Digest
      BY DEF TypeOK
    <3>4. QED
      BY <1>3, <3>2, <3>3 DEF OnlyGarbageCollected, Protected
  <2>4. ASSUME NEW d \in Digest, Touch(d) PROVE OnlyGarbageCollected'
    BY <2>2, <2>3, <2>4 DEF Touch, Get, Retain, Release, SetLegalHold
  <2>5. ASSUME NEW p \in Process, PutIndex(p) PROVE OnlyGarbageCollected'
    BY <2>2, <2>5 DEF PutIndex
  <2>6. CASE CommitCollection
    BY <1>2, <2>6 DEF CommitCollection, NotCollecting
  <2>7. TypeOK /\ Located
    OBVIOUS
  <2>8. QED
    BY <2>1, <2>4, <2>5, <2>6, <2>7, IndexChanges
<1>4. QED
  <2>1. \/ collector' = collector \/ Collect \/ \E d \in Digest : UnlinkObject(d)
        \/ UnlinkMetadata \/ CommitCollection \/ CollectionDies
    <3>1. ASSUME NEW p \in Process, Put(p) \/ PutFails(p) \/ Dies(p) PROVE collector' = collector
      BY <3>1 DEF Put, PutBegin, PutVerify, PutEncrypt, PutLook, PutDescribe, PutIndex, PutFails, Dies
    <3>2. ASSUME NEW p \in Process, Rotate(p) \/ RotateFails(p) \/ RotateInterrupted(p)
          PROVE  collector' = collector
      BY <3>2 DEF Rotate, RotateBegin, RotateNext, RotateStage, RotateUnlink, RotateRename, RotateSwap,
         RotateDescribe, RotateIndex, RotateFinish, Restore, RestoreMetadata, RestoreIndex,
         RotateRaises, RotateFails, RotateInterrupted
    <3>3. ASSUME NEW d \in Digest,
                 \/ Get(d) \/ Expire(d) \/ Age(d)
                 \/ \E reference \in Reference : Retain(d, reference) \/ Release(d, reference)
                 \/ \E enabled \in BOOLEAN : SetLegalHold(d, enabled)
          PROVE  collector' = collector
      BY <3>3 DEF Get, Expire, Age, Retain, Release, SetLegalHold
    <3>4. UNCHANGED vars => collector' = collector
      BY DEF vars
    <3>5. QED
      BY <3>1, <3>2, <3>3, <3>4 DEF Next, GC
  <2>2. ASSUME UnlinkMetadata \/ \E d \in Digest : UnlinkObject(d)
        PROVE  collector'.selected = collector.selected
    BY <2>2 DEF UnlinkMetadata, UnlinkObject, TypeOK
  <2>3. CommitCollection \/ CollectionDies => collector'.selected = {}
    BY DEF CommitCollection, CollectionDies, NotCollecting
  <2>4. QED
    BY <1>1, <1>2, <1>3, <2>1, <2>2, <2>3

-----------------------------------------------------------------------------
(* The invariants.                                                           *)

LEMMA InvInit == Init => EvidenceInv
<1> SUFFICES ASSUME Init PROVE EvidenceInv
  OBVIOUS
<1>1. ReferencesCounted
  BY NoRowCounted DEF Init, Counted, ReferencesCounted
<1>2. OnlyGarbageCollected
  BY DEF Init, NotCollecting, OnlyGarbageCollected
<1>3. QED
  BY <1>1, <1>2, TypeInit DEF EvidenceInv

LEMMA TypeStep ==
    ASSUME TypeOK, Located, ReferencesCounted, [Next]_vars
    PROVE  TypeOK' /\ Located'
<1>1. CASE UNCHANGED vars
  BY <1>1 DEF vars, files, keys, TypeOK, Located, CollectorLocated
<1>2. ASSUME NEW p \in Process,
             \/ Put(p) \/ PutFails(p) \/ Dies(p)
             \/ Rotate(p) \/ RotateFails(p) \/ RotateInterrupted(p)
      PROVE  TypeOK' /\ Located'
  BY <1>2, TypePut, TypeRotate, TypeDies
<1>3. ASSUME NEW d \in Digest, Touch(d) PROVE TypeOK' /\ Located'
  BY <1>3, TypeTouch
<1>4. QED
  BY <1>1, <1>2, <1>3, TypeGC DEF Next, Touch

\* The invariant holds in every state.
THEOREM EvidenceInvariant == Spec => []EvidenceInv
<1>1. EvidenceInv /\ [Next]_vars => EvidenceInv'
  BY TypeStep, CountedStep, GarbageStep DEF EvidenceInv
<1>2. QED
  BY InvInit, <1>1, PTL DEF Spec

\* Files, rows, processes and gc keep their types.
THEOREM TypeCorrect == Spec => []TypeOK
<1>1. EvidenceInv => TypeOK
  BY DEF EvidenceInv
<1>2. QED
  BY EvidenceInvariant, <1>1, PTL

\* retain, release, put and gc keep ref_count equal to the number of references.
THEOREM CountersAgree == Spec => []ReferencesCounted
<1>1. EvidenceInv => ReferencesCounted
  BY DEF EvidenceInv
<1>2. QED
  BY EvidenceInvariant, <1>1, PTL

\* What gc works on stays unreferenced and unheld until it commits.
THEOREM GarbageOnly == Spec => []OnlyGarbageCollected
<1>1. EvidenceInv => OnlyGarbageCollected
  BY DEF EvidenceInv
<1>2. QED
  BY EvidenceInvariant, <1>1, PTL

-----------------------------------------------------------------------------
(* The last copy, if there is one rotation at a time.                        *)

SingleRotator == \A p, q \in Rotator : p = q

\* Then a rotation of d is the only one there is, and a step of it is taken while
\* the object is there or from a place where the backup counts.
LEMMA RotatedRecoverable ==
    ASSUME EvidenceInv, SingleRotator, NEW p \in Process, NEW d \in Digest,
           rotating[p].digest = d, Recoverable(d)
    PROVE  \/ object[d] # Missing
           \/ backup[d] # Missing /\ rotating[p].at \in {"swap", "restore", "giveup"}
<1>1. ASSUME NEW q \in Process, rotating[q].digest = d PROVE q = p
  <2>1. q \in Rotator /\ p \in Rotator
    BY <1>1, StoreAssumption DEF EvidenceInv, Located, RotationLocated
  <2>2. QED
    BY <2>1 DEF SingleRotator
<1>2. {rotating[q].at : q \in {r \in Process : rotating[r].digest = d}} = {rotating[p].at}
  BY <1>1
<1>3. QED
  BY <1>2 DEF Recoverable

\* A copy that is there at the least.
Copied(d) == object[d] # Missing \/ backup[d] # Missing

LEMMA LastCopyPut ==
    ASSUME EvidenceInv, NEW p \in Process, Put(p) \/ PutFails(p), NEW d \in Digest, Copied(d)
    PROVE  Copied(d)'
<1>1. CASE PutEncrypt(p)
  <2>1. putting[p].version # Missing
    BY <1>1, Known DEF EvidenceInv, PutEncrypt, PutLocated, Version, Missing
  <2>2. QED
    BY <1>1, <2>1 DEF PutEncrypt, Copied, EvidenceInv, TypeOK
<1>2. CASE ~PutEncrypt(p)
  BY <1>2 DEF Put, PutBegin, PutVerify, PutLook, PutDescribe, PutIndex, PutFails, files, Copied
<1>3. QED
  BY <1>1, <1>2

LEMMA LastCopyGC ==
    ASSUME EvidenceInv, GC \/ CollectionDies, NEW d \in Digest, Protected(d), Copied(d)
    PROVE  Copied(d)'
<1>1. ASSUME NEW e \in Digest, UnlinkObject(e) PROVE Copied(d)'
  <2>1. e # d
    BY <1>1 DEF EvidenceInv, UnlinkObject, Located, CollectorLocated, OnlyGarbageCollected
  <2>2. QED
    BY <1>1, <2>1 DEF UnlinkObject, Copied, EvidenceInv, TypeOK
<1>2. QED
  BY <1>1 DEF GC, Collect, UnlinkMetadata, CommitCollection, CollectionDies, files, Copied

LEMMA LastCopyRotate ==
    ASSUME EvidenceInv, SingleRotator, NEW p \in Process,
           Rotate(p) \/ RotateFails(p) \/ RotateInterrupted(p),
           NEW d \in Digest, Recoverable(d)
    PROVE  Copied(d)'
<1>1. Copied(d)
  BY DEF Recoverable, Copied
<1>2. /\ rotating[p].digest = d =>
             \/ object[d] # Missing
             \/ backup[d] # Missing /\ rotating[p].at \in {"swap", "restore", "giveup"}
      /\ Target(p) # Missing
      /\ object \in [Digest -> {Missing} \cup Version] /\ backup \in [Digest -> {Missing} \cup Version]
  <2>1. active[p] \in Version
    BY Known DEF EvidenceInv
  <2>2. Target(p) # Missing
    BY <2>1 DEF Target, Version, Missing
  <2>3. QED
    BY <2>2, RotatedRecoverable DEF EvidenceInv, TypeOK
<1>3. CASE RotateUnlink(p)
  BY <1>1, <1>2, <1>3 DEF RotateUnlink, Copied, Current
<1>4. CASE RotateRename(p)
  BY <1>1, <1>2, <1>4 DEF RotateRename, Copied, Current
<1>5. CASE RotateSwap(p)
  BY <1>1, <1>2, <1>5 DEF RotateSwap, Copied, Current
<1>6. CASE RotateFinish(p)
  BY <1>1, <1>2, <1>6 DEF RotateFinish, Copied, Current
<1>7. CASE Restore(p)
  BY <1>1, <1>2, <1>7 DEF Restore, Copied, Current
<1>8. CASE RotateRaises(p)
  BY <1>1, <1>2, <1>8 DEF RotateRaises, Removed, Copied, Current
<1>9. CASE UNCHANGED <<object, backup>>
  BY <1>1, <1>9 DEF Copied
<1>10. QED
  BY <1>3, <1>4, <1>5, <1>6, <1>7, <1>8, <1>9
     DEF Rotate, RotateBegin, RotateNext, RotateStage, RotateDescribe, RotateIndex, RestoreMetadata,
         RestoreIndex, RotateFails, RotateInterrupted, files

\* If one process at most rotates keys, no step of put, of gc, of the rotation, of
\* its rollback, and no failure or crash gives up the last copy of evidence that
\* is referenced or held; but for a backup that an interrupted rotation removes.
THEOREM LastCopySurvives ==
    ASSUME SingleRotator PROVE Spec => LastCopyKept
<1>1. ASSUME EvidenceInv, [Next]_vars
      PROVE  [\A d \in Digest : (Protected(d) /\ Recoverable(d))
                  => (object'[d] # Missing \/ backup'[d] # Missing)]_vars
  <2> SUFFICES ASSUME Next, NEW d \in Digest, Protected(d), Recoverable(d)
               PROVE  Copied(d)'
    BY <1>1 DEF Copied
  <2>1. Copied(d)
    BY DEF Recoverable, Copied
  <2>2. ASSUME NEW p \in Process, Put(p) \/ PutFails(p) PROVE Copied(d)'
    BY <1>1, <2>1, <2>2, LastCopyPut
  <2>3. ASSUME NEW p \in Process, Rotate(p) \/ RotateFails(p) \/ RotateInterrupted(p) PROVE Copied(d)'
    BY <1>1, <2>3, LastCopyRotate
  <2>4. ASSUME NEW p \in Process, Dies(p) PROVE Copied(d)'
    BY <2>1, <2>4 DEF Dies, files, Copied
  <2>5. ASSUME NEW e \in Digest, Touch(e) PROVE Copied(d)'
    BY <2>1, <2>5 DEF Touch, Get, Expire, Age, Retain, Release, SetLegalHold, files, Copied
  <2>6. CASE GC \/ CollectionDies
    BY <1>1, <2>1, <2>6, LastCopyGC
  <2>7. QED
    BY <2>2, <2>3, <2>4, <2>5, <2>6 DEF Next, Touch
<1>2. QED
  BY EvidenceInvariant, <1>1, PTL DEF Spec, LastCopyKept

=============================================================================
