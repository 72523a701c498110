---------------------------- MODULE EvidenceStore ----------------------------
(***************************************************************************)
(* The evidence store of syntavra_runtime/evidence.py and the key rotation  *)
(* of evidence_rotation.py.  A piece of evidence is an encrypted object     *)
(* file, a metadata file and a row of the SQLite index; put, gc and the     *)
(* rotation change them one after the other.  _lock keeps the threads of    *)
(* one process apart in put and rotation, but neither other processes nor   *)
(* gc; only the transactions exclude each other, and only gc's holds the    *)
(* write lock while it works on files.                                      *)
(*                                                                          *)
(* A file is modelled by the key version it is encrypted under (an object)  *)
(* or tells (metadata).  The contents are as good as the digest: objects    *)
(* are written to a temporary name, and decryption checks the digest.       *)
(* Time is reduced to what gc asks: whether a time to live has passed, and  *)
(* whether a row was used since the cutoff (every caller gives one).        *)
(***************************************************************************)
EXTENDS Integers, FiniteSets

CONSTANTS
    Digest,       \* the contents somebody may put
    Reference,    \* the names of references
    NoReference,  \* put without a reference
    NoDigest,     \* no digest
    Writer,       \* the processes that put
    Rotator,      \* the processes that rotate keys
    Faulty,       \* the processes whose file and database calls may fail
    Mortal,       \* the processes that may be interrupted, or die and start again
    CollectorDies,\* whether the process that runs gc may die
    MaxVersion    \* bound: no key version beyond this one

Process == Writer \cup Rotator

ASSUME StoreAssumption ==
    /\ NoReference \notin Reference
    /\ NoDigest \notin Digest
    /\ IsFiniteSet(Reference)
    /\ MaxVersion \in Nat \ {0}
    /\ CollectorDies \in BOOLEAN

VARIABLES
    object,    \* the object file of a digest, Missing if there is none
    backup,    \* its .rotate-backup file
    staging,   \* its .rotate-<version> files
    metadata,  \* its metadata file
    index,     \* its row of evidence_objects, with its evidence_references
    marker,    \* active.json
    active,    \* the active version each process has read or made
    putting,   \* where put_stream is, in each process
    rotating,  \* where rotate_evidence_key is, in each process
    collector  \* gc: the rows of its transaction, those to do, the file to unlink

files == <<object, backup, staging, metadata>>
keys  == <<marker, active>>
vars  == <<files, index, keys, putting, rotating, collector>>

-----------------------------------------------------------------------------
Missing  == 0
Version  == 1 .. MaxVersion
Expiry   == {"never", "future", "passed"}
NoRow    == [present |-> FALSE, refs |-> {}, ref_count |-> 0, hold |-> FALSE,
             expires |-> "never", unused |-> FALSE]
NotPutting  == [at |-> "idle", digest |-> NoDigest, ttl |-> FALSE,
                reference |-> NoReference, version |-> 0]
NotRotating == [at |-> "idle", list |-> {}, digest |-> NoDigest, source |-> 0]
NotCollecting == [selected |-> {}, todo |-> {}, at |-> "idle", digest |-> NoDigest]

\* Each process holds the _lock of its store during put and rotation.
Idle(p) == putting[p].at = "idle" /\ rotating[p].at = "idle"

\* Fault: gc deletes files before it has begun its transaction.
DatabaseNeverLocked == TRUE

\* BEGIN IMMEDIATE: gc's is the only transaction that is more than one step.
DatabaseFree == collector.at = "idle"

\* ON CONFLICT(digest): NULL loses, of two times to live the later one counts.
Later(old, new) ==
    IF old = "never" THEN new ELSE IF new = "never" THEN old ELSE "future"

\* Fault: retaining twice under one name counts twice.
CountedTwice(row, reference) ==
    [row EXCEPT !.refs = @ \cup {reference}, !.ref_count = @ + 1]

\* INSERT OR IGNORE of the reference, and the counter if it was inserted.
Referenced(row, reference) ==
    IF reference \in row.refs THEN row
    ELSE [row EXCEPT !.refs = @ \cup {reference}, !.ref_count = @ + 1]

Unreferenced(row, reference) ==
    IF reference \notin row.refs THEN row
    ELSE [row EXCEPT !.refs = @ \ {reference}, !.ref_count = IF @ = 0 THEN 0 ELSE @ - 1]

\* Fault: put without a reference inserts an empty one.
StoredReferenced(row, ttl, reference) ==
    LET expires == IF ttl THEN "future" ELSE "never"
        stored  == IF row.present
                   THEN [row EXCEPT !.unused = FALSE, !.expires = Later(@, expires)]
                   ELSE [NoRow EXCEPT !.present = TRUE, !.expires = expires]
    IN  Referenced(stored, reference)

\* The row after put's INSERT or UPDATE.
Stored(row, ttl, reference) ==
    LET expires == IF ttl THEN "future" ELSE "never"
        stored  == IF row.present
                   THEN [row EXCEPT !.unused = FALSE, !.expires = Later(@, expires)]
                   ELSE [NoRow EXCEPT !.present = TRUE, !.expires = expires]
    IN  IF reference = NoReference THEN stored ELSE Referenced(stored, reference)

-----------------------------------------------------------------------------
Init ==
    /\ object = [d \in Digest |-> Missing]
    /\ backup = [d \in Digest |-> Missing]
    /\ staging = [d \in Digest |-> {}]
    /\ metadata = [d \in Digest |-> Missing]
    /\ index = [d \in Digest |-> NoRow]
    /\ marker = 1
    /\ active = [p \in Process |-> 1]
    /\ putting = [p \in Process |-> NotPutting]
    /\ rotating = [p \in Process |-> NotRotating]
    /\ collector = NotCollecting

-----------------------------------------------------------------------------
(* put_stream                                                                 *)

PutBegin(p) ==
    /\ p \in Writer /\ Idle(p)
    /\ \E d \in Digest, ttl \in BOOLEAN, reference \in Reference \cup {NoReference} :
          putting' = [putting EXCEPT ![p] =
              [at |-> IF object[d] = Missing THEN "encrypt" ELSE "verify",
               digest |-> d, ttl |-> ttl, reference |-> reference, version |-> active[p]]]
    /\ UNCHANGED <<files, index, keys, rotating, collector>>

\* The object there was when put looked is decrypted, or is gone and put fails.
PutVerify(p) ==
    /\ putting[p].at = "verify"
    /\ putting' = IF object[putting[p].digest] = Missing
                  THEN [putting EXCEPT ![p] = NotPutting]
                  ELSE [putting EXCEPT ![p].at = "look"]
    /\ UNCHANGED <<files, index, keys, rotating, collector>>

PutEncrypt(p) ==
    /\ putting[p].at = "encrypt"
    /\ object' = [object EXCEPT ![putting[p].digest] = putting[p].version]
    /\ putting' = [putting EXCEPT ![p].at = "look"]
    /\ UNCHANGED <<backup, staging, metadata, index, keys, rotating, collector>>

\* Metadata that is there is read, to be written back with one more provenance.
PutLook(p) ==
    /\ putting[p].at = "look"
    /\ putting' = [putting EXCEPT ![p].at = "describe",
          ![p].version = IF metadata[putting[p].digest] = Missing THEN @
                         ELSE metadata[putting[p].digest]]
    /\ UNCHANGED <<files, index, keys, rotating, collector>>

PutDescribe(p) ==
    /\ putting[p].at = "describe"
    /\ metadata' = [metadata EXCEPT ![putting[p].digest] = putting[p].version]
    /\ putting' = [putting EXCEPT ![p].at = "index"]
    /\ UNCHANGED <<object, backup, staging, index, keys, rotating, collector>>

PutIndex(p) ==
    /\ putting[p].at = "index"
    /\ DatabaseFree
    /\ index' = [index EXCEPT ![putting[p].digest] =
                    Stored(@, putting[p].ttl, putting[p].reference)]
    /\ putting' = [putting EXCEPT ![p] = NotPutting]
    /\ UNCHANGED <<files, keys, rotating, collector>>

\* A call fails and put raises; what it has written stays.
PutFails(p) ==
    /\ p \in Faulty /\ putting[p].at # "idle"
    /\ putting' = [putting EXCEPT ![p] = NotPutting]
    /\ UNCHANGED <<files, index, keys, rotating, collector>>

-----------------------------------------------------------------------------
(* get and open, retain and release, set_legal_hold, and time                 *)

\* What is read counts as used.  The row is updated after the files were read:
\* by then they and the row may be gone again, and an UPDATE of no row does nothing.
Get(d) ==
    /\ DatabaseFree
    /\ index' = [index EXCEPT ![d].unused = FALSE]
    /\ UNCHANGED <<files, keys, putting, rotating, collector>>

Retain(d, reference) ==
    /\ index[d].present /\ DatabaseFree
    /\ index' = [index EXCEPT ![d] = Referenced(@, reference)]
    /\ UNCHANGED <<files, keys, putting, rotating, collector>>

Release(d, reference) ==
    /\ DatabaseFree
    /\ index' = [index EXCEPT ![d] = Unreferenced(@, reference)]
    /\ UNCHANGED <<files, keys, putting, rotating, collector>>

SetLegalHold(d, enabled) ==
    /\ index[d].present /\ DatabaseFree
    /\ index' = [index EXCEPT ![d].hold = enabled]
    /\ UNCHANGED <<files, keys, putting, rotating, collector>>

Expire(d) ==
    /\ index[d].expires = "future"
    /\ index' = [index EXCEPT ![d].expires = "passed"]
    /\ UNCHANGED <<files, keys, putting, rotating, collector>>

\* Nobody has used it for the time to live that gc is called with.
Age(d) ==
    /\ index[d].present
    /\ index' = [index EXCEPT ![d].unused = TRUE]
    /\ UNCHANGED <<files, keys, putting, rotating, collector>>

-----------------------------------------------------------------------------
(* gc, unless it is a dry run                                                 *)

\* The WHERE clause.
Collectable(row) ==
    row.present /\ row.ref_count = 0 /\ ~row.hold /\ (row.expires = "passed" \/ row.unused)

\* The limits on rows and bytes may leave any of them out.
Collect ==
    /\ DatabaseFree
    /\ collector.at = "idle"
    /\ \E chosen \in SUBSET {d \in Digest : Collectable(index[d])} :
          /\ chosen # {}
          /\ collector' = [selected |-> chosen, todo |-> chosen, at |-> "object", digest |-> NoDigest]
    /\ UNCHANGED <<files, index, keys, putting, rotating>>

UnlinkObject(d) ==
    /\ collector.at = "object" /\ d \in collector.todo
    /\ object' = [object EXCEPT ![d] = Missing]
    /\ collector' = [collector EXCEPT !.at = "metadata", !.digest = d]
    /\ UNCHANGED <<backup, staging, metadata, index, keys, putting, rotating>>

UnlinkMetadata ==
    /\ collector.at = "metadata"
    /\ metadata' = [metadata EXCEPT ![collector.digest] = Missing]
    /\ collector' = [collector EXCEPT !.at = "object", !.todo = @ \ {collector.digest},
                                      !.digest = NoDigest]
    /\ UNCHANGED <<object, backup, staging, index, keys, putting, rotating>>

\* The references go with the row (ON DELETE CASCADE).
CommitCollection ==
    /\ collector.at = "object" /\ collector.todo = {}
    /\ index' = [d \in Digest |-> IF d \in collector.selected THEN NoRow ELSE index[d]]
    /\ collector' = NotCollecting
    /\ UNCHANGED <<files, keys, putting, rotating>>

\* The transaction is rolled back, the files are not.
CollectionDies ==
    /\ CollectorDies /\ collector.at # "idle"
    /\ collector' = NotCollecting
    /\ UNCHANGED <<files, index, keys, putting, rotating>>

-----------------------------------------------------------------------------
(* rotate_evidence_key and _reencrypt_object                                  *)

\* Digest and target version of the object a rotation works on.
Current(p) == rotating[p].digest
Target(p)  == active[p]

\* From here on the backup holds what the rotation would go back to.
BackupCreated == {"swap", "describe", "index", "finish"}
RollingBack   == {"restore", "redescribe", "reindex"}

GoTo(p, at) == rotating' = [rotating EXCEPT ![p].at = at]

\* A new key, then the digests of the index, if it is to re-encrypt them.
RotateBegin(p) ==
    /\ p \in Rotator /\ Idle(p) /\ active[p] < MaxVersion
    /\ active' = [active EXCEPT ![p] = @ + 1]
    /\ marker' = active[p] + 1
    /\ \E reencrypt \in BOOLEAN :
          rotating' = [rotating EXCEPT ![p].at = "next",
              ![p].list = IF reencrypt THEN {d \in Digest : index[d].present} ELSE {}]
    /\ UNCHANGED <<files, index, putting, collector>>

\* An object or metadata file that is missing ends the whole rotation; an object
\* whose metadata tells the target version is skipped.
RotateNext(p) ==
    /\ rotating[p].at = "next"
    /\ \/ /\ rotating[p].list = {}
          /\ rotating' = [rotating EXCEPT ![p] = NotRotating]
       \/ \E d \in rotating[p].list :
             \/ /\ object[d] = Missing \/ metadata[d] = Missing
                /\ rotating' = [rotating EXCEPT ![p] = NotRotating]
             \/ /\ object[d] # Missing /\ metadata[d] = Target(p)
                /\ rotating' = [rotating EXCEPT ![p].list = @ \ {d}]
             \/ /\ object[d] # Missing /\ metadata[d] \notin {Missing, Target(p)}
                /\ rotating' = [rotating EXCEPT ![p].at = "stage", ![p].digest = d,
                                                ![p].source = metadata[d]]
    /\ UNCHANGED <<files, index, keys, putting, collector>>

RotateStage(p) ==
    /\ rotating[p].at = "stage"
    /\ IF object[Current(p)] = Missing
       THEN GoTo(p, "finally") /\ UNCHANGED staging
       ELSE /\ GoTo(p, "unlink")
            /\ staging' = [staging EXCEPT ![Current(p)] = @ \cup {Target(p)}]
    /\ UNCHANGED <<object, backup, metadata, index, keys, putting, collector>>

RotateUnlink(p) ==
    /\ rotating[p].at = "unlink"
    /\ backup' = [backup EXCEPT ![Current(p)] = Missing]
    /\ GoTo(p, "rename")
    /\ UNCHANGED <<object, staging, metadata, index, keys, putting, collector>>

\* os.replace(object_path, backup_path)
RotateRename(p) ==
    /\ rotating[p].at = "rename"
    /\ IF object[Current(p)] = Missing
       THEN GoTo(p, "finally") /\ UNCHANGED <<object, backup>>
       ELSE /\ backup' = [backup EXCEPT ![Current(p)] = object[Current(p)]]
            /\ object' = [object EXCEPT ![Current(p)] = Missing]
            /\ GoTo(p, "swap")
    /\ UNCHANGED <<staging, metadata, index, keys, putting, collector>>

\* os.replace(staging_path, object_path)
RotateSwap(p) ==
    /\ rotating[p].at = "swap"
    /\ IF Target(p) \notin staging[Current(p)]
       THEN GoTo(p, "restore") /\ UNCHANGED <<object, staging>>
       ELSE /\ object' = [object EXCEPT ![Current(p)] = Target(p)]
            /\ staging' = [staging EXCEPT ![Current(p)] = @ \ {Target(p)}]
            /\ GoTo(p, "describe")
    /\ UNCHANGED <<backup, metadata, index, keys, putting, collector>>

RotateDescribe(p) ==
    /\ rotating[p].at = "describe"
    /\ metadata' = [metadata EXCEPT ![Current(p)] = Target(p)]
    /\ GoTo(p, "index")
    /\ UNCHANGED <<object, backup, staging, index, keys, putting, collector>>

\* The row's key version and size are not modelled, only whether there is a row.
RotateIndex(p) ==
    /\ rotating[p].at = "index" /\ DatabaseFree
    /\ GoTo(p, IF index[Current(p)].present THEN "finish" ELSE "restore")
    /\ UNCHANGED <<files, index, keys, putting, collector>>

RotateFinish(p) ==
    /\ rotating[p].at = "finish"
    /\ backup' = [backup EXCEPT ![Current(p)] = Missing]
    /\ staging' = [staging EXCEPT ![Current(p)] = @ \ {Target(p)}]
    /\ rotating' = [rotating EXCEPT ![p].at = "next", ![p].list = @ \ {Current(p)},
                                    ![p].digest = NoDigest, ![p].source = 0]
    /\ UNCHANGED <<object, metadata, index, keys, putting, collector>>

\* preserve_backup, if there is a backup to preserve.
RollbackFailed(p) == IF backup[Current(p)] = Missing THEN "finally" ELSE "giveup"

\* A call fails: rolled back if the backup was made.  While rolling back the
\* backup is kept.
RotateFails(p) ==
    /\ p \in Faulty
    /\ \/ rotating[p].at \in {"stage", "unlink", "rename"} /\ GoTo(p, "finally")
       \/ rotating[p].at \in BackupCreated /\ GoTo(p, "restore")
       \/ rotating[p].at \in RollingBack /\ GoTo(p, RollbackFailed(p))
    /\ UNCHANGED <<files, index, keys, putting, collector>>

\* Ctrl-C: not rolled back, but finally runs, and removes the backup.
RotateInterrupted(p) ==
    /\ p \in Mortal
    /\ rotating[p].at \in {"stage", "unlink", "rename"} \cup BackupCreated \cup RollingBack
    /\ GoTo(p, "finally")
    /\ UNCHANGED <<files, index, keys, putting, collector>>

\* A copy of the backup replaces the object.
Restore(p) ==
    /\ rotating[p].at = "restore"
    /\ IF backup[Current(p)] = Missing
       THEN GoTo(p, "finally") /\ UNCHANGED object
       ELSE /\ object' = [object EXCEPT ![Current(p)] = backup[Current(p)]]
            /\ GoTo(p, "redescribe")
    /\ UNCHANGED <<backup, staging, metadata, index, keys, putting, collector>>

RestoreMetadata(p) ==
    /\ rotating[p].at = "redescribe"
    /\ metadata' = [metadata EXCEPT ![Current(p)] = rotating[p].source]
    /\ GoTo(p, "reindex")
    /\ UNCHANGED <<object, backup, staging, index, keys, putting, collector>>

RestoreIndex(p) ==
    /\ rotating[p].at = "reindex" /\ DatabaseFree
    /\ GoTo(p, IF index[Current(p)].present THEN "finally" ELSE RollbackFailed(p))
    /\ UNCHANGED <<files, index, keys, putting, collector>>

\* Fault: the backup is removed although the rollback failed.
RemovedAlways(p) == [backup EXCEPT ![Current(p)] = Missing]

\* Unless preserve_backup.
Removed(p) ==
    IF rotating[p].at = "giveup" THEN backup ELSE [backup EXCEPT ![Current(p)] = Missing]

\* finally: the rotation raises, the remaining digests are not rotated.
RotateRaises(p) ==
    /\ rotating[p].at \in {"finally", "giveup"}
    /\ backup' = Removed(p)
    /\ staging' = [staging EXCEPT ![Current(p)] = @ \ {Target(p)}]
    /\ rotating' = [rotating EXCEPT ![p] = NotRotating]
    /\ UNCHANGED <<object, metadata, index, keys, putting, collector>>

\* A process dies between two calls and starts again: it reads the marker.
Dies(p) ==
    /\ p \in Mortal
    /\ putting' = [putting EXCEPT ![p] = NotPutting]
    /\ rotating' = [rotating EXCEPT ![p] = NotRotating]
    /\ active' = [active EXCEPT ![p] = marker]
    /\ UNCHANGED <<files, index, marker, collector>>

-----------------------------------------------------------------------------
Put(p) == PutBegin(p) \/ PutVerify(p) \/ PutEncrypt(p) \/ PutLook(p) \/ PutDescribe(p) \/ PutIndex(p)

Rotate(p) ==
    \/ RotateBegin(p) \/ RotateNext(p) \/ RotateStage(p) \/ RotateUnlink(p) \/ RotateRename(p)
    \/ RotateSwap(p) \/ RotateDescribe(p) \/ RotateIndex(p) \/ RotateFinish(p)
    \/ Restore(p) \/ RestoreMetadata(p) \/ RestoreIndex(p) \/ RotateRaises(p)

GC == Collect \/ (\E d \in Digest : UnlinkObject(d)) \/ UnlinkMetadata \/ CommitCollection

Next ==
    \/ \E p \in Process : Put(p) \/ PutFails(p) \/ Dies(p)
    \/ \E p \in Process : Rotate(p) \/ RotateFails(p) \/ RotateInterrupted(p)
    \/ \E d \in Digest : \/ Get(d) \/ Expire(d) \/ Age(d)
                         \/ \E reference \in Reference : Retain(d, reference) \/ Release(d, reference)
                         \/ \E enabled \in BOOLEAN : SetLegalHold(d, enabled)
    \/ GC \/ CollectionDies

Spec == Init /\ [][Next]_vars

-----------------------------------------------------------------------------
Steps == {"idle", "next", "stage", "unlink", "rename", "finally", "giveup"}
         \cup BackupCreated \cup RollingBack

TypeOK ==
    /\ object \in [Digest -> {Missing} \cup Version]
    /\ backup \in [Digest -> {Missing} \cup Version]
    /\ staging \in [Digest -> SUBSET Version]
    /\ metadata \in [Digest -> {Missing} \cup Version]
    /\ index \in [Digest -> [present: BOOLEAN, refs: SUBSET Reference, ref_count: Nat,
                             hold: BOOLEAN, expires: Expiry, unused: BOOLEAN]]
    /\ marker \in Version
    /\ active \in [Process -> Version]
    /\ putting \in [Process ->
          [at: {"idle", "verify", "encrypt", "look", "describe", "index"},
           digest: Digest \cup {NoDigest}, ttl: BOOLEAN,
           reference: Reference \cup {NoReference}, version: {0} \cup Version]]
    /\ rotating \in [Process -> [at: Steps, list: SUBSET Digest,
                                 digest: Digest \cup {NoDigest}, source: {0} \cup Version]]
    /\ collector \in [selected: SUBSET Digest, todo: SUBSET Digest,
                      at: {"idle", "object", "metadata"}, digest: Digest \cup {NoDigest}]

\* gc asks the counter, retain and release keep the table of references: the two
\* agree in every row, and a row that gc has deleted leaves no reference behind.
ReferencesCounted ==
    \A d \in Digest : /\ index[d].ref_count = Cardinality(index[d].refs)
                      /\ ~index[d].present => index[d] = NoRow

Protected(d) == index[d].present /\ (index[d].refs # {} \/ index[d].hold)

\* Until gc commits, nobody can reference, hold or read what it is deleting: the
\* selection stays what the WHERE clause said it is.
OnlyGarbageCollected ==
    \A d \in collector.selected :
        index[d].present /\ ~Protected(d) /\ (index[d].expires = "passed" \/ index[d].unused)

\* The last copy of evidence that is referenced or on legal hold is never given
\* up by a rotation, by its rollback, by their failures or by a crash between any
\* two of their calls, whatever put and gc do meanwhile: the object file or the
\* backup remains.  (A backup counts while the object file is missing because the
\* rotation has moved it, or because a rotation was left there; not the one that an
\* interrupted rotation is about to remove, which may be the last copy.)
Recoverable(d) ==
    LET at == {rotating[p].at : p \in {q \in Process : rotating[q].digest = d}}
    IN  \/ object[d] # Missing
        \/ backup[d] # Missing /\ (at = {} \/ at \cap {"swap", "restore", "giveup"} # {})

LastCopyKept ==
    [][\A d \in Digest : (Protected(d) /\ Recoverable(d))
                         => (object'[d] # Missing \/ backup'[d] # Missing)]_vars

\* "Raw evidence is never silently discarded" (docs/ARCHITECTURE.md): what put has
\* returned a handle and a reference for has its object and its metadata.
ReferencedReadable ==
    \A d \in Digest : index[d].refs # {} => object[d] # Missing /\ metadata[d] # Missing
=============================================================================
