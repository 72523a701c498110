---------------------------- MODULE HostInstallation ----------------------------
(***************************************************************************)
(* Installation into the configuration of other programs                    *)
(* (syntavra_runtime/host_installation.py): apply replaces the targets of   *)
(* a host one after the other and undoes them when it fails; rollback       *)
(* restores what a recorded transaction has found.  One process at a time,  *)
(* that fails or dies between any two calls on files; nobody else edits the *)
(* targets meanwhile.                                                       *)
(***************************************************************************)
EXTENDS Integers, Sequences, SequencesExt

CONSTANTS
    Targets,         \* the targets of the host in the order of apply
    Directory,       \* those that are directories
    Gone,            \* no file
    Shredded,        \* a directory of which only a part is left
    MaxTransactions, \* bound: calls of apply
    MaxEdits         \* bound: edits by users

VARIABLES
    content,      \* the content of each target
    safety,       \* the safety paths left beside each target
    transactions, \* the transaction directories and their rows
    doing,        \* where the process is
    edits         \* edits by users so far

hostVars == <<content, safety, transactions, doing, edits>>

-----------------------------------------------------------------------------
Target == ToSet(Targets)
Transaction == 1 .. MaxTransactions

ASSUME HostAssumption ==
    /\ Targets \in Seq(Target) /\ Targets # <<>> /\ IsInjective(Targets)
    /\ {Gone, Shredded} \cap [user : Nat, ours : BOOLEAN] = {} /\ Gone # Shredded
    /\ MaxTransactions \in Nat /\ MaxEdits \in Nat

\* What a user has written, and whether our entries are in it.
Bundled == [user |-> 0, ours |-> TRUE]
Content == [user : 0 .. MaxEdits, ours : BOOLEAN]

\* The merge keeps what the user has written; a skill directory is ours.
Merged(t, found) ==
    IF t \in Directory \/ found = Gone THEN Bundled ELSE [found EXCEPT !.ours = TRUE]

\* op: apply, its undoing, or rollback; todo and applied are lists of targets.
Waiting == [op |-> "none", at |-> "none", id |-> 0, todo |-> <<>>, applied |-> <<>>, aside |-> Gone]
NoTransaction ==
    [status |-> "none", found |-> [t \in Target |-> Gone], backup |-> [t \in Target |-> Gone],
     touched |-> {}]

HostInit ==
    /\ content = [t \in Target |-> Gone]
    /\ safety = [t \in Target |-> {}]
    /\ transactions = [x \in Transaction |-> NoTransaction]
    /\ doing = Waiting
    /\ edits = 0

This == transactions[doing.id]
Place == IF doing.op = "apply" THEN Head(doing.todo) ELSE Last(doing.todo)

EditTarget(t) ==
    /\ doing = Waiting /\ edits < MaxEdits
    /\ edits' = edits + 1
    /\ \E ours \in BOOLEAN : content' = [content EXCEPT ![t] = [user |-> edits + 1, ours |-> ours]]
    /\ UNCHANGED <<safety, transactions, doing>>

\* apply, up to the new transaction directory.
BeginApply(x) ==
    /\ doing = Waiting /\ transactions[x].status = "none"
    /\ \A y \in 1 .. x - 1 : transactions[y].status # "none"
    /\ transactions' = [transactions EXCEPT ![x].status = "open", ![x].found = content]
    /\ doing' = [Waiting EXCEPT !.op = "apply", !.at = "backup", !.id = x, !.todo = Targets]
    /\ UNCHANGED <<content, safety, edits>>

BeginRollback(x) ==
    /\ doing = Waiting /\ transactions[x].status = "applied"
    /\ doing' = [Waiting EXCEPT !.op = "rollback", !.at = "replace", !.id = x, !.todo = Targets]
    /\ UNCHANGED <<content, safety, transactions, edits>>

\* The call on a target has raised: apply undoes the targets it has replaced, the
\* others give up with HostInstallationRollbackError.
Raise ==
    doing' = IF doing.op # "apply" THEN Waiting
             ELSE [doing EXCEPT !.op = "undo", !.todo = doing.applied, !.aside = Gone,
                      !.at = IF doing.applied = <<>> THEN "discard" ELSE "replace"]

\* Fault: only the first target that is replaced is listed.
ListedFirstOnly == IF doing.applied = <<>> THEN <<Place>> ELSE doing.applied

Listed == Append(doing.applied, Place)

\* The target is done.
Advance ==
    doing' = IF doing.op = "apply"
             THEN [doing EXCEPT !.todo = Tail(@), !.applied = Listed, !.aside = Gone,
                      !.at = IF Tail(doing.todo) = <<>> THEN "verify" ELSE "backup"]
             ELSE [doing EXCEPT !.todo = Front(@), !.aside = Gone,
                      !.at = IF Front(doing.todo) # <<>> THEN "replace"
                             ELSE IF doing.op = "undo" THEN "discard" ELSE "record"]

BackUpTarget ==
    /\ doing.at = "backup"
    /\ transactions' = [transactions EXCEPT ![doing.id].backup[Place] = content[Place]]
    /\ doing' = [doing EXCEPT !.at = "replace"]
    /\ UNCHANGED <<content, safety, edits>>

BackUpTargetFails ==
    /\ doing.at = "backup" /\ content[Place] # Gone
    /\ transactions' = [transactions EXCEPT ![doing.id].backup[Place] = Shredded]
    /\ Raise
    /\ UNCHANGED <<content, safety, edits>>

\* What the target is to hold.
Wanted ==
    IF doing.op = "apply" THEN Merged(Place, This.found[Place]) ELSE This.backup[Place]

Touched ==
    IF doing.op = "apply" THEN [transactions EXCEPT ![doing.id].touched = @ \cup {Place}]
    ELSE transactions

\* Verification, the staged copy or a replacement in one call fails: nothing has
\* changed.
CallFails ==
    /\ doing.at \in {"replace", "verify"}
    /\ Raise
    /\ UNCHANGED <<content, safety, transactions, edits>>

\* A file, a new target, or one that apply had created and that is removed.
ReplaceAtOnce ==
    /\ doing.at = "replace"
    /\ Place \notin Directory \/ content[Place] = Gone \/ Wanted = Gone
    /\ content' = [content EXCEPT ![Place] = Wanted]
    /\ transactions' = Touched
    /\ Advance
    /\ UNCHANGED <<safety, edits>>

\* rmtree of a directory that apply had created.
RemoveTargetFails ==
    /\ doing.at = "replace" /\ Place \in Directory /\ content[Place] # Gone /\ Wanted = Gone
    /\ content' = [content EXCEPT ![Place] = Shredded]
    /\ Raise
    /\ UNCHANGED <<safety, transactions, edits>>

\* A directory is moved to a safety path, before the staged one takes its place.
MoveAside ==
    /\ doing.at = "replace" /\ Place \in Directory /\ content[Place] # Gone /\ Wanted # Gone
    /\ safety' = [safety EXCEPT ![Place] = @ \cup {content[Place]}]
    /\ content' = [content EXCEPT ![Place] = Gone]
    /\ transactions' = Touched
    /\ doing' = [doing EXCEPT !.at = "install", !.aside = content[Place]]
    /\ UNCHANGED edits

InstallStaged ==
    /\ doing.at = "install"
    /\ content' = [content EXCEPT ![Place] = Wanted]
    /\ doing' = [doing EXCEPT !.at = "clean"]
    /\ UNCHANGED <<safety, transactions, edits>>

InstallStagedFails ==
    /\ doing.at = "install"
    /\ doing' = [doing EXCEPT !.at = "recover"]
    /\ UNCHANGED <<content, safety, transactions, edits>>

RecoverTarget ==
    /\ doing.at = "recover"
    /\ content' = [content EXCEPT ![Place] = doing.aside]
    /\ safety' = [safety EXCEPT ![Place] = @ \ {doing.aside}]
    /\ Raise
    /\ UNCHANGED <<transactions, edits>>

RecoverTargetFails ==
    /\ doing.at = "recover"
    /\ Raise
    /\ UNCHANGED <<content, safety, transactions, edits>>

RemoveSafety ==
    /\ doing.at = "clean"
    /\ safety' = [safety EXCEPT ![Place] = @ \ {doing.aside}]
    /\ Advance
    /\ UNCHANGED <<content, transactions, edits>>

\* The new target is in place, but apply does not list it: its undoing will pass over
\* the target.
RemoveSafetyFails ==
    /\ doing.at = "clean"
    /\ safety' = [safety EXCEPT ![Place] = (@ \ {doing.aside}) \cup {Shredded}]
    /\ Raise
    /\ UNCHANGED <<content, transactions, edits>>

Verified ==
    /\ doing.at = "verify"
    /\ doing' = [doing EXCEPT !.at = "record"]
    /\ UNCHANGED <<content, safety, transactions, edits>>

\* An apply that has undone everything removes its transaction directory.
DiscardTransaction ==
    /\ doing.at = "discard"
    /\ transactions' = [transactions EXCEPT ![doing.id].status = "failed",
                                            ![doing.id].backup = [t \in Target |-> Gone]]
    /\ doing' = Waiting
    /\ UNCHANGED <<content, safety, edits>>

RecordTransaction ==
    /\ doing.at = "record"
    /\ transactions' = [transactions EXCEPT ![doing.id].status =
                           IF doing.op = "apply" THEN "applied" ELSE "rolled-back"]
    /\ doing' = Waiting
    /\ UNCHANGED <<content, safety, edits>>

\* The process dies, or fails to write the manifest or the row.
HostProcessEnds ==
    /\ doing # Waiting
    /\ doing' = Waiting
    /\ UNCHANGED <<content, safety, transactions, edits>>

HostNext ==
    \/ \E t \in Target : EditTarget(t)
    \/ \E x \in Transaction : BeginApply(x) \/ BeginRollback(x)
    \/ BackUpTarget \/ BackUpTargetFails \/ CallFails \/ Verified
    \/ ReplaceAtOnce \/ RemoveTargetFails
    \/ MoveAside \/ InstallStaged \/ InstallStagedFails \/ RecoverTarget \/ RecoverTargetFails
    \/ RemoveSafety \/ RemoveSafetyFails
    \/ DiscardTransaction \/ RecordTransaction \/ HostProcessEnds

HostSpec == HostInit /\ [][HostNext]_hostVars

-----------------------------------------------------------------------------
HostTypeOK ==
    /\ \A t \in Target : /\ content[t] \in Content \cup {Gone, Shredded}
                         /\ safety[t] \subseteq Content \cup {Shredded}
    /\ \A x \in Transaction :
          /\ transactions[x].status \in {"none", "open", "failed", "applied", "rolled-back"}
          /\ transactions[x].touched \subseteq Target
    /\ doing.id \in 0 .. MaxTransactions

\* When an apply that has failed discards its backups, the target is what it was, or
\* waits whole at its safety path.
TargetRestored(t) ==
    \/ content[t] = This.found[t]
    \/ content[t] = Gone /\ This.found[t] \in safety[t]

\* Its previous directory was being removed when the removal failed.
CutShort(t) ==
    /\ t \in This.touched \ ToSet(doing.applied)
    /\ content[t] = Merged(t, This.found[t]) /\ Shredded \in safety[t]

\* As long as an apply is recorded, or has died or failed half way, what a user had in
\* each target it has replaced is whole in its backup; when a failed apply discards its
\* backups, every target is restored, but for one whose previous directory could not
\* be removed; and a rollback that is recorded has restored every target, however
\* often it failed and was repeated.
PreviousContentKept ==
    /\ \A x \in Transaction, t \in Target :
          transactions[x].status \in {"open", "applied"} /\ t \in transactions[x].touched
             => transactions[x].backup[t] = transactions[x].found[t]
    /\ doing.at = "discard" => \A t \in Target : TargetRestored(t) \/ CutShort(t)
    /\ doing.at = "record" /\ doing.op = "rollback" =>
          \A t \in Target : content[t] = This.found[t]

\* A failed apply gives nothing of what the user had up ("Install a fully staged path
\* without discarding the last live directory.").
FailedApplyRestores == doing.at = "discard" => \A t \in Target : TargetRestored(t)
=============================================================================
