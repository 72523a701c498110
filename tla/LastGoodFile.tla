----------------------------- MODULE LastGoodFile -----------------------------
(***************************************************************************)
(* What the apply of a last-good configuration promises, without lock,      *)
(* temporary file or recovery: the calls enter one at a time, each replaces *)
(* the content once at most and by its own snapshot, one that shall retain  *)
(* replaces nothing, and a call has a receipt only for the content that is  *)
(* there.  ConfigApply implements it (ConfigApply!LastGood).                   *)
(***************************************************************************)
CONSTANTS
    Process,  \* who applies configurations
    Payload,  \* the snapshots
    Missing   \* no configuration yet

VARIABLES
    content,  \* the configuration
    call      \* the call of each process: its stage, decision and snapshot

vars == <<content, call>>

NoCall == [stage |-> "outside", decision |-> "write", candidate |-> Missing]

\* Has entered and not left.
Inside(p) == call[p].stage \in {"entered", "replaced", "done", "failed"}

Goes(p, stage) == call' = [call EXCEPT ![p].stage = stage]

Init ==
    /\ content = Missing
    /\ call = [p \in Process |-> NoCall]

\* Only what is there can be retained.
Request(p) ==
    /\ call[p].stage = "outside"
    /\ call'[p] \in [stage : {"waiting"}, decision : {"write", "retain-existing"}, candidate : Payload]
    /\ call'[p].decision = "retain-existing" => content # Missing
    /\ call' = [call EXCEPT ![p] = call'[p]]
    /\ content' = content

Enter(p) ==
    /\ call[p].stage = "waiting"
    /\ \A q \in Process : ~Inside(q)
    /\ Goes(p, "entered")
    /\ content' = content

Replace(p) ==
    /\ call[p].stage = "entered" /\ call[p].decision = "write"
    /\ content' = call[p].candidate
    /\ Goes(p, "replaced")

\* A receipt.
Succeed(p) ==
    /\ call[p].stage \in {"entered", "replaced"}
    /\ content = call[p].candidate
    /\ Goes(p, "done")
    /\ content' = content

\* An error, which may come after the replacement.
Fail(p) ==
    /\ call[p].stage \in {"entered", "replaced"}
    /\ Goes(p, "failed")
    /\ content' = content

\* The call returns, raises or dies.
Leave(p) ==
    /\ call[p].stage # "outside"
    /\ call' = [call EXCEPT ![p] = NoCall]
    /\ content' = content

Next == \E p \in Process :
           Request(p) \/ Enter(p) \/ Replace(p) \/ Succeed(p) \/ Fail(p) \/ Leave(p)

Spec == Init /\ [][Next]_vars
=============================================================================
