---------------------------- MODULE SessionRuntime ----------------------------
(***************************************************************************)
(* Long sessions (syntavra_runtime/session_runtime.py): an append-only      *)
(* history of events per session, a tree of summaries that a background     *)
(* thread and callers rebuild while events go on being appended,            *)
(* checkpoints that tie a verified prefix of the history to the root of a   *)
(* tree, and sessions forked or merged from checkpointed ones.              *)
(*                                                                          *)
(* Transactions are atomic; a call is a sequence of reads and transactions, *)
(* and others act in between.                                               *)
(***************************************************************************)
EXTENDS Integers, FiniteSets, Sequences, Functions

CONSTANTS
    Session,      \* session ids
    Caller,       \* threads that call the operations
    Compactor,    \* the thread start_compactor starts
    NoRoot,       \* compact returned None
    NoSession,
    LeafSize,     \* events per leaf (leaf_size)
    Fanout,       \* summaries per summary (fanout)
    RecentEvents, \* events that active_context shows unsummarised
    MaxEvents,    \* bound: events that append adds
    MaxCheckpoints, \* bound: checkpoints
    MaxClosed     \* bound: closed sessions

\* A summary speaks of the events from .. to and was made from the summaries of the
\* intervals `kids`.
Summary == [session : Session, from : Nat, to : Nat, level : Nat,
            kids : SUBSET [from : Nat, to : Nat]]

ASSUME SessionAssumption ==
    /\ LeafSize \in Nat \ {0} /\ Fanout \in Nat \ {0, 1} /\ RecentEvents \in Nat
    /\ NoRoot \notin Summary /\ NoSession \notin Session
    /\ MaxEvents \in Nat /\ MaxCheckpoints \in Nat /\ MaxClosed \in Nat

VARIABLES
    sessions,    \* table sessions: state and parents
    history,     \* table session_events
    summaries,   \* table session_summaries
    checkpoints, \* table session_checkpoints
    call         \* where each client is in its call

sessionVars == <<sessions, history, summaries, checkpoints, call>>

Client == Caller \cup {Compactor}

-----------------------------------------------------------------------------
Note == [type |-> "note", made |-> {}]
Lesser(a, b) == IF a < b THEN a ELSE b
Length(s) == Len(history[s])

\* The tree over n events: level l has one summary per Unit[l] events, as long
\* as the level below has more than one.
Unit[l \in Nat] == IF l = 0 THEN LeafSize ELSE Fanout * Unit[l - 1]

\* Fault: the last, partial group is dropped.
CountWholeGroups(n, l) == n \div Unit[l]

Count(n, l) == (n + Unit[l] - 1) \div Unit[l]
Levels(n) == {l \in 0 .. n : l = 0 \/ Count(n, l - 1) > 1}
\* Fault: spans start before the first event of the group.
SpanFromZero(n, l, k) == [from |-> (k - 1) * Unit[l], to |-> Lesser(k * Unit[l], n)]

Span(n, l, k) == [from |-> (k - 1) * Unit[l] + 1, to |-> Lesser(k * Unit[l], n)]
\* Fault: the last group is taken to be full.
KidsUncapped(n, l, k) ==
    IF l = 0 THEN {} ELSE {Span(n, l - 1, i) : i \in (k - 1) * Fanout + 1 .. k * Fanout}

Kids(n, l, k) ==
    IF l = 0 THEN {}
    ELSE {Span(n, l - 1, i) : i \in (k - 1) * Fanout + 1 .. Lesser(k * Fanout, Count(n, l - 1))}
Node(s, n, l, k) ==
    [session |-> s, from |-> Span(n, l, k).from, to |-> Span(n, l, k).to,
     level |-> l, kids |-> Kids(n, l, k)]
Tree(s, n) == UNION {{Node(s, n, l, k) : k \in 1 .. Count(n, l)} : l \in Levels(n)}
Root(s, n) == Node(s, n, CHOOSE l \in Levels(n) : \A m \in Levels(n) : m <= l, 1)

\* The summaries that end last, ORDER BY source_end DESC; among them the one that
\* starts first, since the index is scanned by source_start.
Latest(s) ==
    {x \in summaries : /\ x.session = s
                       /\ \A y \in summaries : y.session = s =>
                             y.to < x.to \/ (y.to = x.to /\ x.from <= y.from)}

\* Fault: whatever summary there is will do.
UsableStale(s, seen) == Latest(s)

\* The summary that spares compact its work.
Usable(s, seen) == {x \in Latest(s) : x.to >= seen}

-----------------------------------------------------------------------------
Idle == [op |-> "idle", at |-> "none", session |-> NoSession, through |-> 0, seen |-> 0,
         root |-> NoRoot, todo |-> {}, made |-> {}]

SessionInit ==
    /\ sessions = [s \in Session |-> [state |-> "none", parents |-> {}]]
    /\ history = [s \in Session |-> <<>>]
    /\ summaries = {}
    /\ checkpoints = {}
    /\ call = [c \in Client |-> Idle]

Known(s) == sessions[s].state # "none"

\* A new session id: any that is not in use, all of them being alike.
Fresh == CHOOSE s \in Session : ~Known(s)

\* create_session without parents, by anybody.
CreateSession ==
    /\ \E s \in Session : ~Known(s)
    /\ sessions' = [sessions EXCEPT ![Fresh].state = "ACTIVE"]
    /\ UNCHANGED <<history, summaries, checkpoints, call>>

\* append: the state of the session is not looked at.
AppendEvent(s) ==
    /\ Known(s) /\ FoldFunction(LAMBDA h, n : Len(h) + n, 0, history) < MaxEvents
    /\ history' = [history EXCEPT ![s] = Append(@, Note)]
    /\ UNCHANGED <<sessions, summaries, checkpoints, call>>

\* compact of a history of events, by a caller or by compact_due, which lists the
\* active sessions.
CallCompact(c, s) ==
    /\ call[c] = Idle /\ Length(s) > 0
    /\ c = Compactor => sessions[s].state = "ACTIVE"
    /\ call' = [call EXCEPT ![c] = [Idle EXCEPT !.op = "compact", !.at = "look",
                   !.session = s, !.seen = Length(s)]]
    /\ UNCHANGED <<sessions, history, summaries, checkpoints>>

\* A client calls an operation that reads the history and then compacts it;
\* `through` is the length of what it has read.
Call(c, op, at, s, todo) ==
    /\ call[c] = Idle /\ Known(s)
    /\ call' = [call EXCEPT ![c] = [Idle EXCEPT !.op = op, !.at = at, !.session = s,
                   !.through = Length(s), !.todo = todo]]
    /\ UNCHANGED <<sessions, history, summaries, checkpoints>>

\* active_context reads the events and compacts only a long history.
CallContext(c, s) ==
    Call(c, "context", IF Length(s) > RecentEvents THEN "events" ELSE "answer", s, {})

\* checkpoint, and close, which makes one first; a session is verified by reading
\* it to its end.
CallCheckpoint(c, s, op) == op \in {"checkpoint", "close"} /\ Call(c, op, "events", s, {})

\* fork of one session, merge of several: each source is checkpointed.
CallDerive(c, s, rest) ==
    /\ s \notin rest /\ \A t \in rest : Known(t)
    /\ {s} \cup rest # Session
    /\ Call(c, "derive", "events", s, rest)

Forced(c) == call[c].op \notin {"compact", "context"}
Proceed(c, at) == call' = [call EXCEPT ![c].at = at]
Returned(c) == call' = [call EXCEPT ![c] = Idle]

\* compact returns the id of a root.
Settle(c, root) ==
    IF call[c].op = "compact" THEN Returned(c)
    ELSE call' = [call EXCEPT ![c].root = root, ![c].seen = 0,
                     ![c].at = IF call[c].op = "context" THEN "answer" ELSE "insert"]

\* compact reads the events again, outside any transaction.
ReadEvents(c) ==
    /\ call[c].at = "events"
    /\ LET n == Length(call[c].session)
       IN  IF n = 0 THEN Settle(c, NoRoot)
           ELSE call' = [call EXCEPT ![c].seen = n, ![c].at = IF Forced(c) THEN "build" ELSE "look"]
    /\ UNCHANGED <<sessions, history, summaries, checkpoints>>

LookForRoot(c) ==
    /\ call[c].at = "look"
    /\ LET found == Usable(call[c].session, call[c].seen)
       IN  \/ \E x \in found : Settle(c, x)
           \/ found = {} /\ Proceed(c, "build")
    /\ UNCHANGED <<sessions, history, summaries, checkpoints>>

BuildTree(c) ==
    /\ call[c].at = "build"
    /\ summaries' = summaries \cup Tree(call[c].session, call[c].seen)
    /\ Settle(c, Root(call[c].session, call[c].seen))
    /\ UNCHANGED <<sessions, history, checkpoints>>

\* Fault: the checkpoint takes the length of the history when it is written.
CheckpointNow(c) ==
    [session |-> call[c].session, through |-> Length(call[c].session), root |-> call[c].root]

CheckpointOf(c) ==
    [session |-> call[c].session, through |-> call[c].through, root |-> call[c].root]

\* The checkpoint is written; a merge goes on to verify its next source.
InsertCheckpoint(c) ==
    /\ call[c].at = "insert" /\ Cardinality(checkpoints) < MaxCheckpoints
    /\ checkpoints' = checkpoints \cup {CheckpointOf(c)}
    /\ LET k == [call[c] EXCEPT !.made = @ \cup {CheckpointOf(c)}]
       IN  \/ k.op = "checkpoint" /\ Returned(c)
           \/ k.op = "close" /\ Proceed(c, "close")
           \/ /\ k.op = "derive" /\ k.todo = {}
              /\ call' = [call EXCEPT ![c] = [Idle EXCEPT !.op = "derive", !.at = "create", !.made = k.made]]
           \/ \E s \in k.todo : k.op = "derive" /\ call' = [call EXCEPT ![c] =
                 [k EXCEPT !.at = "events", !.session = s, !.through = Length(s),
                           !.todo = @ \ {s}, !.root = NoRoot]]
    /\ UNCHANGED <<sessions, history, summaries>>

CloseSession(c) ==
    /\ call[c].at = "close"
    /\ Cardinality({s \in Session : sessions[s].state = "CLOSED"}) < MaxClosed
    /\ sessions' = [sessions EXCEPT ![call[c].session].state = "CLOSED"]
    /\ Returned(c)
    /\ UNCHANGED <<history, summaries, checkpoints>>

\* The child exists before it has the event that says where it comes from.
CreateChild(c) ==
    /\ call[c].at = "create"
    /\ \E s \in Session : ~Known(s)
    /\ sessions' = [sessions EXCEPT ![Fresh] =
          [state |-> "ACTIVE", parents |-> {k.session : k \in call[c].made}]]
    /\ call' = [call EXCEPT ![c].at = "lineage", ![c].session = Fresh]
    /\ UNCHANGED <<history, summaries, checkpoints>>

AppendLineage(c) ==
    /\ call[c].at = "lineage"
    /\ history' = [history EXCEPT ![call[c].session] =
          Append(@, [type |-> "lineage", made |-> call[c].made])]
    /\ Returned(c)
    /\ UNCHANGED <<sessions, summaries, checkpoints>>

\* active_context returns; or a call fails, or its client dies, at any point of it.
EndCall(c) ==
    /\ call[c] # Idle
    /\ Returned(c)
    /\ UNCHANGED <<sessions, history, summaries, checkpoints>>

SessionNext ==
    \/ CreateSession
    \/ \E s \in Session : AppendEvent(s)
    \/ \E c \in Client, s \in Session : CallCompact(c, s)
    \/ \E c \in Caller, s \in Session :
          \/ CallContext(c, s)
          \/ CallCheckpoint(c, s, "checkpoint") \/ CallCheckpoint(c, s, "close")
          \/ \E rest \in SUBSET Session : CallDerive(c, s, rest)
    \/ \E c \in Client : \/ ReadEvents(c) \/ LookForRoot(c) \/ BuildTree(c) \/ InsertCheckpoint(c)
                         \/ CloseSession(c) \/ CreateChild(c) \/ AppendLineage(c) \/ EndCall(c)

SessionSpec == SessionInit /\ [][SessionNext]_sessionVars

-----------------------------------------------------------------------------
SessionTypeOK ==
    /\ \A s \in Session : /\ sessions[s].state \in {"none", "ACTIVE", "CLOSED"}
                          /\ sessions[s].parents \subseteq Session
                          /\ \A i \in 1 .. Length(s) : history[s][i].type \in {"note", "lineage"}
    /\ \A x \in summaries : x.session \in Session /\ 1 <= x.from /\ x.from <= x.to
    /\ \A k \in checkpoints : k.session \in Session /\ k.through \in Nat
    /\ \A c \in Client : call[c].session \in Session \cup {NoSession} /\ call[c].made \subseteq checkpoints

\* expand_summary: every summary speaks of events that exist, and the summaries it
\* was made from are there and cover exactly the same events, although compactions
\* of different lengths of a growing history write into the same table.
SummariesWhole ==
    \A x \in summaries :
        /\ x.to <= Length(x.session)
        /\ x.level > 0 =>
              /\ UNION {i.from .. i.to : i \in x.kids} = x.from .. x.to
              /\ \A i \in x.kids : \E y \in summaries :
                    y.session = x.session /\ y.level = x.level - 1 /\ y.from = i.from /\ y.to = i.to

\* A checkpoint's root summary covers at least the prefix that was verified, and a
\* fork or merge names checkpoints of exactly its parents.
CheckpointsCovered ==
    /\ \A k \in checkpoints :
          /\ k.through <= Length(k.session)
          /\ k.root = NoRoot => k.through = 0
          /\ k.root # NoRoot => /\ k.root \in summaries /\ k.root.session = k.session
                                /\ k.root.from = 1 /\ k.through <= k.root.to
    /\ \A s \in Session : \A i \in 1 .. Length(s) :
          history[s][i].type = "lineage" =>
             /\ history[s][i].made \subseteq checkpoints
             /\ {k.session : k \in history[s][i].made} = sessions[s].parents

\* What active_context returns leaves no event of the history out: those that are
\* not among the recent ones are covered by the summary it shows (before the token
\* budget drops sections).
ContextCovers ==
    \A c \in Client : call[c].op = "context" /\ call[c].at = "answer" =>
        \A i \in 1 .. call[c].through :
            \/ i > call[c].through - RecentEvents
            \/ call[c].root # NoRoot /\ i \in call[c].root.from .. call[c].root.to
=============================================================================
