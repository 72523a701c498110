--------------------------- MODULE SessionRuntimeProofs ---------------------------
(* Proofs about long sessions, for any number of sessions, callers and       *)
(* events, any size of leaves and any fanout.                                *)
(*                                                                           *)
(* First the trees over n events: the units of their levels, by induction    *)
(* along the levels, what a group covers, and that the highest level has one *)
(* group.  Then the steps: whatever is read of a history that only grows     *)
(* stays true, and a tree, once written, stays whole.                        *)
EXTENDS SessionRuntime, WellFoundedInduction, TLAPS

-----------------------------------------------------------------------------
(* Sessions: every tree that has been built stays whole, and what a call has  *)
(* read holds of a history that only grows.                                   *)

CheckpointRow == [session : Session, through : Nat, root : Summary \cup {NoRoot}]
SessionEvent == [type : {"note", "lineage"}, made : SUBSET CheckpointRow]
SessionCall ==
    [op : {"idle", "compact", "context", "checkpoint", "close", "derive"},
     at : {"none", "events", "look", "build", "answer", "insert", "close", "create", "lineage"},
     session : Session \cup {NoSession}, through : Nat, seen : Nat,
     root : Summary \cup {NoRoot}, todo : SUBSET Session, made : SUBSET CheckpointRow]

SessionTyped ==
    /\ sessions \in [Session -> [state : {"none", "ACTIVE", "CLOSED"}, parents : SUBSET Session]]
    /\ history \in [Session -> Seq(SessionEvent)]
    /\ checkpoints \in SUBSET CheckpointRow
    /\ call \in [Client -> SessionCall]

\* A summary is one of a tree over a prefix of its session; the whole tree is there.
TreesWhole ==
    \A x \in summaries :
        /\ x.session \in Session
        /\ \E n \in 1 .. Length(x.session) :
              x \in Tree(x.session, n) /\ Tree(x.session, n) \subseteq summaries

\* A root covers a prefix of the events; without one nothing has to be covered.
RootCovers(root, s, through) ==
    root \in summaries /\ root.session = s /\ root.from = 1 /\ through <= root.to

Verified(root, s, through) ==
    \/ root = NoRoot /\ through = 0
    \/ RootCovers(root, s, through)

RowSound(k) ==
    /\ k.session \in Session /\ k.through <= Length(k.session)
    /\ Verified(k.root, k.session, k.through)

LineageSound ==
    /\ \A s \in Session : ~Known(s) => history[s] = <<>>
    /\ \A s \in Session : \A i \in 1 .. Length(s) :
          history[s][i].type = "lineage" =>
             /\ history[s][i].made \subseteq checkpoints
             /\ {k.session : k \in history[s][i].made} = sessions[s].parents

\* What a call has read, or compact has returned to it, still holds.
CallSound(k) ==
    /\ k.made \subseteq checkpoints
    /\ k.at \in {"events", "look", "build", "answer", "insert", "close"} =>
          k.session \in Session /\ k.through <= Length(k.session)
    /\ k.at \in {"events", "look", "build"} /\ k.op = "compact" => k.through = 0
    /\ k.at \in {"look", "build"} =>
          k.seen \in 1 .. Length(k.session) /\ k.through <= k.seen
    /\ k.at = "insert" => Verified(k.root, k.session, k.through)
    /\ k.op = "context" /\ k.at = "answer" =>
          \/ k.root = NoRoot /\ k.through <= RecentEvents
          \/ RootCovers(k.root, k.session, k.through)
    /\ k.at = "lineage" =>
          /\ k.session \in Session /\ Known(k.session)
          /\ {j.session : j \in k.made} = sessions[k.session].parents

SessionInv ==
    /\ SessionTyped /\ TreesWhole /\ LineageSound
    /\ \A k \in checkpoints : RowSound(k)
    /\ \A c \in Client : CallSound(call[c])

-----------------------------------------------------------------------------
(* Units and levels of a tree, by induction along the levels.                 *)

LEMMA SmallestOf ==
    ASSUME NEW S \in SUBSET Nat, S # {}
    PROVE  \E m \in S : \A k \in S : m <= k
<1>1. PICK m \in S : \A k \in S : <<k, m>> \notin OpToRel(<, Nat)
  BY NatLessThanWellFounded, WFMin, Zenon
<1>2. ASSUME NEW k \in S PROVE ~(k < m)
  BY <1>1, Zenon DEF OpToRel
<1>3. QED
  BY <1>2

\* The recursive definition of the units has a solution, which is unique.
LEMMA UnitIs == \A l \in Nat : Unit[l] = IF l = 0 THEN LeafSize ELSE Fanout * Unit[l - 1]
<1> DEFINE Following(f, l) == IF l = 0 THEN LeafSize ELSE Fanout * f[l - 1]
           Solves(f, m) == /\ f \in [0 .. m -> Nat]
                           /\ \A l \in 0 .. m : f[l] = Following(f, l)
           Solved == {m \in Nat : \E f : Solves(f, m)}
<1>1. ASSUME NEW m \in Nat, m = 0 \/ m - 1 \in Solved PROVE m \in Solved
  <2>1. CASE m = 0
    <3> DEFINE f == [l \in 0 .. m |-> LeafSize]
    <3>1. Solves(f, m)
      BY <2>1, SessionAssumption
    <3>2. QED
      BY <3>1
  <2>2. CASE m # 0
    <3>1. PICK g : Solves(g, m - 1)
      BY <1>1, <2>2
    <3> DEFINE f == [l \in 0 .. m |-> IF l = m THEN Fanout * g[m - 1] ELSE g[l]]
    <3>2. m - 1 \in 0 .. m - 1 /\ g[m - 1] \in Nat
      BY <2>2, <3>1
    <3>3. Fanout * g[m - 1] \in Nat
      BY <3>2, SessionAssumption
    <3>4. f \in [0 .. m -> Nat]
      BY <2>2, <3>1, <3>3
    <3>5. ASSUME NEW l \in 0 .. m PROVE f[l] = Following(f, l)
      BY <2>2, <3>1, <3>2
    <3>6. QED
      BY <3>4, <3>5
  <2>3. QED
    BY <2>1, <2>2
<1>2. Solved = Nat
  <2>1. SUFFICES ASSUME Nat \ Solved # {} PROVE FALSE
    OBVIOUS
  <2> HIDE DEF Solved
  <2>2. PICK m \in Nat \ Solved : \A k \in Nat \ Solved : m <= k
    BY <2>1, SmallestOf
  <2>3. m = 0 \/ (m - 1 \in Nat /\ m - 1 \in Solved)
    BY <2>2
  <2>4. QED
    BY <1>1, <2>2, <2>3
<1>3. ASSUME NEW m \in Nat, NEW k \in Nat, NEW f, NEW g, Solves(f, m), Solves(g, k), m <= k
      PROVE  \A l \in 0 .. m : f[l] = g[l]
  <2> DEFINE Differ == {l \in 0 .. m : f[l] # g[l]}
  <2>1. SUFFICES ASSUME Differ # {} PROVE FALSE
    OBVIOUS
  <2>2. Differ \subseteq Nat
    OBVIOUS
  <2> HIDE DEF Differ
  <2>3. PICK l \in Differ : \A j \in Differ : l <= j
    BY <2>1, <2>2, SmallestOf
  <2>4. l \in 0 .. m /\ l \in 0 .. k /\ f[l] # g[l]
    BY <1>3, <2>3 DEF Differ
  <2>5. l # 0 => f[l - 1] = g[l - 1]
    BY <2>3, <2>4 DEF Differ
  <2>6. QED
    BY <1>3, <2>4, <2>5
<1> DEFINE Chosen(m) == CHOOSE f : Solves(f, m)
           whole == [l \in Nat |-> Chosen(l)[l]]
<1>4. ASSUME NEW m \in Nat PROVE Solves(Chosen(m), m)
  <2>1. \E f : Solves(f, m)
    BY <1>2
  <2> HIDE DEF Solves
  <2>2. QED
    BY <2>1
<1>5. whole = [l \in Nat |-> Following(whole, l)]
  <2>1. ASSUME NEW l \in Nat PROVE Chosen(l)[l] = Following(whole, l)
    <3> HIDE DEF Chosen
    <3>1. l \in 0 .. l /\ Solves(Chosen(l), l)
      BY <1>4
    <3>2. Chosen(l)[l] = Following(Chosen(l), l)
      BY <3>1
    <3>3. CASE l = 0
      BY <3>2, <3>3
    <3>4. CASE l # 0
      <4>1. l - 1 \in Nat /\ l - 1 \in 0 .. l - 1 /\ l - 1 <= l
        BY <3>4
      <4>2. Solves(Chosen(l - 1), l - 1)
        BY <1>4, <4>1
      <4>3. \A j \in 0 .. l - 1 : Chosen(l - 1)[j] = Chosen(l)[j]
        <5> HIDE DEF Solves
        <5>1. QED
          BY <1>3, <3>1, <4>1, <4>2
      <4>4. Chosen(l - 1)[l - 1] = Chosen(l)[l - 1]
        BY <4>1, <4>3
      <4>5. QED
        BY <3>2, <3>4, <4>1, <4>4
    <3>5. QED
      BY <3>3, <3>4
  <2> HIDE DEF Following, Chosen
  <2>2. \A l \in Nat : whole[l] = Chosen(l)[l]
    OBVIOUS
  <2>3. QED
    BY <2>1
<1>6. Unit = [l \in Nat |-> Following(Unit, l)]
  <2> HIDE DEF whole
  <2>1. \E u : u = [l \in Nat |-> IF l = 0 THEN LeafSize ELSE Fanout * u[l - 1]]
    BY <1>5
  <2>2. QED
    BY <2>1 DEF Unit
<1>7. QED
  BY <1>6

LEMMA UnitGrows ==
    /\ \A l \in Nat : Unit[l] \in Nat /\ Unit[l] >= l + 1 /\ Unit[l + 1] = Fanout * Unit[l]
    /\ \A l, m \in Nat : l <= m => Unit[l] <= Unit[m]
<1> DEFINE Short == {l \in Nat : ~(Unit[l] \in Nat /\ Unit[l] >= l + 1)}
<1>1. Short = {}
  <2>1. SUFFICES ASSUME Short # {} PROVE FALSE
    OBVIOUS
  <2>2. PICK l \in Short : \A j \in Short : l <= j
    BY <2>1, SmallestOf
  <2>3. CASE l = 0
    BY <2>2, <2>3, UnitIs, SessionAssumption
  <2>4. CASE l # 0
    <3>1. l - 1 \in Nat /\ Unit[l - 1] \in Nat /\ Unit[l - 1] >= l
      BY <2>2, <2>4
    <3>2. Unit[l] = Fanout * Unit[l - 1]
      BY <2>4, UnitIs
    <3>3. Fanout * Unit[l - 1] \in Nat /\ Fanout * Unit[l - 1] >= 2 * Unit[l - 1]
      BY <3>1, SessionAssumption
    <3>4. QED
      BY <2>2, <2>4, <3>1, <3>2, <3>3
  <2>5. QED
    BY <2>3, <2>4
<1>2. ASSUME NEW l \in Nat
      PROVE  Unit[l] \in Nat /\ Unit[l] >= l + 1 /\ Unit[l + 1] = Fanout * Unit[l]
  BY <1>1, UnitIs
<1>3. ASSUME NEW l \in Nat PROVE Unit[l] <= Unit[l + 1]
  <2>1. Unit[l] \in Nat /\ Unit[l + 1] = Fanout * Unit[l]
    BY <1>2
  <2>2. Fanout * Unit[l] >= 1 * Unit[l]
    BY <2>1, SessionAssumption
  <2>3. QED
    BY <2>1, <2>2, SessionAssumption
<1>4. ASSUME NEW l \in Nat, NEW m \in Nat, l <= m PROVE Unit[l] <= Unit[m]
  <2> DEFINE Lower == {j \in Nat : l <= j /\ ~(Unit[l] <= Unit[j])}
  <2>1. SUFFICES ASSUME Lower # {} PROVE FALSE
    BY <1>4
  <2>2. PICK j \in Lower : \A i \in Lower : j <= i
    BY <2>1, SmallestOf
  <2>3. j # l
    BY <1>2, <2>2
  <2>4. j - 1 \in Nat /\ Unit[l] <= Unit[j - 1]
    BY <2>2, <2>3
  <2>5. Unit[j - 1] <= Unit[j]
    BY <1>3, <2>2, <2>4
  <2>6. QED
    BY <1>2, <2>2, <2>4, <2>5
<1>5. QED
  BY <1>2, <1>4

-----------------------------------------------------------------------------
(* What a tree over n events holds.                                           *)

\* A level has a group for every unit that begins before the last event.
LEMMA CountIs ==
    ASSUME NEW n \in Nat, NEW l \in Nat
    PROVE  /\ Count(n, l) \in Nat
           /\ \A k \in Nat \ {0} : k <= Count(n, l) <=> (k - 1) * Unit[l] < n
<1> DEFINE u == Unit[l]
           c == (n + u - 1) \div u
<1>1. u \in Nat /\ u >= 1
  BY UnitGrows
<1>2. Count(n, l) = c
  BY DEF Count
<1> HIDE DEF u
<1>3. c \in Nat /\ c * u <= n + u - 1 /\ n + u - 1 < (c + 1) * u
  BY <1>1
<1> HIDE DEF c
<1>4. ASSUME NEW k \in Nat \ {0} PROVE k <= c <=> (k - 1) * u < n
  <2>1. (k - 1) * u = k * u - u /\ k * u \in Nat /\ c * u \in Nat
    BY <1>1, <1>3
  <2>2. ASSUME k <= c PROVE k * u <= c * u
    BY <1>1, <1>3, <2>2
  <2>3. ASSUME k > c PROVE (c + 1) * u <= k * u
    BY <1>1, <1>3, <2>3
  <2>4. QED
    BY <1>1, <1>3, <2>1, <2>2, <2>3
<1>5. QED
  BY <1>2, <1>3, <1>4 DEF u

LEMMA LevelsAre ==
    ASSUME NEW n \in Nat
    PROVE  \A l \in Nat : l \in Levels(n) <=> l <= n /\ (l = 0 \/ Unit[l - 1] < n)
<1>1. ASSUME NEW l \in Nat, l # 0 PROVE Count(n, l - 1) > 1 <=> Unit[l - 1] < n
  <2>1. l - 1 \in Nat /\ Unit[l - 1] \in Nat
    BY <1>1, UnitGrows
  <2>2. /\ Count(n, l - 1) \in Nat
        /\ \A k \in Nat \ {0} : k <= Count(n, l - 1) <=> (k - 1) * Unit[l - 1] < n
    BY <2>1, CountIs
  <2>3. 2 <= Count(n, l - 1) <=> (2 - 1) * Unit[l - 1] < n
    BY <2>2
  <2>4. QED
    BY <2>1, <2>2, <2>3
<1>2. QED
  BY <1>1 DEF Levels

\* The groups of a level lie one after the other between 1 and n.
LEMMA SpanIs ==
    ASSUME NEW n \in Nat, NEW l \in Nat, NEW k \in 1 .. Count(n, l)
    PROVE  /\ Span(n, l, k) \in [from : Nat, to : Nat]
           /\ Span(n, l, k).from = (k - 1) * Unit[l] + 1
           /\ Span(n, l, k).to = Lesser(k * Unit[l], n)
           /\ 1 <= Span(n, l, k).from /\ Span(n, l, k).from <= Span(n, l, k).to
           /\ Span(n, l, k).to <= n
<1> DEFINE u == Unit[l]
<1>1. u \in Nat /\ u >= 1
  BY UnitGrows
<1>2. k \in Nat \ {0} /\ (k - 1) * u < n
  <2>1. /\ Count(n, l) \in Nat
        /\ \A i \in Nat \ {0} : i <= Count(n, l) <=> (i - 1) * u < n
    BY CountIs
  <2>2. k \in Nat \ {0} /\ k <= Count(n, l)
    BY <2>1
  <2>3. QED
    BY <2>1, <2>2
<1> HIDE DEF u
<1>3. k * u \in Nat /\ (k - 1) * u \in Nat /\ k * u = (k - 1) * u + u
  BY <1>1, <1>2
<1>4. Lesser(k * u, n) \in Nat /\ Lesser(k * u, n) <= n /\ (k - 1) * u + 1 <= Lesser(k * u, n)
  BY <1>1, <1>2, <1>3 DEF Lesser
<1>5. QED
  BY <1>3, <1>4 DEF Span, u

\* The highest level has one group, which ends with the last event.
LEMMA HighestLevel ==
    ASSUME NEW n \in Nat \ {0}
    PROVE  LET top == CHOOSE l \in Levels(n) : \A m \in Levels(n) : m <= l
           IN  top \in Nat /\ top \in Levels(n) /\ n <= Unit[top]
<1> DEFINE Whole == {l \in Nat : n <= Unit[l]}
<1>1. n \in Whole
  BY UnitGrows
<1>2. PICK h \in Whole : \A l \in Whole : h <= l
  BY <1>1, SmallestOf
<1>3. h \in Nat /\ n <= Unit[h] /\ h <= n
  BY <1>1, <1>2
<1>4. h # 0 => Unit[h - 1] < n
  <2>1. SUFFICES ASSUME h # 0 PROVE Unit[h - 1] < n
    OBVIOUS
  <2>2. h - 1 \in Nat /\ h - 1 \notin Whole /\ Unit[h - 1] \in Nat
    BY <1>2, <1>3, <2>1, UnitGrows
  <2>3. QED
    BY <2>2
<1>5. h \in Levels(n)
  BY <1>3, <1>4, LevelsAre
<1>6. ASSUME NEW l \in Levels(n) PROVE l \in Nat /\ l <= h
  <2>1. l \in Nat /\ (l = 0 \/ Unit[l - 1] < n)
    BY LevelsAre DEF Levels
  <2>2. SUFFICES ASSUME l > h PROVE FALSE
    BY <1>3, <2>1
  <2>3. l - 1 \in Nat /\ h <= l - 1 /\ Unit[l - 1] < n
    BY <1>3, <2>1, <2>2
  <2>4. Unit[h] <= Unit[l - 1] /\ Unit[h] \in Nat /\ Unit[l - 1] \in Nat
    BY <1>3, <2>3, UnitGrows
  <2>5. QED
    BY <1>3, <2>3, <2>4
<1> HIDE DEF Whole
<1>7. \A l \in Levels(n) : (\A m \in Levels(n) : m <= l) => l = h
  BY <1>3, <1>5, <1>6
<1>8. (CHOOSE l \in Levels(n) : \A m \in Levels(n) : m <= l) = h
  BY <1>5, <1>6, <1>7
<1>9. QED
  BY <1>3, <1>5, <1>8

\* A summary is made from summaries that cover exactly its events.
LEMMA KidsCover ==
    ASSUME NEW n \in Nat, NEW l \in Nat \ {0}, NEW k \in 1 .. Count(n, l)
    PROVE  /\ Kids(n, l, k) \in SUBSET [from : Nat, to : Nat]
           /\ \A i \in Kids(n, l, k) : \E j \in 1 .. Count(n, l - 1) : i = Span(n, l - 1, j)
           /\ UNION {i.from .. i.to : i \in Kids(n, l, k)} =
                 Span(n, l, k).from .. Span(n, l, k).to
<1> DEFINE u == Unit[l - 1]
           c == Count(n, l - 1)
           last == Lesser(k * Fanout, c)
<1>1. /\ l - 1 \in Nat /\ u \in Nat /\ u >= 1 /\ Unit[l] = Fanout * u
      /\ c \in Nat /\ k \in Nat \ {0} /\ Fanout \in Nat /\ Fanout >= 2
      /\ \A i \in Nat \ {0} : i <= c <=> (i - 1) * u < n
  <2>1. l - 1 \in Nat /\ (l - 1) + 1 = l
    OBVIOUS
  <2>2. u \in Nat /\ u >= 1 /\ Unit[(l - 1) + 1] = Fanout * u
    BY <2>1, UnitGrows
  <2>3. c \in Nat /\ \A i \in Nat \ {0} : i <= c <=> (i - 1) * u < n
    BY <2>1, CountIs
  <2>4. Count(n, l) \in Nat
    BY CountIs
  <2> HIDE DEF u, c
  <2>5. QED
    BY <2>1, <2>2, <2>3, <2>4, SessionAssumption
<1>2. /\ Span(n, l, k).from = (k - 1) * (Fanout * u) + 1
      /\ Span(n, l, k).to = Lesser(k * (Fanout * u), n)
  <2>1. /\ Span(n, l, k).from = (k - 1) * Unit[l] + 1
        /\ Span(n, l, k).to = Lesser(k * Unit[l], n)
    BY SpanIs
  <2>2. Unit[l] = Fanout * u
    BY <1>1
  <2> HIDE DEF u
  <2>3. QED
    BY <2>1, <2>2
<1>3. Kids(n, l, k) = {Span(n, l - 1, i) : i \in (k - 1) * Fanout + 1 .. last}
  BY DEF Kids
<1>4. /\ (k - 1) * Fanout \in Nat /\ k * Fanout \in Nat /\ last \in Nat
      /\ last <= c /\ last <= k * Fanout
  BY <1>1 DEF Lesser
<1>5. \A i \in (k - 1) * Fanout + 1 .. last : i \in 1 .. c
  <2> HIDE DEF u, c, last
  <2>1. QED
    BY <1>1, <1>4
<1>6. ASSUME NEW i \in (k - 1) * Fanout + 1 .. last
      PROVE  /\ Span(n, l - 1, i) \in [from : Nat, to : Nat]
             /\ Span(n, l - 1, i).from = (i - 1) * u + 1
             /\ Span(n, l - 1, i).to = Lesser(i * u, n)
  BY <1>1, <1>5, SpanIs
<1> DEFINE Covered == UNION {i.from .. i.to : i \in Kids(n, l, k)}
           Whole == Span(n, l, k).from .. Span(n, l, k).to
<1>7. ASSUME NEW i \in (k - 1) * Fanout + 1 .. last, NEW e \in Span(n, l - 1, i).from .. Span(n, l - 1, i).to
      PROVE  e \in Whole
  <2> HIDE DEF u, c, last
  <2>1. i \in Nat /\ i - 1 >= (k - 1) * Fanout /\ i <= k * Fanout
    BY <1>1, <1>4
  <2>2. (i - 1) * u >= ((k - 1) * Fanout) * u /\ i * u <= (k * Fanout) * u
    BY <1>1, <1>4, <2>1
  <2>3. ((k - 1) * Fanout) * u = (k - 1) * (Fanout * u) /\ (k * Fanout) * u = k * (Fanout * u)
    BY <1>1
  <2>4. /\ (i - 1) * u \in Nat /\ i * u \in Nat /\ (k - 1) * (Fanout * u) \in Nat
        /\ k * (Fanout * u) \in Nat
    BY <1>1, <2>1, <2>3
  <2>5. e \in (i - 1) * u + 1 .. Lesser(i * u, n)
    BY <1>6
  <2>6. QED
    BY <1>2, <2>2, <2>3, <2>4, <2>5 DEF Lesser
<1>8. ASSUME NEW e \in Whole
      PROVE  \E i \in (k - 1) * Fanout + 1 .. last : e \in Span(n, l - 1, i).from .. Span(n, l - 1, i).to
  <2> DEFINE q == (e - 1) \div u
             i == q + 1
  <2> HIDE DEF u, c, last
  <2>1. /\ (k - 1) * (Fanout * u) \in Nat /\ k * (Fanout * u) \in Nat
        /\ ((k - 1) * Fanout) * u = (k - 1) * (Fanout * u) /\ (k * Fanout) * u = k * (Fanout * u)
    BY <1>1
  <2>2. e \in (k - 1) * (Fanout * u) + 1 .. Lesser(k * (Fanout * u), n)
    BY <1>2
  <2>3. e - 1 \in Nat /\ (k - 1) * (Fanout * u) <= e - 1 /\ e - 1 < k * (Fanout * u) /\ e <= n
    BY <2>1, <2>2 DEF Lesser
  <2>4. q \in Nat /\ q * u <= e - 1 /\ e - 1 < (q + 1) * u
    BY <1>1, <2>3
  <2> HIDE DEF q
  <2>5. q >= (k - 1) * Fanout
    <3>1. SUFFICES ASSUME q + 1 <= (k - 1) * Fanout PROVE FALSE
      BY <1>4, <2>4
    <3>2. (q + 1) * u <= ((k - 1) * Fanout) * u
      BY <1>1, <1>4, <2>4, <3>1
    <3>3. (q + 1) * u \in Nat
      BY <1>1, <2>4
    <3>4. QED
      BY <2>1, <2>3, <2>4, <3>2, <3>3
  <2>6. q + 1 <= k * Fanout
    <3>1. SUFFICES ASSUME k * Fanout <= q PROVE FALSE
      BY <1>4, <2>4
    <3>2. (k * Fanout) * u <= q * u
      BY <1>1, <1>4, <2>4, <3>1
    <3>3. q * u \in Nat
      BY <1>1, <2>4
    <3>4. QED
      BY <2>1, <2>3, <2>4, <3>2, <3>3
  <2>7. i \in Nat \ {0} /\ i - 1 = q
    BY <2>4
  <2>8. i <= c
    <3>1. (i - 1) * u < n
      BY <1>1, <2>3, <2>4, <2>7
    <3>2. QED
      BY <1>1, <2>7, <3>1
  <2>9. i \in (k - 1) * Fanout + 1 .. last
    BY <1>1, <1>4, <2>5, <2>6, <2>7, <2>8 DEF Lesser, last
  <2>10. e \in (i - 1) * u + 1 .. Lesser(i * u, n)
    <3>1. (i - 1) * u \in Nat /\ i * u \in Nat
      BY <1>1, <2>7
    <3>2. QED
      BY <2>3, <2>4, <2>7, <3>1 DEF Lesser
  <2>11. QED
    BY <1>6, <2>9, <2>10
<1>9. Covered = Whole
  <2> HIDE DEF u, c, last, Whole
  <2>1. Covered \subseteq Whole
    BY <1>3, <1>7
  <2>2. Whole \subseteq Covered
    BY <1>3, <1>8
  <2>3. QED
    BY <2>1, <2>2
<1>10. QED
  BY <1>3, <1>5, <1>6, <1>9

\* Every summary of a tree is typed, speaks of its events, and is made from others.
LEMMA TreeFacts ==
    ASSUME NEW s \in Session, NEW n \in Nat \ {0}, NEW x \in Tree(s, n)
    PROVE  /\ x \in Summary /\ x.session = s /\ 1 <= x.from /\ x.from <= x.to /\ x.to <= n
           /\ x.level > 0 =>
                 /\ UNION {i.from .. i.to : i \in x.kids} = x.from .. x.to
                 /\ \A i \in x.kids : \E y \in Tree(s, n) :
                       y.session = s /\ y.level = x.level - 1 /\ y.from = i.from /\ y.to = i.to
<1>1. PICK l \in Levels(n) : x \in {Node(s, n, l, k) : k \in 1 .. Count(n, l)}
  BY DEF Tree
<1>2. PICK k \in 1 .. Count(n, l) : x = Node(s, n, l, k)
  BY <1>1
<1>3. l \in Nat /\ l <= n /\ (l = 0 \/ Unit[l - 1] < n)
  BY LevelsAre DEF Levels
<1>4. /\ Span(n, l, k) \in [from : Nat, to : Nat] /\ 1 <= Span(n, l, k).from
      /\ Span(n, l, k).from <= Span(n, l, k).to /\ Span(n, l, k).to <= n
  BY <1>3, SpanIs
<1>5. /\ x.session = s /\ x.from = Span(n, l, k).from /\ x.to = Span(n, l, k).to
      /\ x.level = l /\ x.kids = Kids(n, l, k)
  BY <1>2 DEF Node
<1>6. Kids(n, l, k) \in SUBSET [from : Nat, to : Nat]
  <2>1. CASE l = 0
    BY <2>1 DEF Kids
  <2>2. CASE l # 0
    BY <1>3, <2>2, KidsCover
  <2>3. QED
    BY <2>1, <2>2
<1>7. x \in Summary
  BY <1>2, <1>3, <1>4, <1>6 DEF Node, Summary
<1>8. ASSUME l > 0
      PROVE  /\ UNION {i.from .. i.to : i \in x.kids} = x.from .. x.to
             /\ \A i \in x.kids : \E y \in Tree(s, n) :
                   y.session = s /\ y.level = x.level - 1 /\ y.from = i.from /\ y.to = i.to
  <2>1. /\ UNION {i.from .. i.to : i \in Kids(n, l, k)} = Span(n, l, k).from .. Span(n, l, k).to
        /\ \A i \in Kids(n, l, k) : \E j \in 1 .. Count(n, l - 1) : i = Span(n, l - 1, j)
    BY <1>3, <1>8, KidsCover
  <2>2. l - 1 \in Levels(n)
    <3>1. l - 1 \in Nat /\ Unit[l - 1] \in Nat /\ Unit[l - 1] < n
      BY <1>3, <1>8, UnitGrows
    <3>2. ASSUME l - 1 # 0 PROVE Unit[(l - 1) - 1] < n
      <4>1. (l - 1) - 1 \in Nat /\ (l - 1) - 1 <= l - 1
        BY <1>3, <3>1, <3>2
      <4>2. Unit[(l - 1) - 1] \in Nat /\ Unit[(l - 1) - 1] <= Unit[l - 1]
        BY <3>1, <4>1, UnitGrows
      <4>3. QED
        BY <3>1, <4>2
    <3>3. QED
      BY <1>3, <3>1, <3>2, LevelsAre
  <2>3. ASSUME NEW i \in x.kids
        PROVE  \E y \in Tree(s, n) :
                  y.session = s /\ y.level = l - 1 /\ y.from = i.from /\ y.to = i.to
    <3>1. PICK j \in 1 .. Count(n, l - 1) : i = Span(n, l - 1, j)
      BY <1>5, <2>1
    <3>2. Node(s, n, l - 1, j) \in Tree(s, n)
      BY <2>2 DEF Tree
    <3>3. QED
      BY <3>1, <3>2 DEF Node
  <2>4. QED
    BY <1>5, <2>1, <2>3
<1>9. QED
  BY <1>4, <1>5, <1>7, <1>8

\* The root of a tree covers all its events.
LEMMA RootFacts ==
    ASSUME NEW s \in Session, NEW n \in Nat \ {0}
    PROVE  /\ Root(s, n) \in Tree(s, n)
           /\ Root(s, n).session = s /\ Root(s, n).from = 1 /\ Root(s, n).to = n
<1> DEFINE top == CHOOSE l \in Levels(n) : \A m \in Levels(n) : m <= l
<1>1. top \in Nat /\ top \in Levels(n) /\ n <= Unit[top]
  BY HighestLevel
<1> HIDE DEF top
<1>2. Root(s, n) = Node(s, n, top, 1)
  BY DEF Root, top
<1>3. Unit[top] \in Nat
  BY <1>1, UnitGrows
<1>4. 1 \in 1 .. Count(n, top)
  <2>1. /\ Count(n, top) \in Nat
        /\ \A k \in Nat \ {0} : k <= Count(n, top) <=> (k - 1) * Unit[top] < n
    BY <1>1, CountIs
  <2>2. (1 - 1) * Unit[top] = 0
    BY <1>3
  <2>3. QED
    BY <2>1, <2>2
<1>5. Root(s, n) \in Tree(s, n)
  BY <1>1, <1>2, <1>4 DEF Tree
<1>6. Span(n, top, 1).from = 1 /\ Span(n, top, 1).to = n
  <2>1. /\ Span(n, top, 1).from = (1 - 1) * Unit[top] + 1
        /\ Span(n, top, 1).to = Lesser(1 * Unit[top], n)
    BY <1>1, <1>4, SpanIs
  <2>2. QED
    BY <1>1, <1>3, <2>1 DEF Lesser
<1>7. QED
  BY <1>2, <1>5, <1>6 DEF Node

-----------------------------------------------------------------------------
LEMMA LengthsTyped == SessionTyped => \A s \in Session : Length(s) \in Nat
  BY DEF SessionTyped, Length

LEMMA SummaryFacts ==
    ASSUME SessionTyped, TreesWhole, NEW x \in summaries
    PROVE  /\ x \in Summary /\ x.session \in Session
           /\ 1 <= x.from /\ x.from <= x.to /\ x.to <= Length(x.session)
           /\ x.level > 0 =>
                 /\ UNION {i.from .. i.to : i \in x.kids} = x.from .. x.to
                 /\ \A i \in x.kids : \E y \in summaries :
                       y.session = x.session /\ y.level = x.level - 1 /\ y.from = i.from /\ y.to = i.to
           /\ \E y \in summaries : y.session = x.session /\ y.from = 1 /\ x.to <= y.to
<1>1. x.session \in Session /\ Length(x.session) \in Nat
  BY LengthsTyped DEF TreesWhole
<1>2. PICK n \in 1 .. Length(x.session) :
         x \in Tree(x.session, n) /\ Tree(x.session, n) \subseteq summaries
  BY DEF TreesWhole
<1>3. n \in Nat \ {0} /\ n <= Length(x.session)
  BY <1>1
<1> DEFINE s == x.session
<1>4. /\ x \in Summary /\ 1 <= x.from /\ x.from <= x.to /\ x.to <= n
      /\ x.level > 0 =>
            /\ UNION {i.from .. i.to : i \in x.kids} = x.from .. x.to
            /\ \A i \in x.kids : \E y \in Tree(s, n) :
                  y.session = s /\ y.level = x.level - 1 /\ y.from = i.from /\ y.to = i.to
  <2> HIDE DEF s
  <2>1. s \in Session /\ x \in Tree(s, n)
    BY <1>1, <1>2 DEF s
  <2>2. QED
    BY <1>3, <2>1, TreeFacts
<1>5. Root(s, n) \in Tree(s, n) /\ Root(s, n).session = s /\ Root(s, n).from = 1 /\ Root(s, n).to = n
  BY <1>1, <1>3, RootFacts
<1>6. x.to \in Nat
  BY <1>4 DEF Summary
<1>7. x.to <= Length(x.session)
  BY <1>1, <1>3, <1>4, <1>6
<1>8. QED
  BY <1>1, <1>2, <1>4, <1>5, <1>7

\* The summary that is found instead of building a tree is a root: among those that
\* end last it starts first.
LEMMA UsableCovers ==
    ASSUME SessionTyped, TreesWhole, NEW s \in Session, NEW seen \in Nat, NEW x \in Usable(s, seen)
    PROVE  x \in Summary /\ x \in summaries /\ x.session = s /\ x.from = 1 /\ seen <= x.to
<1>1. x \in summaries /\ x.session = s /\ x.to >= seen
  BY DEF Usable, Latest
<1>2. x \in Summary /\ 1 <= x.from
  BY <1>1, SummaryFacts
<1>3. PICK y \in summaries : y.session = s /\ y.from = 1 /\ x.to <= y.to
  BY <1>1, SummaryFacts
<1>4. y \in Summary
  BY SummaryFacts
<1>5. y.to < x.to \/ (y.to = x.to /\ x.from <= y.from)
  BY <1>1, <1>3 DEF Usable, Latest
<1>6. x.from \in Nat /\ x.to \in Nat /\ y.to \in Nat
  BY <1>2, <1>4 DEF Summary
<1>7. QED
  BY <1>1, <1>2, <1>3, <1>5, <1>6

-----------------------------------------------------------------------------
(* What was read stays true while histories and tables grow.                  *)

Growing ==
    /\ \A s \in Session : Length(s) <= Length(s)'
    /\ \A s \in Session : Known(s) => Known(s)' /\ sessions'[s].parents = sessions[s].parents
    /\ summaries \subseteq summaries' /\ checkpoints \subseteq checkpoints'

LEMMA StaysSound ==
    ASSUME SessionTyped, SessionTyped', Growing, NEW k
    PROVE  /\ k \in checkpoints /\ RowSound(k) => RowSound(k)'
           /\ k \in SessionCall /\ CallSound(k) => CallSound(k)'
<1>1. \A s \in Session : Length(s) \in Nat /\ Length(s)' \in Nat /\ Length(s) <= Length(s)'
  BY LengthsTyped DEF Growing, SessionTyped, Length
<1>2. \A root, s, n : RootCovers(root, s, n) => RootCovers(root, s, n)'
  BY DEF RootCovers, Growing
<1>3. \A root, s, n : Verified(root, s, n) => Verified(root, s, n)'
  BY <1>2 DEF Verified
<1>4. ASSUME k \in checkpoints, RowSound(k) PROVE RowSound(k)'
  <2>1. k.through \in Nat /\ k.session \in Session
    BY <1>4 DEF SessionTyped, CheckpointRow
  <2>2. QED
    BY <1>1, <1>3, <1>4, <2>1 DEF RowSound
<1>5. ASSUME k \in SessionCall, CallSound(k) PROVE CallSound(k)'
  <2>1. k.through \in Nat /\ k.seen \in Nat
    BY <1>5 DEF SessionCall
  <2>2. k.at \in {"events", "look", "build", "answer", "insert", "close"} =>
           k.session \in Session /\ k.through <= Length(k.session)'
    BY <1>1, <1>5, <2>1 DEF CallSound
  <2>3. k.at \in {"look", "build"} => k.seen \in 1 .. Length(k.session)'
    BY <1>1, <1>5, <2>1, <2>2 DEF CallSound
  <2>4. QED
    BY <1>2, <1>3, <1>5, <2>1, <2>2, <2>3 DEF CallSound, Growing
<1>6. QED
  BY <1>4, <1>5

\* The trees that are there stay, and speak of events that stay.
LEMMA TreesStay ==
    ASSUME SessionTyped, SessionTyped', TreesWhole, Growing, NEW x \in summaries
    PROVE  /\ x.session \in Session
           /\ \E n \in 1 .. Length(x.session)' :
                 x \in Tree(x.session, n) /\ Tree(x.session, n) \subseteq summaries'
<1>1. PICK n \in 1 .. Length(x.session) :
         x \in Tree(x.session, n) /\ Tree(x.session, n) \subseteq summaries
  BY DEF TreesWhole
<1>2. x.session \in Session
  BY DEF TreesWhole
<1>3. Length(x.session) \in Nat /\ Length(x.session)' \in Nat /\ Length(x.session) <= Length(x.session)'
  BY <1>2, LengthsTyped DEF Growing, SessionTyped, Length
<1>4. n \in 1 .. Length(x.session)'
  BY <1>3
<1>5. QED
  BY <1>1, <1>2, <1>4 DEF Growing

\* A step of one call: the others still hold what they have read.
LEMMA CallMoves ==
    ASSUME SessionInv, Growing, NEW c \in Client, NEW k \in SessionCall,
           call' = [call EXCEPT ![c] = k], CallSound(k)',
           sessions' \in [Session -> [state : {"none", "ACTIVE", "CLOSED"}, parents : SUBSET Session]],
           history' \in [Session -> Seq(SessionEvent)], checkpoints' \in SUBSET CheckpointRow,
           TreesWhole', LineageSound',
           \A row \in checkpoints' \ checkpoints : RowSound(row)'
    PROVE  SessionInv'
<1>1. SessionTyped /\ SessionTyped'
  BY DEF SessionInv, SessionTyped
<1>2. ASSUME NEW row \in checkpoints' PROVE RowSound(row)'
  <2>1. row \in checkpoints => RowSound(row)
    BY DEF SessionInv
  <2>2. QED
    BY <1>1, <2>1, StaysSound
<1>3. ASSUME NEW d \in Client PROVE CallSound(call[d])'
  <2>1. CASE d = c
    <3>1. call'[d] = k
      BY <1>1, <2>1 DEF SessionTyped
    <3>2. QED
      BY <3>1
  <2>2. CASE d # c
    <3>1. call'[d] = call[d] /\ call[d] \in SessionCall /\ CallSound(call[d])
      BY <1>1, <2>2 DEF SessionTyped, SessionInv
    <3>2. PICK j : j = call[d]
      OBVIOUS
    <3>3. CallSound(j)'
      BY <1>1, <3>1, <3>2, StaysSound
    <3>4. QED
      BY <3>1, <3>2, <3>3
  <2>3. QED
    BY <2>1, <2>2
<1>4. QED
  BY <1>1, <1>2, <1>3 DEF SessionInv

LEMMA QuietStep ==
    ASSUME SessionInv, sessions' = sessions, history' = history, summaries' = summaries,
           checkpoints' = checkpoints, NEW c \in Client, NEW k \in SessionCall,
           call' = [call EXCEPT ![c] = k], CallSound(k)
    PROVE  SessionInv'
<1>1. SessionTyped /\ SessionTyped' /\ \A s \in Session : Length(s)' = Length(s)
  BY DEF SessionInv, SessionTyped, Length
<1>2. Growing
  BY <1>1, LengthsTyped DEF Growing, Known
<1>3. CallSound(k)'
  BY <1>1, <1>2, StaysSound
<1>4. TreesWhole'
  BY DEF SessionInv, TreesWhole, Length
<1>5. LineageSound'
  BY DEF SessionInv, LineageSound, Known, Length
<1>6. QED
  BY <1>1, <1>2, <1>3, <1>4, <1>5, CallMoves DEF SessionTyped

LEMMA IdleFacts == Idle \in SessionCall /\ CallSound(Idle)
<1>1. Idle \in SessionCall
  BY DEF Idle, SessionCall
<1>2. CallSound(Idle)
  BY DEF Idle, CallSound
<1>3. QED
  BY <1>1, <1>2

LEMMA SessionInitInv == SessionInit => SessionInv
<1> SUFFICES ASSUME SessionInit PROVE SessionInv
  OBVIOUS
<1>1. SessionTyped
  BY IdleFacts DEF SessionInit, SessionTyped
<1>2. TreesWhole
  BY DEF SessionInit, TreesWhole
<1>3. LineageSound
  BY DEF SessionInit, LineageSound, Length
<1>4. ASSUME NEW c \in Client PROVE CallSound(call[c])
  <2>1. call[c] = Idle
    BY DEF SessionInit
  <2>2. QED
    BY <2>1, IdleFacts
<1>5. checkpoints = {}
  BY DEF SessionInit
<1>6. QED
  BY <1>1, <1>2, <1>3, <1>4, <1>5 DEF SessionInv

\* A call reads the history when it starts.
LEMMA CallStep ==
    ASSUME SessionInv, NEW c \in Client, NEW s \in Session, NEW todo \in SUBSET Session,
           NEW op \in {"context", "checkpoint", "close", "derive"}, NEW at \in {"events", "answer"},
           at = "answer" => op # "context" \/ Length(s) <= RecentEvents,
           Call(c, op, at, s, todo)
    PROVE  SessionInv'
<1>1. SessionTyped /\ Length(s) \in Nat
  BY LengthsTyped DEF SessionInv
<1>2. PICK k : k = [Idle EXCEPT !.op = op, !.at = at, !.session = s, !.through = Length(s), !.todo = todo]
  OBVIOUS
<1>3. call' = [call EXCEPT ![c] = k]
  BY <1>2 DEF Call
<1>4. /\ k.op = op /\ k.at = at /\ k.session = s /\ k.through = Length(s)
      /\ k.root = NoRoot /\ k.made = {} /\ k \in SessionCall
  <2>1. PICK i : i = Idle
    OBVIOUS
  <2>2. i \in SessionCall /\ i.root = NoRoot /\ i.made = {}
    BY <2>1, IdleFacts DEF Idle
  <2>3. QED
    BY <1>1, <1>2, <2>1, <2>2 DEF SessionCall
<1>5. CallSound(k)
  BY <1>1, <1>4 DEF CallSound
<1>6. QED
  BY <1>3, <1>4, <1>5, QuietStep DEF Call

LEMMA CallCompactStep ==
    ASSUME SessionInv, NEW c \in Client, NEW s \in Session, CallCompact(c, s) PROVE SessionInv'
<1>1. SessionTyped /\ Length(s) \in Nat /\ Length(s) > 0
  BY LengthsTyped DEF SessionInv, CallCompact
<1>2. PICK k : k = [Idle EXCEPT !.op = "compact", !.at = "look", !.session = s, !.seen = Length(s)]
  OBVIOUS
<1>3. call' = [call EXCEPT ![c] = k]
  BY <1>2 DEF CallCompact
<1>4. /\ k.op = "compact" /\ k.at = "look" /\ k.session = s /\ k.through = 0
      /\ k.seen = Length(s) /\ k.made = {} /\ k \in SessionCall
  <2>1. PICK i : i = Idle
    OBVIOUS
  <2>2. i \in SessionCall /\ i.through = 0 /\ i.made = {}
    BY <2>1, IdleFacts DEF Idle
  <2>3. QED
    BY <1>1, <1>2, <2>1, <2>2 DEF SessionCall
<1>5. CallSound(k)
  BY <1>1, <1>4 DEF CallSound
<1>6. QED
  BY <1>3, <1>4, <1>5, QuietStep DEF CallCompact

\* A call returns, or its client dies.
LEMMA EndCallStep == ASSUME SessionInv, NEW c \in Client, EndCall(c) PROVE SessionInv'
<1>1. call' = [call EXCEPT ![c] = Idle]
  BY DEF EndCall, Returned
<1>2. QED
  BY <1>1, IdleFacts, QuietStep DEF EndCall

\* compact returns a root, to its caller or to the operation it is part of.
LEMMA Settles ==
    ASSUME SessionInv, NEW c \in Client, call[c].at \in {"events", "look", "build"},
           NEW root \in Summary \cup {NoRoot}, Settle(c, root),
           checkpoints' = checkpoints, \A s \in Session : Length(s)' = Length(s),
           \/ root = NoRoot /\ call[c].through = 0
           \/ /\ root \in summaries' /\ root.session = call[c].session
              /\ root.from = 1 /\ call[c].through <= root.to
    PROVE  \E k \in SessionCall : call' = [call EXCEPT ![c] = k] /\ CallSound(k)'
<1>1. call[c] \in SessionCall /\ CallSound(call[c]) /\ SessionTyped
  BY DEF SessionInv, SessionTyped
<1>2. CASE call[c].op = "compact"
  <2>1. call' = [call EXCEPT ![c] = Idle]
    BY <1>2 DEF Settle, Returned
  <2>2. CallSound(Idle)'
    BY DEF CallSound, Idle
  <2>3. QED
    BY <2>1, <2>2, IdleFacts
<1>3. CASE call[c].op # "compact"
  <2>1. PICK old \in SessionCall : old = call[c]
    BY <1>1
  <2>2. PICK k : k = [old EXCEPT !.root = root, !.seen = 0, !.at = IF old.op = "context" THEN "answer" ELSE "insert"]
    OBVIOUS
  <2>3. call' = [call EXCEPT ![c] = k]
    BY <1>1, <1>3, <2>1, <2>2 DEF Settle, SessionTyped
  <2>4. /\ k.op = old.op /\ k.session = old.session /\ k.through = old.through
        /\ k.made = old.made /\ k.root = root /\ k.seen = 0 /\ k \in SessionCall
        /\ k.at = IF old.op = "context" THEN "answer" ELSE "insert"
    <3>1. (IF old.op = "context" THEN "answer" ELSE "insert") \in {"answer", "insert"}
      OBVIOUS
    <3>2. PICK at \in {"answer", "insert"} : at = IF old.op = "context" THEN "answer" ELSE "insert"
      BY <3>1
    <3>3. k = [old EXCEPT !.root = root, !.seen = 0, !.at = at]
      BY <2>2, <3>2
    <3>4. k \in SessionCall
      BY <2>1, <3>3 DEF SessionCall
    <3>5. QED
      BY <2>1, <3>2, <3>3, <3>4 DEF SessionCall
  <2>5. CallSound(old)
    BY <1>1, <2>1
  <2>6. \/ root = NoRoot /\ old.through = 0
        \/ /\ root \in summaries' /\ root.session = old.session
           /\ root.from = 1 /\ old.through <= root.to
    BY <2>1
  <2>7. old.at \in {"events", "look", "build"} /\ old.op # "compact"
    BY <1>3, <2>1
  <2>8. CallSound(k)'
    BY <2>4, <2>5, <2>6, <2>7, SessionAssumption DEF CallSound, Verified, RootCovers
  <2>9. QED
    BY <2>3, <2>4, <2>8
<1>4. QED
  BY <1>2, <1>3

LEMMA ReadEventsStep == ASSUME SessionInv, NEW c \in Client, ReadEvents(c) PROVE SessionInv'
<1> DEFINE n == Length(call[c].session)
<1>1. PICK old \in SessionCall : old = call[c]
  BY DEF SessionInv, SessionTyped
<1>2. /\ old.at = "events" /\ CallSound(old) /\ old.session \in Session /\ old.through <= n
      /\ n \in Nat /\ old.through \in Nat /\ SessionTyped
      /\ old.op = "compact" => old.through = 0
  <2>1. old.at = "events" /\ CallSound(old) /\ SessionTyped
    BY <1>1 DEF ReadEvents, SessionInv
  <2>2. old.session \in Session /\ old.through <= n
    BY <1>1, <2>1 DEF CallSound
  <2>3. QED
    BY <1>1, <2>1, <2>2, LengthsTyped DEF CallSound, SessionCall
<1>3. CASE n = 0
  <2>1. Settle(c, NoRoot) /\ old.through = 0
    BY <1>2, <1>3 DEF ReadEvents
  <2>2. PICK k \in SessionCall : call' = [call EXCEPT ![c] = k] /\ CallSound(k)'
    BY <1>1, <1>2, <2>1, Settles DEF ReadEvents, Length
  <2>3. CallSound(k)
    BY <2>2 DEF ReadEvents, CallSound, Verified, RootCovers, Known, Length
  <2>4. QED
    BY <2>2, <2>3, QuietStep DEF ReadEvents
<1>4. CASE n # 0
  <2>1. PICK at \in {"build", "look"} :
           call' = [call EXCEPT ![c].seen = n, ![c].at = at]
    BY <1>4 DEF ReadEvents
  <2>2. PICK k : k = [old EXCEPT !.seen = n, !.at = at]
    OBVIOUS
  <2>3. call' = [call EXCEPT ![c] = k]
    BY <1>1, <1>2, <2>1, <2>2 DEF SessionTyped
  <2>4. /\ k.op = old.op /\ k.session = old.session /\ k.through = old.through
        /\ k.made = old.made /\ k.seen = n /\ k.at = at /\ k \in SessionCall
    BY <1>2, <2>1, <2>2 DEF SessionCall
  <2>5. CallSound(k)
    BY <1>1, <1>2, <1>4, <2>1, <2>4 DEF CallSound
  <2>6. QED
    BY <2>3, <2>4, <2>5, QuietStep DEF ReadEvents
<1>5. QED
  BY <1>3, <1>4

LEMMA LookForRootStep == ASSUME SessionInv, NEW c \in Client, LookForRoot(c) PROVE SessionInv'
<1>1. PICK old \in SessionCall : old = call[c]
  BY DEF SessionInv, SessionTyped
<1>2. /\ old.at = "look" /\ CallSound(old) /\ old.session \in Session /\ SessionTyped /\ TreesWhole
      /\ old.seen \in Nat /\ old.through \in Nat /\ old.through <= old.seen
  BY <1>1 DEF LookForRoot, SessionInv, CallSound, SessionCall
<1>3. CASE \E x \in Usable(old.session, old.seen) : Settle(c, x)
  <2>1. PICK x \in Usable(old.session, old.seen) : Settle(c, x)
    BY <1>3
  <2>2. x \in Summary /\ x \in summaries /\ x.session = old.session /\ x.from = 1 /\ old.seen <= x.to
    BY <1>2, UsableCovers
  <2>3. old.through <= x.to
    BY <1>2, <2>2 DEF Summary
  <2>4. PICK k \in SessionCall : call' = [call EXCEPT ![c] = k] /\ CallSound(k)'
    BY <1>1, <1>2, <2>1, <2>2, <2>3, Settles DEF LookForRoot, Length
  <2>5. CallSound(k)
    BY <2>4 DEF LookForRoot, CallSound, Verified, RootCovers, Known, Length
  <2>6. QED
    BY <2>4, <2>5, QuietStep DEF LookForRoot
<1>4. CASE call' = [call EXCEPT ![c].at = "build"]
  <2>1. PICK k : k = [old EXCEPT !.at = "build"]
    OBVIOUS
  <2>2. call' = [call EXCEPT ![c] = k]
    BY <1>1, <1>2, <1>4, <2>1 DEF SessionTyped
  <2>3. /\ k.op = old.op /\ k.session = old.session /\ k.through = old.through
        /\ k.made = old.made /\ k.seen = old.seen /\ k.at = "build" /\ k \in SessionCall
    BY <2>1 DEF SessionCall
  <2>4. CallSound(k)
    BY <1>2, <2>3 DEF CallSound
  <2>5. QED
    BY <2>2, <2>3, <2>4, QuietStep DEF LookForRoot
<1>5. QED
  BY <1>1, <1>3, <1>4 DEF LookForRoot, Proceed

\* A tree is written in one transaction, over the events that were read before.
LEMMA BuildTreeStep == ASSUME SessionInv, NEW c \in Client, BuildTree(c) PROVE SessionInv'
<1>1. PICK old \in SessionCall : old = call[c]
  BY DEF SessionInv, SessionTyped
<1>2. /\ old.at = "build" /\ CallSound(old) /\ old.session \in Session /\ SessionTyped /\ TreesWhole
      /\ old.seen \in 1 .. Length(old.session) /\ Length(old.session) \in Nat
      /\ old.through \in Nat /\ old.through <= old.seen
  <2>1. old.at = "build" /\ CallSound(old) /\ SessionTyped /\ TreesWhole
    BY <1>1 DEF BuildTree, SessionInv
  <2>2. QED
    BY <2>1, LengthsTyped DEF CallSound, SessionCall
<1> DEFINE s == old.session
           n == old.seen
<1>3. s \in Session /\ n \in Nat \ {0} /\ n \in 1 .. Length(s)
  BY <1>2
<1>4. /\ sessions' = sessions /\ history' = history /\ checkpoints' = checkpoints
      /\ summaries' = summaries \cup Tree(s, n) /\ Settle(c, Root(s, n))
  BY <1>1 DEF BuildTree
<1> HIDE DEF s, n
<1>5. /\ Root(s, n) \in Tree(s, n) /\ Root(s, n).session = s /\ Root(s, n).from = 1
      /\ Root(s, n).to = n /\ Root(s, n) \in Summary
  BY <1>3, RootFacts, TreeFacts
<1>6. Growing /\ \A t \in Session : Length(t)' = Length(t)
  BY <1>2, <1>4, LengthsTyped DEF Growing, Known, Length
<1>7. PICK k \in SessionCall : call' = [call EXCEPT ![c] = k] /\ CallSound(k)'
  <2>1. s = call[c].session /\ n = old.seen /\ call[c].through <= n
    BY <1>1, <1>2 DEF s, n
  <2>2. QED
    BY <1>1, <1>2, <1>4, <1>5, <1>6, <2>1, Settles
<1>8. SessionTyped'
  BY <1>2, <1>4, <1>7 DEF SessionTyped
<1>9. TreesWhole'
  <2>1. ASSUME NEW x \in summaries'
        PROVE  /\ x.session \in Session
               /\ \E m \in 1 .. Length(x.session)' :
                     x \in Tree(x.session, m) /\ Tree(x.session, m) \subseteq summaries'
    <3>1. CASE x \in summaries
      BY <1>2, <1>6, <1>8, <3>1, TreesStay
    <3>2. CASE x \in Tree(s, n)
      <4>1. x.session = s
        BY <1>3, <3>2, TreeFacts
      <4>2. QED
        BY <1>3, <1>4, <1>6, <3>2, <4>1
    <3>3. QED
      BY <1>4, <3>1, <3>2
  <2>2. QED
    BY <2>1 DEF TreesWhole, Length
<1>10. LineageSound'
  BY <1>4 DEF SessionInv, LineageSound, Known, Length
<1>11. QED
  BY <1>2, <1>4, <1>6, <1>7, <1>8, <1>9, <1>10, CallMoves DEF SessionTyped

\* A step that leaves the summaries and lengthens histories at most.
LEMMA TreesKept ==
    ASSUME SessionTyped, SessionTyped', TreesWhole, Growing, summaries' = summaries
    PROVE  TreesWhole'
<1>1. ASSUME NEW x \in summaries'
      PROVE  /\ x.session \in Session
             /\ \E m \in 1 .. Length(x.session)' :
                   x \in Tree(x.session, m) /\ Tree(x.session, m) \subseteq summaries'
  BY TreesStay
<1>2. QED
  BY <1>1 DEF TreesWhole, Length

\* A step of no call.
LEMMA NobodyMoves ==
    ASSUME SessionInv, Growing, call' = call, summaries' = summaries, checkpoints' = checkpoints,
           SessionTyped', LineageSound'
    PROVE  SessionInv'
<1>1. SessionTyped /\ TreesWhole'
  BY TreesKept DEF SessionInv
<1>2. ASSUME NEW row \in checkpoints' PROVE RowSound(row)'
  BY <1>1, StaysSound DEF SessionInv
<1>3. ASSUME NEW d \in Client PROVE CallSound(call[d])'
  <2>1. PICK j : j = call[d]
    OBVIOUS
  <2>2. j \in SessionCall /\ CallSound(j)
    BY <1>1, <2>1 DEF SessionInv, SessionTyped
  <2>3. CallSound(j)'
    BY <1>1, <2>2, StaysSound
  <2>4. QED
    BY <2>1, <2>3
<1>4. QED
  BY <1>1, <1>2, <1>3 DEF SessionInv

LEMMA FreshIs == ASSUME \E s \in Session : ~Known(s) PROVE Fresh \in Session /\ ~Known(Fresh)
  BY DEF Fresh

\* A session whose row changes was unknown, or keeps its parents.
LEMMA SessionsChange ==
    ASSUME SessionInv, NEW s \in Session, NEW row \in [state : {"ACTIVE", "CLOSED"}, parents : SUBSET Session],
           sessions' = [sessions EXCEPT ![s] = row], ~Known(s) \/ row.parents = sessions[s].parents,
           history' = history, summaries' = summaries, checkpoints' = checkpoints,
           call' \in [Client -> SessionCall]
    PROVE  Growing /\ SessionTyped' /\ LineageSound' /\ Known(s)'
<1>1. SessionTyped /\ LineageSound
  BY DEF SessionInv
<1>2. sessions' \in [Session -> [state : {"none", "ACTIVE", "CLOSED"}, parents : SUBSET Session]]
  BY <1>1 DEF SessionTyped
<1>3. SessionTyped'
  BY <1>1, <1>2 DEF SessionTyped
<1>4. /\ sessions'[s] = row /\ row.state # "none"
      /\ \A t \in Session \ {s} : sessions'[t] = sessions[t]
  BY <1>1 DEF SessionTyped
<1>5. Growing /\ Known(s)'
  BY <1>1, <1>4, LengthsTyped DEF Growing, Known, Length
<1>6. ASSUME NEW t \in Session
      PROVE  /\ ~Known(t)' => history'[t] = <<>>
             /\ \A i \in 1 .. Length(t)' : history'[t][i].type = "lineage" =>
                   /\ history'[t][i].made \subseteq checkpoints'
                   /\ {k.session : k \in history'[t][i].made} = sessions'[t].parents
  <2>1. CASE t # s
    BY <1>1, <1>4, <2>1 DEF LineageSound, Known, Length
  <2>2. CASE t = s /\ ~Known(s)
    <3>1. history'[t] = <<>>
      BY <1>1, <2>2 DEF LineageSound
    <3>2. QED
      BY <3>1 DEF Length
  <2>3. CASE t = s /\ Known(s)
    BY <1>1, <1>4, <1>5, <2>3 DEF LineageSound, Length
  <2>4. QED
    BY <2>1, <2>2, <2>3
<1>7. LineageSound'
  BY <1>6 DEF LineageSound, Length, Known
<1>8. QED
  BY <1>3, <1>5, <1>7

LEMMA CreateSessionStep == ASSUME SessionInv, CreateSession PROVE SessionInv'
<1>1. Fresh \in Session /\ ~Known(Fresh)
  BY FreshIs DEF CreateSession
<1>2. PICK s \in Session : s = Fresh
  BY <1>1
<1>3. PICK row : row = [sessions[s] EXCEPT !.state = "ACTIVE"]
  OBVIOUS
<1>4. row \in [state : {"ACTIVE", "CLOSED"}, parents : SUBSET Session]
  BY <1>3 DEF SessionInv, SessionTyped
<1>5. sessions' = [sessions EXCEPT ![s] = row]
  BY <1>2, <1>3 DEF CreateSession, SessionInv, SessionTyped
<1>6. call' \in [Client -> SessionCall]
  BY DEF CreateSession, SessionInv, SessionTyped
<1>7. Growing /\ SessionTyped' /\ LineageSound'
  BY <1>1, <1>2, <1>4, <1>5, <1>6, SessionsChange DEF CreateSession
<1>8. QED
  BY <1>7, NobodyMoves DEF CreateSession

\* An event is appended; those before it stay.
LEMMA HistoryGrows ==
    ASSUME SessionTyped, NEW s \in Session, NEW e \in SessionEvent,
           history' = [history EXCEPT ![s] = Append(@, e)]
    PROVE  /\ history' \in [Session -> Seq(SessionEvent)]
           /\ \A t \in Session : Length(t) <= Length(t)'
           /\ \A t \in Session \ {s} : history'[t] = history[t]
           /\ \A i \in 1 .. Length(s)' : \/ i \in 1 .. Length(s) /\ history'[s][i] = history[s][i]
                                         \/ history'[s][i] = e
<1>1. history[s] \in Seq(SessionEvent) /\ history'[s] = Append(history[s], e)
  BY DEF SessionTyped
<1>2. /\ Append(history[s], e) \in Seq(SessionEvent)
      /\ Len(Append(history[s], e)) = Len(history[s]) + 1 /\ Len(history[s]) \in Nat
      /\ \A i \in 1 .. Len(history[s]) : Append(history[s], e)[i] = history[s][i]
      /\ Append(history[s], e)[Len(history[s]) + 1] = e
  BY <1>1
<1>3. \A t \in Session \ {s} : history'[t] = history[t]
  BY DEF SessionTyped
<1>4. history' \in [Session -> Seq(SessionEvent)]
  BY <1>1, <1>2 DEF SessionTyped
<1>5. \A t \in Session : Length(t) <= Length(t)'
  BY <1>1, <1>2, <1>3, LengthsTyped DEF Length
<1>6. \A i \in 1 .. Length(s)' : \/ i \in 1 .. Length(s) /\ history'[s][i] = history[s][i]
                                 \/ history'[s][i] = e
  BY <1>1, <1>2 DEF Length
<1>7. QED
  BY <1>3, <1>4, <1>5, <1>6

\* What an appended event says of lineage holds.
LEMMA AppendKeepsLineage ==
    ASSUME SessionInv, NEW s \in Session, NEW e \in SessionEvent, Known(s),
           history' = [history EXCEPT ![s] = Append(@, e)],
           sessions' = sessions, checkpoints' = checkpoints,
           e.type = "lineage" => /\ e.made \subseteq checkpoints
                                 /\ {k.session : k \in e.made} = sessions[s].parents
    PROVE  LineageSound'
<1>1. SessionTyped /\ LineageSound
  BY DEF SessionInv
<1>2. ASSUME NEW t \in Session
      PROVE  /\ ~Known(t)' => history'[t] = <<>>
             /\ \A i \in 1 .. Length(t)' : history'[t][i].type = "lineage" =>
                   /\ history'[t][i].made \subseteq checkpoints'
                   /\ {k.session : k \in history'[t][i].made} = sessions'[t].parents
  <2>1. CASE t # s
    <3>1. history'[t] = history[t]
      BY <1>1, <2>1, HistoryGrows
    <3>2. QED
      BY <1>1, <3>1 DEF LineageSound, Known, Length
  <2>2. CASE t = s
    <3>1. Known(t)'
      BY <2>2 DEF Known
    <3>2. ASSUME NEW i \in 1 .. Length(s)', history'[s][i].type = "lineage"
          PROVE  /\ history'[s][i].made \subseteq checkpoints
                 /\ {k.session : k \in history'[s][i].made} = sessions[s].parents
      <4>1. \/ i \in 1 .. Length(s) /\ history'[s][i] = history[s][i]
            \/ history'[s][i] = e
        BY <1>1, HistoryGrows
      <4>2. CASE i \in 1 .. Length(s) /\ history'[s][i] = history[s][i]
        BY <1>1, <3>2, <4>2 DEF LineageSound
      <4>3. CASE history'[s][i] = e
        BY <3>2, <4>3
      <4>4. QED
        BY <4>1, <4>2, <4>3
    <3>3. QED
      BY <2>2, <3>1, <3>2
  <2>3. QED
    BY <2>1, <2>2
<1>3. QED
  BY <1>2 DEF LineageSound, Length, Known

LEMMA AppendEventStep == ASSUME SessionInv, NEW s \in Session, AppendEvent(s) PROVE SessionInv'
<1>1. Note \in SessionEvent /\ Note.type # "lineage"
  BY DEF Note, SessionEvent
<1>2. SessionTyped /\ history' = [history EXCEPT ![s] = Append(@, Note)] /\ Known(s)
  BY DEF AppendEvent, SessionInv
<1>3. /\ history' \in [Session -> Seq(SessionEvent)]
      /\ \A t \in Session : Length(t) <= Length(t)'
  BY <1>1, <1>2, HistoryGrows
<1>4. Growing
  BY <1>3 DEF Growing, AppendEvent, Known
<1>5. LineageSound'
  BY <1>1, <1>2, AppendKeepsLineage DEF AppendEvent
<1>6. SessionTyped'
  BY <1>2, <1>3 DEF AppendEvent, SessionTyped
<1>7. QED
  BY <1>4, <1>5, <1>6, NobodyMoves DEF AppendEvent

LEMMA AppendLineageStep == ASSUME SessionInv, NEW c \in Client, AppendLineage(c) PROVE SessionInv'
<1>1. PICK old \in SessionCall : old = call[c]
  BY DEF SessionInv, SessionTyped
<1>2. /\ old.at = "lineage" /\ CallSound(old) /\ SessionTyped /\ TreesWhole
      /\ old.session \in Session /\ Known(old.session) /\ old.made \subseteq checkpoints
      /\ {k.session : k \in old.made} = sessions[old.session].parents
  <2>1. old.at = "lineage" /\ CallSound(old) /\ SessionTyped /\ TreesWhole
    BY <1>1 DEF AppendLineage, SessionInv
  <2>2. QED
    BY <2>1 DEF CallSound
<1>3. PICK e : e = [type |-> "lineage", made |-> old.made]
  OBVIOUS
<1>4. e \in SessionEvent /\ e.type = "lineage" /\ e.made = old.made
  BY <1>1, <1>3 DEF SessionEvent, SessionCall
<1>5. history' = [history EXCEPT ![old.session] = Append(@, e)]
  BY <1>1, <1>3 DEF AppendLineage
<1>6. /\ history' \in [Session -> Seq(SessionEvent)]
      /\ \A t \in Session : Length(t) <= Length(t)'
  BY <1>2, <1>4, <1>5, HistoryGrows
<1>7. Growing
  BY <1>6 DEF Growing, AppendLineage, Known
<1>8. LineageSound'
  BY <1>2, <1>4, <1>5, AppendKeepsLineage DEF AppendLineage
<1>9. call' = [call EXCEPT ![c] = Idle] /\ CallSound(Idle)'
  BY DEF AppendLineage, Returned, CallSound, Idle
<1>10. SessionTyped'
  BY <1>2, <1>6, <1>9, IdleFacts DEF AppendLineage, SessionTyped
<1>11. TreesWhole'
  BY <1>2, <1>7, <1>10, TreesKept DEF AppendLineage
<1>12. QED
  BY <1>7, <1>8, <1>9, <1>10, <1>11, IdleFacts, CallMoves DEF AppendLineage, SessionTyped

LEMMA CloseSessionStep == ASSUME SessionInv, NEW c \in Client, CloseSession(c) PROVE SessionInv'
<1>1. PICK s : s = call[c].session
  OBVIOUS
<1>2. s \in Session /\ SessionTyped /\ TreesWhole
  BY <1>1 DEF CloseSession, SessionInv, CallSound
<1>3. PICK row : row = [sessions[s] EXCEPT !.state = "CLOSED"]
  OBVIOUS
<1>4. /\ row \in [state : {"ACTIVE", "CLOSED"}, parents : SUBSET Session]
      /\ row.parents = sessions[s].parents
  <2>1. PICK old \in [state : {"none", "ACTIVE", "CLOSED"}, parents : SUBSET Session] : old = sessions[s]
    BY <1>2 DEF SessionTyped
  <2>2. row = [old EXCEPT !.state = "CLOSED"]
    BY <1>3, <2>1
  <2>3. QED
    BY <2>1, <2>2
<1>5. sessions' = [sessions EXCEPT ![s] = row]
  BY <1>1, <1>2, <1>3 DEF CloseSession, SessionTyped
<1>6. call' = [call EXCEPT ![c] = Idle] /\ CallSound(Idle)'
  BY DEF CloseSession, Returned, CallSound, Idle
<1>7. call' \in [Client -> SessionCall]
  BY <1>2, <1>6, IdleFacts DEF SessionTyped
<1>8. Growing /\ SessionTyped' /\ LineageSound'
  BY <1>2, <1>4, <1>5, <1>7, SessionsChange DEF CloseSession
<1>9. TreesWhole'
  BY <1>2, <1>8, TreesKept DEF CloseSession
<1>10. QED
  BY <1>6, <1>8, <1>9, IdleFacts, CallMoves DEF CloseSession, SessionTyped

\* A child is created with the parents its lineage event will name.
LEMMA CreateChildStep == ASSUME SessionInv, NEW c \in Client, CreateChild(c) PROVE SessionInv'
<1>1. PICK old \in SessionCall : old = call[c]
  BY DEF SessionInv, SessionTyped
<1>2. old.at = "create" /\ CallSound(old) /\ SessionTyped /\ TreesWhole
  BY <1>1 DEF CreateChild, SessionInv
<1>3. PICK s \in Session : s = Fresh /\ ~Known(s)
  BY FreshIs DEF CreateChild
<1>4. PICK row : row = [state |-> "ACTIVE", parents |-> {k.session : k \in old.made}]
  OBVIOUS
<1>5. row \in [state : {"ACTIVE", "CLOSED"}, parents : SUBSET Session]
  BY <1>1, <1>4 DEF SessionCall, CheckpointRow
<1>6. sessions' = [sessions EXCEPT ![s] = row] /\ sessions'[s] = row
  BY <1>1, <1>2, <1>3, <1>4 DEF CreateChild, SessionTyped
<1>7. PICK k : k = [old EXCEPT !.at = "lineage", !.session = s]
  OBVIOUS
<1>8. /\ k \in SessionCall /\ k.at = "lineage" /\ k.session = s /\ k.made = old.made
      /\ k.op = old.op
  BY <1>3, <1>7 DEF SessionCall
<1>9. call' = [call EXCEPT ![c] = k] /\ call' \in [Client -> SessionCall]
  BY <1>1, <1>2, <1>3, <1>7, <1>8 DEF CreateChild, SessionTyped
<1>10. Growing /\ SessionTyped' /\ LineageSound' /\ Known(s)'
  BY <1>3, <1>5, <1>6, <1>9, SessionsChange DEF CreateChild
<1>11. CallSound(k)'
  <2>1. /\ k.made \subseteq checkpoints' /\ Known(k.session)'
        /\ {j.session : j \in k.made} = sessions'[k.session].parents
    BY <1>2, <1>4, <1>6, <1>8, <1>10 DEF CallSound, CreateChild, Known
  <2>2. QED
    BY <1>8, <2>1 DEF CallSound
<1>12. TreesWhole'
  BY <1>2, <1>10, TreesKept DEF CreateChild
<1>13. QED
  BY <1>8, <1>9, <1>10, <1>11, <1>12, CallMoves DEF CreateChild, SessionTyped

\* The checkpoint that is written ties what was verified to the root that was returned.
LEMMA InsertCheckpointStep == ASSUME SessionInv, NEW c \in Client, InsertCheckpoint(c) PROVE SessionInv'
<1>1. PICK old \in SessionCall : old = call[c]
  BY DEF SessionInv, SessionTyped
<1>2. /\ old.at = "insert" /\ CallSound(old) /\ SessionTyped /\ TreesWhole
      /\ old.session \in Session /\ old.through <= Length(old.session)
      /\ Verified(old.root, old.session, old.through)
  <2>1. old.at = "insert" /\ CallSound(old) /\ SessionTyped /\ TreesWhole
    BY <1>1 DEF InsertCheckpoint, SessionInv
  <2>2. QED
    BY <2>1 DEF CallSound
<1>3. PICK row : row = [session |-> old.session, through |-> old.through, root |-> old.root]
  OBVIOUS
<1>4. row \in CheckpointRow /\ RowSound(row)
  BY <1>1, <1>2, <1>3 DEF CheckpointRow, SessionCall, RowSound
<1>5. CheckpointOf(c) = row /\ checkpoints' = checkpoints \cup {row}
  BY <1>1, <1>3 DEF CheckpointOf, InsertCheckpoint
<1>6. PICK noted : noted = [old EXCEPT !.made = @ \cup {row}]
  OBVIOUS
<1>7. /\ noted \in SessionCall /\ noted.op = old.op /\ noted.at = "insert"
      /\ noted.session = old.session /\ noted.through = old.through /\ noted.root = old.root
      /\ noted.todo = old.todo /\ noted.made = old.made \cup {row}
      /\ noted.made \subseteq checkpoints'
  BY <1>1, <1>2, <1>4, <1>5, <1>6 DEF SessionCall, CallSound
<1>8. noted = [call[c] EXCEPT !.made = @ \cup {CheckpointOf(c)}]
  BY <1>1, <1>5, <1>6
<1>9. sessions' = sessions /\ history' = history /\ summaries' = summaries
  BY DEF InsertCheckpoint
<1>10. Growing /\ \A t \in Session : Length(t)' = Length(t) /\ Length(t) \in Nat
  BY <1>2, <1>5, <1>9, LengthsTyped DEF Growing, Known, Length
<1>11. LineageSound'
  BY <1>5, <1>9 DEF SessionInv, LineageSound, Known, Length
<1>12. checkpoints' \in SUBSET CheckpointRow
  BY <1>2, <1>4, <1>5 DEF SessionTyped
<1>13. ASSUME NEW k \in SessionCall, call' = [call EXCEPT ![c] = k], CallSound(k)' PROVE SessionInv'
  <2>1. SessionTyped'
    BY <1>2, <1>9, <1>12, <1>13 DEF SessionTyped
  <2>2. TreesWhole'
    BY <1>2, <1>9, <1>10, <2>1, TreesKept
  <2>3. RowSound(row)'
    BY <1>4, <1>9 DEF RowSound, Verified, RootCovers, Length
  <2>4. QED
    BY <1>5, <1>10, <1>11, <1>13, <2>1, <2>2, <2>3, CallMoves DEF SessionTyped
<1>14. CASE Returned(c)
  <2>1. call' = [call EXCEPT ![c] = Idle] /\ CallSound(Idle)'
    BY <1>14 DEF Returned, CallSound, Idle
  <2>2. QED
    BY <1>13, <2>1, IdleFacts
<1>15. CASE Proceed(c, "close")
  <2>1. PICK k : k = [old EXCEPT !.at = "close"]
    OBVIOUS
  <2>2. call' = [call EXCEPT ![c] = k]
    BY <1>1, <1>2, <1>15, <2>1 DEF Proceed, SessionTyped
  <2>3. /\ k \in SessionCall /\ k.at = "close" /\ k.session = old.session /\ k.op = old.op
        /\ k.through = old.through /\ k.made = old.made
    BY <2>1 DEF SessionCall
  <2>4. CallSound(k)'
    <3>1. k.made \subseteq checkpoints' /\ k.session \in Session /\ k.through <= Length(k.session)'
      BY <1>2, <1>5, <1>10, <2>3 DEF CallSound
    <3>2. QED
      BY <2>3, <3>1 DEF CallSound
  <2>5. QED
    BY <1>13, <2>2, <2>3, <2>4
<1>16. CASE call' = [call EXCEPT ![c] = [Idle EXCEPT !.op = "derive", !.at = "create", !.made = noted.made]]
  <2>1. PICK k : k = [Idle EXCEPT !.op = "derive", !.at = "create", !.made = noted.made]
    OBVIOUS
  <2>2. k \in SessionCall /\ k.at = "create" /\ k.op = "derive" /\ k.made = noted.made
    <3>1. PICK i : i = Idle
      OBVIOUS
    <3>2. i \in SessionCall
      BY <3>1, IdleFacts
    <3>3. noted.made \in SUBSET CheckpointRow
      BY <1>7 DEF SessionCall
    <3>4. QED
      BY <2>1, <3>1, <3>2, <3>3 DEF SessionCall
  <2>3. CallSound(k)'
    BY <1>7, <2>2 DEF CallSound
  <2>4. QED
    BY <1>13, <1>16, <2>1, <2>2, <2>3
<1>17. ASSUME NEW s \in noted.todo,
              call' = [call EXCEPT ![c] = [noted EXCEPT !.at = "events", !.session = s,
                          !.through = Length(s), !.todo = @ \ {s}, !.root = NoRoot]],
              noted.op = "derive"
       PROVE  SessionInv'
  <2>1. s \in Session /\ Length(s) \in Nat
    BY <1>7, <1>10 DEF SessionCall
  <2>2. PICK k : k = [noted EXCEPT !.at = "events", !.session = s, !.through = Length(s),
                                   !.todo = @ \ {s}, !.root = NoRoot]
    OBVIOUS
  <2>3. /\ k \in SessionCall /\ k.at = "events" /\ k.op = "derive" /\ k.session = s
        /\ k.through = Length(s) /\ k.made = noted.made
    BY <1>7, <1>17, <2>1, <2>2 DEF SessionCall
  <2>4. CallSound(k)'
    <3>1. k.through <= Length(s)' /\ k.made \subseteq checkpoints'
      BY <1>7, <1>10, <2>1, <2>3
    <3>2. QED
      BY <2>1, <2>3, <3>1 DEF CallSound
  <2>5. QED
    BY <1>13, <1>17, <2>2, <2>3, <2>4
<1>18. QED
  BY <1>7, <1>8, <1>14, <1>15, <1>16, <1>17 DEF InsertCheckpoint

-----------------------------------------------------------------------------
LEMMA ClientsCall ==
    ASSUME SessionInv, NEW c \in Client,
           \/ ReadEvents(c) \/ LookForRoot(c) \/ BuildTree(c) \/ InsertCheckpoint(c)
           \/ CloseSession(c) \/ CreateChild(c) \/ AppendLineage(c) \/ EndCall(c)
    PROVE  SessionInv'
BY ReadEventsStep, LookForRootStep, BuildTreeStep, InsertCheckpointStep, CloseSessionStep,
   CreateChildStep, AppendLineageStep, EndCallStep

LEMMA OperationsStart ==
    ASSUME SessionInv, NEW c \in Caller, NEW s \in Session,
           \/ CallContext(c, s)
           \/ CallCheckpoint(c, s, "checkpoint") \/ CallCheckpoint(c, s, "close")
           \/ \E rest \in SUBSET Session : CallDerive(c, s, rest)
    PROVE  SessionInv'
<1>1. c \in Client /\ {} \in SUBSET Session
  BY DEF Client
<1>2. CASE CallContext(c, s)
  <2>1. PICK at \in {"events", "answer"} :
           Call(c, "context", at, s, {}) /\ (at = "answer" => ~(Length(s) > RecentEvents))
    BY <1>2 DEF CallContext
  <2>2. Length(s) \in Nat
    BY LengthsTyped DEF SessionInv
  <2>3. at = "answer" => Length(s) <= RecentEvents
    BY <2>1, <2>2, SessionAssumption
  <2>4. QED
    BY <1>1, <2>1, <2>3, CallStep
<1>3. CASE CallCheckpoint(c, s, "checkpoint") \/ CallCheckpoint(c, s, "close")
  BY <1>1, <1>3, CallStep DEF CallCheckpoint
<1>4. CASE \E rest \in SUBSET Session : CallDerive(c, s, rest)
  BY <1>1, <1>4, CallStep DEF CallDerive
<1>5. QED
  BY <1>2, <1>3, <1>4

LEMMA SessionStep == ASSUME SessionInv, [SessionNext]_sessionVars PROVE SessionInv'
<1>1. CASE UNCHANGED sessionVars
  <2>1. SessionTyped' /\ TreesWhole' /\ LineageSound'
    BY <1>1 DEF sessionVars, SessionInv, SessionTyped, TreesWhole, LineageSound, Known, Length
  <2>2. \A k \in checkpoints' : RowSound(k)'
    BY <1>1 DEF sessionVars, SessionInv, RowSound, Verified, RootCovers, Length
  <2>3. \A c \in Client : CallSound(call[c])'
    BY <1>1 DEF sessionVars, SessionInv, CallSound, Verified, RootCovers, Known, Length
  <2>4. QED
    BY <2>1, <2>2, <2>3 DEF SessionInv
<1>2. CASE SessionNext
  BY <1>2, CreateSessionStep, AppendEventStep, CallCompactStep, OperationsStart, ClientsCall
  DEF SessionNext
<1>3. QED
  BY <1>1, <1>2

LEMMA SessionInvariant == SessionSpec => []SessionInv
<1>1. SessionInv /\ [SessionNext]_sessionVars => SessionInv'
  BY SessionStep
<1>2. QED
  BY <1>1, SessionInitInv, PTL DEF SessionSpec

\* Sessions, summaries and checkpoints keep their types; what a call has made is there.
THEOREM SessionTypeCorrect == SessionSpec => []SessionTypeOK
<1>1. ASSUME SessionInv PROVE SessionTypeOK
  <2>1. SessionTyped /\ TreesWhole
    BY <1>1 DEF SessionInv
  <2>2. ASSUME NEW s \in Session
        PROVE  /\ sessions[s].state \in {"none", "ACTIVE", "CLOSED"} /\ sessions[s].parents \subseteq Session
               /\ \A i \in 1 .. Length(s) : history[s][i].type \in {"note", "lineage"}
    <3>1. history[s] \in Seq(SessionEvent) /\ Length(s) = Len(history[s])
      BY <2>1 DEF SessionTyped, Length
    <3>2. \A i \in 1 .. Length(s) : history[s][i] \in SessionEvent
      BY <3>1
    <3>3. QED
      BY <2>1, <3>2 DEF SessionTyped, SessionEvent
  <2>3. ASSUME NEW x \in summaries PROVE x.session \in Session /\ 1 <= x.from /\ x.from <= x.to
    BY <2>1, SummaryFacts
  <2>4. ASSUME NEW k \in checkpoints PROVE k.session \in Session /\ k.through \in Nat
    BY <2>1 DEF SessionTyped, CheckpointRow
  <2>5. ASSUME NEW c \in Client
        PROVE  call[c].session \in Session \cup {NoSession} /\ call[c].made \subseteq checkpoints
    BY <1>1 DEF SessionInv, SessionTyped, SessionCall, CallSound
  <2>6. QED
    BY <2>2, <2>3, <2>4, <2>5 DEF SessionTypeOK
<1>2. QED
  BY <1>1, SessionInvariant, PTL

\* Whatever compactions of a growing history have written into one table, every summary
\* speaks of events that exist and is made from summaries of exactly the same events.
THEOREM SummariesAlwaysWhole == SessionSpec => []SummariesWhole
<1>1. ASSUME SessionInv PROVE SummariesWhole
  <2>1. SessionTyped /\ TreesWhole
    BY <1>1 DEF SessionInv
  <2>2. QED
    BY <2>1, SummaryFacts DEF SummariesWhole
<1>2. QED
  BY <1>1, SessionInvariant, PTL

\* A checkpoint's root covers what was verified; lineage names checkpoints of the parents.
THEOREM CheckpointsAlwaysCovered == SessionSpec => []CheckpointsCovered
<1>1. ASSUME SessionInv PROVE CheckpointsCovered
  <2>1. ASSUME NEW k \in checkpoints
        PROVE  /\ k.through <= Length(k.session)
               /\ k.root = NoRoot => k.through = 0
               /\ k.root # NoRoot => /\ k.root \in summaries /\ k.root.session = k.session
                                     /\ k.root.from = 1 /\ k.through <= k.root.to
    <3>1. RowSound(k) /\ SessionTyped /\ TreesWhole
      BY <1>1 DEF SessionInv
    <3>2. k.root \in summaries => k.root # NoRoot
      BY <3>1, SummaryFacts, SessionAssumption
    <3>3. QED
      BY <3>1, <3>2 DEF RowSound, Verified, RootCovers
  <2>2. QED
    BY <1>1, <2>1 DEF CheckpointsCovered, SessionInv, LineageSound
<1>2. QED
  BY <1>1, SessionInvariant, PTL

\* What active_context returns leaves no event of the history it has read out.
THEOREM ContextAlwaysCovers == SessionSpec => []ContextCovers
<1>1. ASSUME SessionInv, NEW c \in Client, call[c].op = "context", call[c].at = "answer",
             NEW i \in 1 .. call[c].through
      PROVE  \/ i > call[c].through - RecentEvents
             \/ call[c].root # NoRoot /\ i \in call[c].root.from .. call[c].root.to
  <2>1. CallSound(call[c]) /\ call[c] \in SessionCall /\ SessionTyped /\ TreesWhole
    BY <1>1 DEF SessionInv, SessionTyped
  <2>2. call[c].through \in Nat
    BY <2>1 DEF SessionCall
  <2>3. CASE call[c].through <= RecentEvents
    BY <2>2, <2>3, SessionAssumption
  <2>4. CASE RootCovers(call[c].root, call[c].session, call[c].through)
    <3>1. call[c].root \in summaries /\ call[c].root.from = 1 /\ call[c].through <= call[c].root.to
      BY <2>4 DEF RootCovers
    <3>2. call[c].root \in Summary
      BY <2>1, <3>1, SummaryFacts
    <3>3. call[c].root # NoRoot /\ call[c].root.to \in Nat
      BY <3>2, SessionAssumption DEF Summary
    <3>4. QED
      BY <2>2, <3>1, <3>3
  <2>5. QED
    BY <1>1, <2>1, <2>3, <2>4 DEF CallSound
<1>2. SessionInv => ContextCovers
  BY <1>1 DEF ContextCovers
<1>3. QED
  BY <1>2, SessionInvariant, PTL
=============================================================================
