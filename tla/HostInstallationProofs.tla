------------------------ MODULE HostInstallationProofs ------------------------
(* Proofs about the installation into other programs, for any list of        *)
(* targets, any number of transactions and edits.  The invariant relates     *)
(* each target to what apply has found there, along the list of targets that *)
(* are still to be replaced or put back.                                     *)
EXTENDS HostInstallation, TLAPS

-----------------------------------------------------------------------------
(* Host installation: where each target is, and what is kept of it.           *)

Value == Content \cup {Gone, Shredded}
Deal == [status : {"none", "open", "failed", "applied", "rolled-back"},
         found : [Target -> Value], backup : [Target -> Value], touched : SUBSET Target]

Swapping == doing.at \in {"install", "recover", "clean"}

DataTyped ==
    /\ edits \in 0 .. MaxEdits
    /\ content \in [Target -> Value] /\ \A t \in Target \ Directory : content[t] # Shredded
    /\ safety \in [Target -> SUBSET (Value \ {Gone})]
    /\ transactions \in [Transaction -> Deal]
    /\ \A x \in Transaction, t \in Target \ Directory : transactions[x].found[t] # Shredded

DoingTyped ==
    doing \in [op : {"none", "apply", "undo", "rollback"},
               at : {"none", "backup", "replace", "install", "recover", "clean", "verify",
                     "record", "discard"},
               id : 0 .. MaxTransactions, todo : Seq(Target), applied : Seq(Target),
               aside : Value]

\* What apply has replaced is whole in its backup; it ends with all targets replaced.
BackupsWhole ==
    \A x \in Transaction :
        /\ transactions[x].status = "none" => transactions[x].touched = {}
        /\ transactions[x].status = "applied" => transactions[x].touched = Target
        /\ transactions[x].status \in {"open", "applied"} => \A t \in transactions[x].touched :
              transactions[x].backup[t] = transactions[x].found[t]

Unchanged(t) == content[t] = This.found[t]

\* The targets that apply still has to replace are as it has found them.
Applying ==
    /\ doing.op = "apply" /\ This.status = "open"
    /\ doing.at \in {"backup", "replace", "install", "recover", "clean", "verify", "record"}
    /\ doing.at \in {"verify", "record"} <=> doing.todo = <<>>
    /\ IsInjective(doing.todo)
    /\ ToSet(doing.todo) = Target \ ToSet(doing.applied)
    /\ This.touched = ToSet(doing.applied) \cup (IF Swapping THEN {Place} ELSE {})
    /\ \A t \in ToSet(doing.todo) : Unchanged(t) \/ (Swapping /\ t = Place)
    /\ doing.at = "replace" \/ Swapping => This.backup[Place] = This.found[Place]
    /\ doing.at \in {"install", "recover"} =>
          /\ content[Place] = Gone
          /\ doing.aside = This.found[Place] /\ doing.aside \in safety[Place]
    /\ doing.at = "clean" => content[Place] = Merged(Place, This.found[Place])

\* The undoing of an apply has put back all the targets it does not list any more, but
\* for one that apply has replaced without listing it, since the removal of its safety
\* path has raised.
Undoing ==
    /\ doing.op = "undo" /\ This.status = "open"
    /\ doing.at \in {"replace", "install", "recover", "clean", "discard"}
    /\ doing.at = "discard" <=> doing.todo = <<>>
    /\ ToSet(doing.todo) \subseteq ToSet(doing.applied) /\ ToSet(doing.applied) \subseteq This.touched
    /\ \A t \in Target \ ToSet(doing.todo) : TargetRestored(t) \/ CutShort(t)
    /\ doing.at = "clean" => Unchanged(Place)

RollingBack ==
    /\ doing.op = "rollback" /\ This.status = "applied"
    /\ doing.at \in {"replace", "install", "recover", "clean", "record"}
    /\ doing.at = "record" <=> doing.todo = <<>>
    /\ \A t \in Target \ ToSet(doing.todo) : Unchanged(t)
    /\ doing.at = "clean" => Unchanged(Place)

HostWorking ==
    /\ doing.id \in Transaction
    /\ Swapping => Place \in Directory
    /\ Applying \/ Undoing \/ RollingBack

HostInv == DataTyped /\ DoingTyped /\ BackupsWhole /\ (doing = Waiting \/ HostWorking)

-----------------------------------------------------------------------------
(* What the lists of targets hold.                                            *)

LEMMA HeadAndTail ==
    ASSUME NEW S, NEW s \in Seq(S), s # <<>>
    PROVE  /\ Head(s) \in S /\ Tail(s) \in Seq(S)
           /\ ToSet(s) = {Head(s)} \cup ToSet(Tail(s))
           /\ IsInjective(s) => Head(s) \notin ToSet(Tail(s)) /\ IsInjective(Tail(s))
<1>1. /\ Len(s) \in Nat /\ Len(s) > 0 /\ DOMAIN s = 1 .. Len(s) /\ Head(s) = s[1]
      /\ \A i \in 1 .. Len(s) : s[i] \in S
  OBVIOUS
<1>2. /\ Tail(s) \in Seq(S) /\ Len(Tail(s)) = Len(s) - 1
      /\ DOMAIN Tail(s) = 1 .. Len(s) - 1
      /\ \A i \in 1 .. Len(s) - 1 : Tail(s)[i] = s[i + 1]
  OBVIOUS
<1>3. ToSet(s) \subseteq {Head(s)} \cup ToSet(Tail(s))
  <2>1. ASSUME NEW i \in 1 .. Len(s), i # 1 PROVE s[i] \in ToSet(Tail(s))
    <3>1. i - 1 \in 1 .. Len(s) - 1 /\ Tail(s)[i - 1] = s[i]
      BY <1>1, <1>2, <2>1
    <3>2. QED
      BY <1>2, <3>1 DEF ToSet
  <2>2. QED
    BY <1>1, <2>1 DEF ToSet
<1>4. {Head(s)} \cup ToSet(Tail(s)) \subseteq ToSet(s)
  BY <1>1, <1>2 DEF ToSet
<1>5. ASSUME IsInjective(s) PROVE Head(s) \notin ToSet(Tail(s)) /\ IsInjective(Tail(s))
  BY <1>1, <1>2, <1>5 DEF ToSet, IsInjective
<1>6. QED
  BY <1>1, <1>2, <1>3, <1>4, <1>5

LEMMA FrontAndLast ==
    ASSUME NEW S, NEW s \in Seq(S), s # <<>>
    PROVE  /\ Last(s) \in S /\ Front(s) \in Seq(S)
           /\ ToSet(s) = ToSet(Front(s)) \cup {Last(s)}
<1>1. /\ Len(s) \in Nat /\ Len(s) > 0 /\ DOMAIN s = 1 .. Len(s) /\ Last(s) = s[Len(s)]
      /\ \A i \in 1 .. Len(s) : s[i] \in S
  BY DEF Last
<1>2. /\ Front(s) \in Seq(S) /\ Len(Front(s)) = Len(s) - 1
      /\ DOMAIN Front(s) = 1 .. Len(s) - 1
      /\ \A i \in 1 .. Len(s) - 1 : Front(s)[i] = s[i]
  BY <1>1 DEF Front
<1>3. ToSet(s) \subseteq ToSet(Front(s)) \cup {Last(s)}
  BY <1>1, <1>2 DEF ToSet
<1>4. ToSet(Front(s)) \cup {Last(s)} \subseteq ToSet(s)
  BY <1>1, <1>2 DEF ToSet
<1>5. QED
  BY <1>1, <1>2, <1>3, <1>4

LEMMA Appended ==
    ASSUME NEW S, NEW s \in Seq(S), NEW e \in S
    PROVE  Append(s, e) \in Seq(S) /\ ToSet(Append(s, e)) = ToSet(s) \cup {e}
<1>1. /\ Append(s, e) \in Seq(S) /\ Len(s) \in Nat
      /\ DOMAIN s = 1 .. Len(s) /\ DOMAIN Append(s, e) = 1 .. Len(s) + 1
      /\ \A i \in 1 .. Len(s) : Append(s, e)[i] = s[i]
      /\ Append(s, e)[Len(s) + 1] = e
  OBVIOUS
<1>2. ToSet(Append(s, e)) \subseteq ToSet(s) \cup {e}
  BY <1>1 DEF ToSet
<1>3. ToSet(s) \cup {e} \subseteq ToSet(Append(s, e))
  BY <1>1 DEF ToSet
<1>4. QED
  BY <1>1, <1>2, <1>3

LEMMA NothingListed ==
    /\ ToSet(<<>>) = {}
    /\ \A s \in Seq(Target) : ToSet(s) \subseteq Target /\ (ToSet(s) = {} => s = <<>>)
<1>1. ToSet(<<>>) = {}
  BY DEF ToSet
<1>2. ASSUME NEW s \in Seq(Target) PROVE ToSet(s) \subseteq Target
  BY DEF ToSet
<1>3. ASSUME NEW s \in Seq(Target), s # <<>> PROVE ToSet(s) # {}
  <2>1. ToSet(s) = {Head(s)} \cup ToSet(Tail(s))
    BY <1>3, HeadAndTail
  <2>2. QED
    BY <2>1
<1>4. QED
  BY <1>1, <1>2, <1>3

-----------------------------------------------------------------------------
LEMMA WaitingTyped ==
    /\ Waiting.op = "none" /\ Waiting.at = "none" /\ Waiting.todo = <<>> /\ Waiting.applied = <<>>
    /\ Waiting \in [op : {"none", "apply", "undo", "rollback"},
                    at : {"none", "backup", "replace", "install", "recover", "clean", "verify",
                          "record", "discard"},
                    id : 0 .. MaxTransactions, todo : Seq(Target), applied : Seq(Target),
                    aside : Value]
BY HostAssumption DEF Waiting, Value

\* The process gives up, with the data as they are.
LEMMA GivesUp ==
    ASSUME DataTyped', BackupsWhole', doing' = Waiting PROVE HostInv'
BY WaitingTyped DEF HostInv, DoingTyped

\* A merge leaves a target there.
LEMMA MergedIsThere ==
    ASSUME NEW t, NEW found \in Value, t \notin Directory => found # Shredded
    PROVE  Merged(t, found) \in Content
<1>1. Bundled \in Content
  BY HostAssumption DEF Bundled, Content
<1>2. ASSUME t \notin Directory, found # Gone PROVE [found EXCEPT !.ours = TRUE] \in Content
  BY <1>2 DEF Value, Content
<1>3. QED
  BY <1>1, <1>2 DEF Merged

LEMMA NeitherIsContent == Gone \notin Content /\ Shredded \notin Content /\ Gone # Shredded
<1>1. Content \subseteq [user : Nat, ours : BOOLEAN]
  BY HostAssumption DEF Content
<1>2. QED
  BY <1>1, HostAssumption

\* The target whose turn it is.
LEMMA PlaceListed ==
    ASSUME HostInv, doing.at \in {"backup", "replace", "install", "recover", "clean"}
    PROVE  /\ HostWorking /\ doing.todo # <<>> /\ doing.todo \in Seq(Target)
           /\ Place \in ToSet(doing.todo) /\ Place \in Target
           /\ doing.op = "apply" => Place = Head(doing.todo)
           /\ doing.op # "apply" => Place = Last(doing.todo)
<1>1. HostWorking
  BY WaitingTyped DEF HostInv
<1>2. doing.todo # <<>> /\ doing.todo \in Seq(Target)
  BY <1>1 DEF HostInv, DoingTyped, HostWorking, Applying, Undoing, RollingBack
<1>3. Place \in ToSet(doing.todo)
  <2>1. ToSet(doing.todo) = {Head(doing.todo)} \cup ToSet(Tail(doing.todo))
    BY <1>2, HeadAndTail
  <2>2. ToSet(doing.todo) = ToSet(Front(doing.todo)) \cup {Last(doing.todo)}
    BY <1>2, FrontAndLast
  <2>3. QED
    BY <2>1, <2>2 DEF Place
<1>4. QED
  BY <1>1, <1>2, <1>3, NothingListed DEF Place

\* An apply that fails begins to undo what it lists; the others give up.
LEMMA RaiseStep ==
    ASSUME HostInv, HostWorking, Raise, DataTyped', BackupsWhole',
           doing.op = "apply" =>
              /\ transactions'[doing.id].status = "open"
              /\ ToSet(doing.applied) \subseteq transactions'[doing.id].touched
              /\ \A t \in Target \ ToSet(doing.applied) :
                    \/ content'[t] = transactions'[doing.id].found[t]
                    \/ content'[t] = Gone /\ transactions'[doing.id].found[t] \in safety'[t]
                    \/ /\ t \in transactions'[doing.id].touched
                       /\ content'[t] = Merged(t, transactions'[doing.id].found[t])
                       /\ Shredded \in safety'[t]
    PROVE  HostInv'
<1>1. CASE doing.op # "apply"
  <2>1. doing' = Waiting
    BY <1>1 DEF Raise
  <2>2. QED
    BY <2>1, GivesUp
<1>2. CASE doing.op = "apply"
  <2> DEFINE at == IF doing.applied = <<>> THEN "discard" ELSE "replace"
  <2>1. doing' = [doing EXCEPT !.op = "undo", !.todo = doing.applied, !.aside = Gone, !.at = at]
    BY <1>2 DEF Raise
  <2>2. /\ doing'.op = "undo" /\ doing'.todo = doing.applied /\ doing'.at = at
        /\ doing'.applied = doing.applied /\ doing'.id = doing.id /\ DoingTyped'
    BY <2>1 DEF HostInv, DoingTyped, Value
  <2>3. Undoing'
    BY <1>2, <2>2 DEF Undoing, TargetRestored, CutShort, This
  <2>4. QED
    BY <2>2, <2>3 DEF HostInv, HostWorking, Swapping
<1>3. QED
  BY <1>1, <1>2

\* The target whose turn it was is done.
LEMMA AdvanceStep ==
    ASSUME HostInv, doing.at \in {"replace", "clean"}, Advance, DataTyped', BackupsWhole',
           /\ transactions'[doing.id].status = This.status
           /\ transactions'[doing.id].found = This.found
           /\ transactions'[doing.id].backup = This.backup,
           transactions'[doing.id].touched =
              IF doing.op = "apply" THEN This.touched \cup {Place} ELSE This.touched,
           \A t \in Target \ {Place} : content'[t] = content[t] /\ safety'[t] = safety[t],
           doing.op # "apply" => content'[Place] = This.found[Place]
    PROVE  HostInv'
<1>1. /\ HostWorking /\ doing.todo # <<>> /\ doing.todo \in Seq(Target)
      /\ Place \in ToSet(doing.todo) /\ Place \in Target
      /\ doing.applied \in Seq(Target) /\ Gone \in Value
  BY PlaceListed DEF HostInv, DoingTyped, Value
<1>2. CASE doing.op = "apply"
  <2> DEFINE at == IF Tail(doing.todo) = <<>> THEN "verify" ELSE "backup"
  <2>1. Place = Head(doing.todo) /\ Applying
    BY <1>1, <1>2, PlaceListed DEF HostWorking, Undoing, RollingBack
  <2>2. /\ Tail(doing.todo) \in Seq(Target) /\ IsInjective(Tail(doing.todo))
        /\ ToSet(doing.todo) = {Place} \cup ToSet(Tail(doing.todo))
        /\ Place \notin ToSet(Tail(doing.todo))
    BY <1>1, <2>1, HeadAndTail DEF Applying
  <2>3. Listed \in Seq(Target) /\ ToSet(Listed) = ToSet(doing.applied) \cup {Place}
    BY <1>1, Appended DEF Listed
  <2>4. doing' = [doing EXCEPT !.todo = Tail(@), !.applied = Listed, !.aside = Gone, !.at = at]
    BY <1>2 DEF Advance
  <2>5. /\ doing'.op = "apply" /\ doing'.todo = Tail(doing.todo) /\ doing'.applied = Listed
        /\ doing'.at = at /\ doing'.id = doing.id /\ DoingTyped' /\ ~Swapping'
    BY <1>1, <1>2, <2>2, <2>3, <2>4 DEF HostInv, DoingTyped, Swapping
  <2>6. ToSet(Tail(doing.todo)) = Target \ ToSet(Listed)
    BY <2>1, <2>2, <2>3 DEF Applying
  <2>7. /\ ToSet(Listed) \subseteq transactions'[doing.id].touched
        /\ transactions'[doing.id].touched \subseteq ToSet(Listed)
    BY <1>2, <2>1, <2>3 DEF Applying
  <2>8. \A t \in ToSet(Tail(doing.todo)) : content'[t] = transactions'[doing.id].found[t]
    BY <1>1, <2>1, <2>2, NothingListed DEF Applying, Unchanged
  <2>9. Applying'
    BY <2>1, <2>2, <2>5, <2>6, <2>7, <2>8 DEF Applying, This, Unchanged
  <2>10. QED
    BY <1>1, <2>5, <2>9 DEF HostInv, HostWorking, Swapping
<1>3. CASE doing.op # "apply"
  <2> DEFINE at == IF Front(doing.todo) # <<>> THEN "replace"
                   ELSE IF doing.op = "undo" THEN "discard" ELSE "record"
  <2>1. Place = Last(doing.todo) /\ (Undoing \/ RollingBack)
    BY <1>1, <1>3, PlaceListed DEF HostWorking, Applying
  <2>2. /\ Front(doing.todo) \in Seq(Target)
        /\ ToSet(doing.todo) = ToSet(Front(doing.todo)) \cup {Place}
    BY <1>1, <2>1, FrontAndLast
  <2>3. doing' = [doing EXCEPT !.todo = Front(@), !.aside = Gone, !.at = at]
    BY <1>3 DEF Advance
  <2>4. /\ doing'.op = doing.op /\ doing'.todo = Front(doing.todo) /\ doing'.applied = doing.applied
        /\ doing'.at = at /\ doing'.id = doing.id /\ DoingTyped'
    BY <1>1, <2>2, <2>3 DEF HostInv, DoingTyped
  <2>5. CASE Undoing
    <3>1. ASSUME NEW t \in Target \ ToSet(Front(doing.todo))
          PROVE  (TargetRestored(t) \/ CutShort(t))'
      BY <1>1, <1>3, <2>2, <2>4, <2>5, <3>1 DEF Undoing, TargetRestored, CutShort, This
    <3>2. Undoing'
      BY <1>3, <2>2, <2>4, <2>5, <3>1 DEF Undoing, This
    <3>3. QED
      BY <1>1, <2>4, <3>2 DEF HostInv, HostWorking, Swapping
  <2>6. CASE RollingBack
    <3>1. ASSUME NEW t \in Target \ ToSet(Front(doing.todo))
          PROVE  content'[t] = transactions'[doing.id].found[t]
      BY <1>1, <1>3, <2>2, <2>6 DEF RollingBack, Unchanged
    <3>2. RollingBack'
      BY <1>3, <2>2, <2>4, <2>6, <3>1 DEF RollingBack, This, Unchanged
    <3>3. QED
      BY <1>1, <2>4, <3>2 DEF HostInv, HostWorking, Swapping
  <2>7. QED
    BY <2>1, <2>5, <2>6
<1>4. QED
  BY <1>2, <1>3

-----------------------------------------------------------------------------
(* One lemma per action.                                                      *)

LEMMA HostInitInv == HostInit => HostInv
<1> SUFFICES ASSUME HostInit PROVE HostInv
  OBVIOUS
<1>1. DataTyped
  BY NeitherIsContent, HostAssumption DEF HostInit, DataTyped, Deal, Value, NoTransaction
<1>2. BackupsWhole
  BY DEF HostInit, BackupsWhole, NoTransaction
<1>3. QED
  BY <1>1, <1>2, WaitingTyped DEF HostInit, HostInv, DoingTyped

LEMMA EditStep ==
    ASSUME HostInv, NEW t \in Target, EditTarget(t) PROVE HostInv'
<1>1. PICK ours \in BOOLEAN : content' = [content EXCEPT ![t] = [user |-> edits + 1, ours |-> ours]]
  BY DEF EditTarget
<1>2. edits + 1 \in 0 .. MaxEdits
  BY HostAssumption DEF EditTarget, HostInv, DataTyped
<1>3. [user |-> edits + 1, ours |-> ours] \in Content
  BY <1>2 DEF Content
<1>4. DataTyped'
  BY <1>1, <1>2, <1>3, NeitherIsContent DEF HostInv, DataTyped, EditTarget, Value
<1>5. BackupsWhole' /\ doing' = Waiting
  BY DEF HostInv, BackupsWhole, EditTarget
<1>6. QED
  BY <1>4, <1>5, GivesUp

LEMMA BeginApplyStep ==
    ASSUME HostInv, NEW x \in Transaction, BeginApply(x) PROVE HostInv'
<1>1. transactions' = [transactions EXCEPT ![x].status = "open", ![x].found = content]
  BY DEF BeginApply
<1>2. /\ transactions'[x].status = "open" /\ transactions'[x].found = content
      /\ transactions'[x].backup = transactions[x].backup /\ transactions'[x].touched = {}
      /\ transactions'[x] \in Deal
      /\ \A y \in Transaction \ {x} : transactions'[y] = transactions[y]
  <2>1. /\ transactions \in [Transaction -> Deal] /\ transactions[x].touched = {}
        /\ content \in [Target -> Value]
    BY DEF HostInv, DataTyped, BackupsWhole, BeginApply
  <2>2. transactions'[x] = [status |-> "open", found |-> content,
                            backup |-> transactions[x].backup, touched |-> {}]
    BY <1>1, <2>1 DEF Deal
  <2>3. QED
    BY <1>1, <2>1, <2>2 DEF Deal
<1>3. DataTyped'
  <2>1. transactions' \in [Transaction -> Deal]
    BY <1>1, <1>2 DEF HostInv, DataTyped
  <2>2. \A y \in Transaction, t \in Target \ Directory : transactions'[y].found[t] # Shredded
    BY <1>2 DEF HostInv, DataTyped
  <2>3. QED
    BY <2>1, <2>2 DEF HostInv, DataTyped, BeginApply
<1>4. BackupsWhole'
  BY <1>2 DEF HostInv, BackupsWhole
<1>5. doing' = [op |-> "apply", at |-> "backup", id |-> x, todo |-> Targets,
                applied |-> <<>>, aside |-> Gone]
  BY DEF BeginApply, Waiting
<1>6. /\ doing'.op = "apply" /\ doing'.at = "backup" /\ doing'.id = x /\ doing'.todo = Targets
      /\ doing'.applied = <<>> /\ ~Swapping' /\ DoingTyped'
  BY <1>5, HostAssumption DEF DoingTyped, Value, Transaction, Swapping
<1>7. ToSet(Targets) = Target \ ToSet(<<>>) /\ ToSet(<<>>) = {}
  BY NothingListed DEF Target
<1>8. Applying'
  BY <1>2, <1>6, <1>7, HostAssumption DEF Applying, This, Unchanged, BeginApply
<1>9. QED
  BY <1>3, <1>4, <1>6, <1>8 DEF HostInv, HostWorking, Swapping

LEMMA BeginRollbackStep ==
    ASSUME HostInv, NEW x \in Transaction, BeginRollback(x) PROVE HostInv'
<1>1. DataTyped' /\ BackupsWhole' /\ transactions' = transactions
  BY DEF BeginRollback, HostInv, DataTyped, BackupsWhole
<1>2. doing' = [op |-> "rollback", at |-> "replace", id |-> x, todo |-> Targets,
                applied |-> <<>>, aside |-> Gone]
  BY DEF BeginRollback, Waiting
<1>3. /\ doing'.op = "rollback" /\ doing'.at = "replace" /\ doing'.id = x /\ doing'.todo = Targets
      /\ DoingTyped'
  BY <1>2, HostAssumption DEF DoingTyped, Value, Transaction
<1>4. RollingBack'
  BY <1>1, <1>3, HostAssumption DEF RollingBack, This, BeginRollback, Target
<1>5. QED
  BY <1>1, <1>3, <1>4 DEF HostInv, HostWorking, Swapping

\* A backup is written before its target is replaced.
LEMMA BackUpTargetStep ==
    ASSUME HostInv, BackUpTarget \/ BackUpTargetFails PROVE HostInv'
<1>1. /\ doing.at = "backup" /\ HostWorking /\ Applying /\ Place \in ToSet(doing.todo)
      /\ Place \in Target /\ doing.id \in Transaction
  BY PlaceListed DEF BackUpTarget, BackUpTargetFails, HostWorking, Undoing, RollingBack
<1>2. Place \notin This.touched /\ Unchanged(Place)
  BY <1>1 DEF Applying, Swapping
<1>3. PICK new \in Value :
         /\ transactions' = [transactions EXCEPT ![doing.id].backup[Place] = new]
         /\ BackUpTarget => new = content[Place]
  BY <1>1 DEF BackUpTarget, BackUpTargetFails, HostInv, DataTyped, Value
<1>4. /\ This \in Deal
      /\ transactions'[doing.id] = [This EXCEPT !.backup[Place] = new]
      /\ \A y \in Transaction \ {doing.id} : transactions'[y] = transactions[y]
      /\ transactions' = [transactions EXCEPT ![doing.id] = transactions'[doing.id]]
  BY <1>1, <1>3 DEF This, HostInv, DataTyped
<1>5. /\ transactions'[doing.id].status = This.status
      /\ transactions'[doing.id].found = This.found
      /\ transactions'[doing.id].touched = This.touched
      /\ transactions'[doing.id].backup = [This.backup EXCEPT ![Place] = new]
      /\ transactions'[doing.id] \in Deal
  BY <1>1, <1>4 DEF Deal
<1>6. content' = content /\ safety' = safety /\ edits' = edits
  BY DEF BackUpTarget, BackUpTargetFails
<1>7. DataTyped'
  <2>1. transactions' \in [Transaction -> Deal]
    BY <1>1, <1>4, <1>5 DEF HostInv, DataTyped
  <2>2. \A y \in Transaction, t \in Target \ Directory : transactions'[y].found[t] # Shredded
    <3>1. \A y \in Transaction : transactions'[y].found = transactions[y].found
      BY <1>4, <1>5 DEF This
    <3>2. QED
      BY <3>1 DEF HostInv, DataTyped
  <2>3. QED
    BY <1>6, <2>1, <2>2 DEF HostInv, DataTyped
<1>8. BackupsWhole'
  <2>1. ASSUME NEW t \in This.touched
        PROVE  transactions'[doing.id].backup[t] = This.backup[t]
    BY <1>1, <1>2, <1>4, <1>5
  <2>2. \A y \in Transaction : /\ transactions'[y].status = transactions[y].status
                                /\ transactions'[y].touched = transactions[y].touched
                                /\ transactions'[y].found = transactions[y].found
                                /\ \A t \in transactions[y].touched :
                                      transactions'[y].backup[t] = transactions[y].backup[t]
    BY <1>4, <1>5, <2>1 DEF This
  <2>3. QED
    BY <2>2 DEF HostInv, BackupsWhole
<1>9. CASE BackUpTargetFails
  <2>1. \A t \in Target \ ToSet(doing.applied) : content[t] = This.found[t]
    BY <1>1 DEF Applying, Unchanged, Swapping
  <2>2. QED
    BY <1>1, <1>5, <1>6, <1>7, <1>8, <1>9, <2>1, RaiseStep DEF BackUpTargetFails, Applying
<1>10. CASE BackUpTarget
  <2>1. doing' = [doing EXCEPT !.at = "replace"]
    BY <1>10 DEF BackUpTarget
  <2>2. /\ doing'.at = "replace" /\ doing'.op = doing.op /\ doing'.id = doing.id
        /\ doing'.todo = doing.todo /\ doing'.applied = doing.applied /\ DoingTyped' /\ ~Swapping'
    BY <2>1 DEF HostInv, DoingTyped, Swapping
  <2>3. Place' = Place /\ transactions'[doing.id].backup[Place] = This.found[Place]
    <3>1. Place' = Place
      BY <2>2 DEF Place
    <3>2. transactions'[doing.id].backup[Place] = new
      BY <1>1, <1>4, <1>5 DEF Deal
    <3>3. QED
      BY <1>2, <1>3, <1>10, <3>1, <3>2 DEF Unchanged
  <2>4. Applying'
    <3>1. /\ This'.status = This.status /\ This'.found = This.found
          /\ This'.touched = This.touched /\ This'.backup[Place] = This.found[Place]
      BY <1>5, <2>2, <2>3 DEF This
    <3>2. doing.at = "backup" /\ ~Swapping /\ ~Swapping'
      BY <1>1, <1>10, <2>2 DEF BackUpTarget, Swapping
    <3>3. \A t \in ToSet(doing'.todo) : Unchanged(t)'
      BY <1>1, <1>6, <2>2, <3>1, <3>2 DEF Applying, Unchanged
    <3>4. QED
      BY <1>1, <1>6, <2>2, <2>3, <3>1, <3>2, <3>3 DEF Applying
  <2>5. QED
    BY <1>1, <1>7, <1>8, <2>2, <2>4 DEF HostInv, HostWorking, Swapping
<1>11. QED
  BY <1>9, <1>10

\* What a target is to hold is what apply has found, when it is put back.
LEMMA WantedIs ==
    ASSUME HostInv, doing.at = "replace" \/ Swapping
    PROVE  /\ Wanted \in Value /\ (Place \notin Directory => Wanted # Shredded)
           /\ doing.op = "apply" => Wanted # Gone
           /\ doing.op # "apply" => Wanted = This.found[Place]
<1>1. /\ HostWorking /\ Place \in ToSet(doing.todo) /\ Place \in Target /\ doing.id \in Transaction
  BY PlaceListed DEF Swapping, HostWorking
<1>2. /\ This.found[Place] \in Value /\ (Place \notin Directory => This.found[Place] # Shredded)
  BY <1>1 DEF HostInv, DataTyped, Deal, This
<1>3. CASE doing.op = "apply"
  <2>1. Merged(Place, This.found[Place]) \in Content
    BY <1>2, MergedIsThere
  <2>2. QED
    BY <1>3, <2>1, NeitherIsContent DEF Wanted, Value
<1>4. CASE doing.op # "apply"
  <2>1. Place \in This.touched /\ This.status \in {"open", "applied"}
    BY <1>1, <1>4 DEF HostWorking, Applying, Undoing, RollingBack, HostInv, BackupsWhole, This
  <2>2. This.backup[Place] = This.found[Place]
    BY <1>1, <2>1 DEF HostInv, BackupsWhole, This
  <2>3. QED
    BY <1>2, <1>4, <2>2 DEF Wanted
<1>5. QED
  BY <1>3, <1>4

\* What apply is about to replace is whole in its backup.
LEMMA TouchedStep ==
    ASSUME HostInv, doing.at = "replace", transactions' = Touched
    PROVE  /\ transactions' \in [Transaction -> Deal]
           /\ \A y \in Transaction, t \in Target \ Directory : transactions'[y].found[t] # Shredded
           /\ BackupsWhole'
           /\ transactions'[doing.id].status = This.status
           /\ transactions'[doing.id].found = This.found
           /\ transactions'[doing.id].backup = This.backup
           /\ transactions'[doing.id].touched =
                 IF doing.op = "apply" THEN This.touched \cup {Place} ELSE This.touched
<1>1. /\ HostWorking /\ Place \in Target /\ doing.id \in Transaction
      /\ transactions \in [Transaction -> Deal] /\ This \in Deal
  BY PlaceListed DEF HostWorking, HostInv, DataTyped, This
<1>2. CASE doing.op # "apply"
  <2>1. transactions' = transactions
    BY <1>2 DEF Touched
  <2>2. QED
    BY <1>1, <1>2, <2>1 DEF HostInv, DataTyped, BackupsWhole, This
<1>3. CASE doing.op = "apply"
  <2>1. transactions' = [transactions EXCEPT ![doing.id].touched = @ \cup {Place}]
    BY <1>3 DEF Touched
  <2>2. /\ transactions'[doing.id] = [This EXCEPT !.touched = @ \cup {Place}]
        /\ \A y \in Transaction \ {doing.id} : transactions'[y] = transactions[y]
        /\ transactions' = [transactions EXCEPT ![doing.id] = transactions'[doing.id]]
    BY <1>1, <2>1 DEF This
  <2>3. /\ transactions'[doing.id].status = This.status
        /\ transactions'[doing.id].found = This.found
        /\ transactions'[doing.id].backup = This.backup
        /\ transactions'[doing.id].touched = This.touched \cup {Place}
        /\ transactions'[doing.id] \in Deal
    <3>1. This.touched \cup {Place} \in SUBSET Target
      BY <1>1 DEF Deal
    <3>2. transactions'[doing.id] = [status |-> This.status, found |-> This.found,
              backup |-> This.backup, touched |-> This.touched \cup {Place}]
      BY <1>1, <2>2 DEF Deal
    <3>3. QED
      BY <1>1, <3>1, <3>2 DEF Deal
  <2>4. transactions' \in [Transaction -> Deal]
    BY <1>1, <2>2, <2>3
  <2>5. \A y \in Transaction : transactions'[y].found = transactions[y].found
    BY <2>2, <2>3 DEF This
  <2>6. \A y \in Transaction, t \in Target \ Directory : transactions'[y].found[t] # Shredded
    BY <2>5 DEF HostInv, DataTyped
  <2>7. This.status = "open" /\ This.backup[Place] = This.found[Place]
    BY <1>1, <1>3 DEF HostWorking, Applying, Undoing, RollingBack
  <2>8. BackupsWhole'
    <3>1. ASSUME NEW t \in This.touched \cup {Place} PROVE This.backup[t] = This.found[t]
      BY <1>1, <2>7 DEF HostInv, BackupsWhole, This
    <3>2. ASSUME NEW y \in Transaction
          PROVE  /\ transactions'[y].status = "none" => transactions'[y].touched = {}
                 /\ transactions'[y].status = "applied" => transactions'[y].touched = Target
                 /\ transactions'[y].status \in {"open", "applied"} =>
                       \A t \in transactions'[y].touched :
                          transactions'[y].backup[t] = transactions'[y].found[t]
      <4>1. CASE y = doing.id
        BY <2>3, <2>7, <3>1, <4>1
      <4>2. CASE y # doing.id
        BY <2>2, <4>2 DEF HostInv, BackupsWhole
      <4>3. QED
        BY <4>1, <4>2
    <3>3. QED
      BY <3>2 DEF BackupsWhole
  <2>9. QED
    BY <1>3, <2>3, <2>4, <2>6, <2>8
<1>4. QED
  BY <1>2, <1>3

LEMMA CallFailsStep == ASSUME HostInv, CallFails PROVE HostInv'
<1>1. DataTyped' /\ BackupsWhole' /\ HostWorking
  BY WaitingTyped DEF CallFails, HostInv, DataTyped, BackupsWhole
<1>2. ASSUME doing.op = "apply"
      PROVE  /\ This.status = "open" /\ ToSet(doing.applied) \subseteq This.touched
             /\ \A t \in Target \ ToSet(doing.applied) : content[t] = This.found[t]
  BY <1>1, <1>2 DEF CallFails, HostWorking, Applying, Undoing, RollingBack, Unchanged, Swapping
<1>3. QED
  BY <1>1, <1>2, RaiseStep DEF CallFails, This

LEMMA VerifiedStep == ASSUME HostInv, Verified PROVE HostInv'
<1>1. DataTyped' /\ BackupsWhole' /\ HostWorking
  BY WaitingTyped DEF Verified, HostInv, DataTyped, BackupsWhole
<1>2. Applying /\ doing.at = "verify" /\ doing.todo = <<>>
  BY <1>1 DEF Verified, HostWorking, Applying, Undoing, RollingBack
<1>3. /\ doing'.op = doing.op /\ doing'.at = "record" /\ doing'.id = doing.id
      /\ doing'.todo = doing.todo /\ doing'.applied = doing.applied /\ DoingTyped'
  BY DEF Verified, HostInv, DoingTyped
<1>4. ToSet(doing.todo) = {}
  BY <1>2, NothingListed
<1>5. Applying'
  BY <1>2, <1>3, <1>4 DEF Applying, Verified, This, Unchanged, Swapping
<1>6. QED
  BY <1>1, <1>3, <1>5 DEF HostInv, HostWorking, Swapping

LEMMA ReplaceAtOnceStep == ASSUME HostInv, ReplaceAtOnce PROVE HostInv'
<1>1. doing.at = "replace" /\ Place \in Target
  BY PlaceListed DEF ReplaceAtOnce
<1>2. /\ Wanted \in Value /\ (Place \notin Directory => Wanted # Shredded)
      /\ doing.op # "apply" => Wanted = This.found[Place]
  BY <1>1, WantedIs
<1>3. /\ content' = [content EXCEPT ![Place] = Wanted] /\ safety' = safety /\ edits' = edits
      /\ transactions' = Touched /\ Advance
  BY DEF ReplaceAtOnce
<1>4. DataTyped' /\ BackupsWhole'
  <2>1. /\ content' \in [Target -> Value]
        /\ \A t \in Target \ Directory : content'[t] # Shredded
    BY <1>1, <1>2, <1>3 DEF HostInv, DataTyped
  <2>2. QED
    BY <1>1, <1>3, <2>1, TouchedStep DEF HostInv, DataTyped
<1>5. /\ content'[Place] = Wanted
      /\ \A t \in Target \ {Place} : content'[t] = content[t] /\ safety'[t] = safety[t]
  BY <1>1, <1>3 DEF HostInv, DataTyped
<1>6. QED
  BY <1>1, <1>2, <1>3, <1>4, <1>5, TouchedStep, AdvanceStep

LEMMA RemoveTargetFailsStep == ASSUME HostInv, RemoveTargetFails PROVE HostInv'
<1>1. doing.at = "replace" /\ Place \in Target /\ Place \in Directory /\ Wanted = Gone
  BY PlaceListed DEF RemoveTargetFails
<1>2. doing.op # "apply"
  BY <1>1, WantedIs
<1>3. doing' = Waiting
  BY <1>2 DEF RemoveTargetFails, Raise
<1>4. DataTyped' /\ BackupsWhole'
  BY <1>1 DEF RemoveTargetFails, HostInv, DataTyped, BackupsWhole, Value
<1>5. QED
  BY <1>3, <1>4, GivesUp

\* The target that is moved aside is what apply has found.
LEMMA MoveAsideStep == ASSUME HostInv, MoveAside PROVE HostInv'
<1>1. /\ doing.at = "replace" /\ Place \in Target /\ Place \in ToSet(doing.todo) /\ HostWorking
      /\ Place \in Directory /\ content[Place] # Gone
  BY PlaceListed DEF MoveAside
<1>2. /\ safety' = [safety EXCEPT ![Place] = @ \cup {content[Place]}]
      /\ content' = [content EXCEPT ![Place] = Gone]
      /\ transactions' = Touched /\ edits' = edits
      /\ doing' = [doing EXCEPT !.at = "install", !.aside = content[Place]]
  BY DEF MoveAside
<1>3. content[Place] \in Value /\ Gone \in Value /\ Gone # Shredded
  BY <1>1, NeitherIsContent DEF HostInv, DataTyped, Value
<1>4. /\ doing'.op = doing.op /\ doing'.at = "install" /\ doing'.id = doing.id
      /\ doing'.todo = doing.todo /\ doing'.applied = doing.applied
      /\ doing'.aside = content[Place] /\ DoingTyped' /\ Swapping'
  BY <1>2, <1>3 DEF HostInv, DoingTyped, Swapping
<1>5. Place' = Place
  BY <1>4 DEF Place
<1>6. /\ content'[Place] = Gone /\ content[Place] \in safety'[Place]
      /\ \A t \in Target \ {Place} : content'[t] = content[t] /\ safety'[t] = safety[t]
  BY <1>1, <1>2 DEF HostInv, DataTyped
<1>7. DataTyped' /\ BackupsWhole'
  <2>1. /\ content' \in [Target -> Value] /\ safety' \in [Target -> SUBSET Value]
        /\ \A t \in Target \ Directory : content'[t] # Shredded
    BY <1>1, <1>2, <1>3 DEF HostInv, DataTyped
  <2>2. QED
    BY <1>1, <1>2, <2>1, TouchedStep DEF HostInv, DataTyped
<1>8. /\ transactions'[doing.id].status = This.status
      /\ transactions'[doing.id].found = This.found
      /\ transactions'[doing.id].backup = This.backup
      /\ transactions'[doing.id].touched =
            IF doing.op = "apply" THEN This.touched \cup {Place} ELSE This.touched
  BY <1>1, <1>2, TouchedStep
<1>9. CASE Applying
  <2>1. ~Swapping /\ Unchanged(Place)
    BY <1>1, <1>9 DEF Swapping, Applying
  <2>2. Applying'
    BY <1>1, <1>4, <1>5, <1>6, <1>8, <1>9, <2>1, NothingListed
    DEF Applying, This, Unchanged, HostInv, DoingTyped
  <2>3. QED
    BY <1>1, <1>4, <1>5, <1>7, <2>2 DEF HostInv, HostWorking, Swapping
<1>10. CASE Undoing
  <2>1. Undoing'
    BY <1>1, <1>4, <1>6, <1>8, <1>10 DEF Undoing, This, Unchanged, TargetRestored, CutShort
  <2>2. QED
    BY <1>1, <1>4, <1>5, <1>7, <2>1 DEF HostInv, HostWorking, Swapping
<1>11. CASE RollingBack
  <2>1. RollingBack'
    BY <1>1, <1>4, <1>6, <1>8, <1>11 DEF RollingBack, This, Unchanged
  <2>2. QED
    BY <1>1, <1>4, <1>5, <1>7, <2>1 DEF HostInv, HostWorking, Swapping
<1>12. QED
  BY <1>1, <1>9, <1>10, <1>11 DEF HostWorking

LEMMA InstallStagedStep == ASSUME HostInv, InstallStaged \/ InstallStagedFails PROVE HostInv'
<1>1. /\ doing.at = "install" /\ Place \in Target /\ Place \in ToSet(doing.todo) /\ HostWorking
      /\ Swapping /\ Place \in Directory
  BY PlaceListed DEF InstallStaged, InstallStagedFails, Swapping, HostWorking
<1>2. PICK new \in Value, at \in {"clean", "recover"} :
         /\ content' = [content EXCEPT ![Place] = new]
         /\ doing' = [doing EXCEPT !.at = at]
         /\ Place \notin Directory => new # Shredded
         /\ at = "clean" => new = Wanted
         /\ at = "recover" => new = content[Place]
  BY <1>1, WantedIs DEF InstallStaged, InstallStagedFails, HostInv, DataTyped
<1>3. safety' = safety /\ transactions' = transactions /\ edits' = edits
  BY DEF InstallStaged, InstallStagedFails
<1>4. /\ doing'.op = doing.op /\ doing'.at = at /\ doing'.id = doing.id
      /\ doing'.todo = doing.todo /\ doing'.applied = doing.applied
      /\ doing'.aside = doing.aside /\ DoingTyped' /\ Swapping'
  BY <1>2 DEF HostInv, DoingTyped, Swapping
<1>5. Place' = Place
  BY <1>4 DEF Place
<1>6. content'[Place] = new /\ \A t \in Target \ {Place} : content'[t] = content[t]
  BY <1>1, <1>2 DEF HostInv, DataTyped
<1>7. DataTyped' /\ BackupsWhole'
  BY <1>1, <1>2, <1>3 DEF HostInv, DataTyped, BackupsWhole
<1>8. CASE Applying
  <2>1. at = "clean" => new = Merged(Place, This.found[Place])
    BY <1>2, <1>8 DEF Wanted, Applying
  <2>2. This' = This /\ (at = "clean" => content'[Place'] = Merged(Place', This.found[Place']))
    BY <1>3, <1>4, <1>5, <1>6, <2>1 DEF This
  <2>3. \A t \in ToSet(doing'.todo) : Unchanged(t)' \/ (Swapping' /\ t = Place')
    BY <1>1, <1>4, <1>5, <1>6, <1>8, <2>2, NothingListed DEF Applying, Unchanged, HostInv, DoingTyped
  <2>4. Applying'
    BY <1>1, <1>2, <1>3, <1>4, <1>5, <1>6, <1>8, <2>2, <2>3 DEF Applying
  <2>5. QED
    BY <1>1, <1>4, <1>5, <1>7, <2>4 DEF HostInv, HostWorking, Swapping
<1>9. CASE Undoing
  <2>1. at = "clean" => new = This.found[Place]
    BY <1>1, <1>2, <1>9, WantedIs DEF Undoing
  <2>2. Undoing'
    BY <1>1, <1>3, <1>4, <1>5, <1>6, <1>9, <2>1 DEF Undoing, This, Unchanged, TargetRestored, CutShort
  <2>3. QED
    BY <1>1, <1>4, <1>5, <1>7, <2>2 DEF HostInv, HostWorking, Swapping
<1>10. CASE RollingBack
  <2>1. at = "clean" => new = This.found[Place]
    BY <1>1, <1>2, <1>10, WantedIs DEF RollingBack
  <2>2. RollingBack'
    BY <1>1, <1>3, <1>4, <1>5, <1>6, <1>10, <2>1 DEF RollingBack, This, Unchanged
  <2>3. QED
    BY <1>1, <1>4, <1>5, <1>7, <2>2 DEF HostInv, HostWorking, Swapping
<1>11. QED
  BY <1>1, <1>8, <1>9, <1>10 DEF HostWorking

LEMMA RecoverTargetStep == ASSUME HostInv, RecoverTarget \/ RecoverTargetFails PROVE HostInv'
<1>1. /\ doing.at = "recover" /\ Place \in Target /\ Place \in ToSet(doing.todo) /\ HostWorking
      /\ Place \in Directory /\ doing.aside \in Value /\ Raise
  BY PlaceListed
  DEF RecoverTarget, RecoverTargetFails, Swapping, HostWorking, HostInv, DoingTyped
<1>2. transactions' = transactions /\ edits' = edits
  BY DEF RecoverTarget, RecoverTargetFails
<1>3. CASE doing.op # "apply"
  <2>1. doing' = Waiting
    BY <1>1, <1>3 DEF Raise
  <2>2. QED
    BY <1>1, <1>2, <2>1, GivesUp
    DEF RecoverTarget, RecoverTargetFails, HostInv, DataTyped, BackupsWhole
<1>4. CASE doing.op = "apply"
  <2>1. Applying /\ content[Place] = Gone /\ doing.aside = This.found[Place]
        /\ This.found[Place] \in safety[Place]
    BY <1>1, <1>4 DEF HostWorking, Applying, Undoing, RollingBack
  <2>2. \A t \in Target \ ToSet(doing.applied) : t # Place => content[t] = This.found[t]
    BY <2>1 DEF Applying, Unchanged
  <2>3. \/ content' = [content EXCEPT ![Place] = doing.aside]
        \/ content' = content /\ safety' = safety
    BY DEF RecoverTarget, RecoverTargetFails
  <2>4. \A t \in Target \ ToSet(doing.applied) :
           \/ content'[t] = This.found[t]
           \/ content'[t] = Gone /\ This.found[t] \in safety'[t]
    BY <1>1, <2>1, <2>2, <2>3 DEF HostInv, DataTyped
  <2>5. DataTyped' /\ BackupsWhole'
    BY <1>1, <1>2 DEF RecoverTarget, RecoverTargetFails, HostInv, DataTyped, BackupsWhole
  <2>6. This.status = "open" /\ ToSet(doing.applied) \subseteq This.touched
    BY <2>1 DEF Applying
  <2>7. QED
    BY <1>1, <1>2, <2>4, <2>5, <2>6, RaiseStep DEF This
<1>5. QED
  BY <1>3, <1>4

LEMMA RemoveSafetyStep == ASSUME HostInv, RemoveSafety PROVE HostInv'
<1>1. /\ doing.at = "clean" /\ Place \in Target /\ HostWorking /\ Swapping
      /\ doing.id \in Transaction /\ This \in Deal
  BY PlaceListed DEF RemoveSafety, Swapping, HostWorking, HostInv, DataTyped, This
<1>2. /\ safety' = [safety EXCEPT ![Place] = @ \ {doing.aside}] /\ Advance
      /\ content' = content /\ transactions' = transactions /\ edits' = edits
  BY DEF RemoveSafety
<1>3. DataTyped' /\ BackupsWhole'
  BY <1>1, <1>2 DEF HostInv, DataTyped, BackupsWhole
<1>4. \A t \in Target \ {Place} : content'[t] = content[t] /\ safety'[t] = safety[t]
  BY <1>1, <1>2 DEF HostInv, DataTyped
<1>5. doing.op # "apply" => content'[Place] = This.found[Place]
  BY <1>1, <1>2 DEF HostWorking, Applying, Undoing, RollingBack, Unchanged
<1>6. doing.op = "apply" => This.touched = This.touched \cup {Place}
  BY <1>1 DEF HostWorking, Applying, Undoing, RollingBack
<1>7. transactions'[doing.id] = This
  BY <1>2 DEF This
<1>8. transactions'[doing.id].touched =
         IF doing.op = "apply" THEN This.touched \cup {Place} ELSE This.touched
  BY <1>6, <1>7
<1>9. QED
  BY <1>1, <1>2, <1>3, <1>4, <1>5, <1>7, <1>8, AdvanceStep

\* The target is in place and apply does not list it.
LEMMA RemoveSafetyFailsStep == ASSUME HostInv, RemoveSafetyFails PROVE HostInv'
<1>1. /\ doing.at = "clean" /\ Place \in Target /\ HostWorking /\ Swapping /\ Raise
  BY PlaceListed DEF RemoveSafetyFails, Swapping
<1>2. /\ safety' = [safety EXCEPT ![Place] = (@ \ {doing.aside}) \cup {Shredded}]
      /\ content' = content /\ transactions' = transactions /\ edits' = edits
  BY DEF RemoveSafetyFails
<1>3. DataTyped' /\ BackupsWhole'
  BY <1>1, <1>2, NeitherIsContent DEF HostInv, DataTyped, BackupsWhole, Value
<1>4. CASE doing.op # "apply"
  BY <1>1, <1>3, <1>4, GivesUp DEF Raise
<1>5. CASE doing.op = "apply"
  <2>1. Applying
    BY <1>1, <1>5 DEF HostWorking, Undoing, RollingBack
  <2>2. /\ This.status = "open" /\ ToSet(doing.applied) \subseteq This.touched
        /\ Place \in This.touched /\ content[Place] = Merged(Place, This.found[Place])
        /\ \A t \in Target \ ToSet(doing.applied) : t # Place => content[t] = This.found[t]
    BY <1>1, <2>1 DEF Applying, Unchanged
  <2>3. Shredded \in safety'[Place]
    BY <1>1, <1>2 DEF HostInv, DataTyped
  <2>4. QED
    BY <1>1, <1>2, <1>3, <2>2, <2>3, RaiseStep DEF This
<1>6. QED
  BY <1>4, <1>5

LEMMA DiscardStep == ASSUME HostInv, DiscardTransaction PROVE HostInv'
<1>1. /\ HostWorking /\ doing.id \in Transaction /\ transactions \in [Transaction -> Deal]
      /\ [t \in Target |-> Gone] \in [Target -> Value]
  BY WaitingTyped DEF DiscardTransaction, HostInv, DataTyped, HostWorking, Value
<1>2. transactions' = [transactions EXCEPT ![doing.id].status = "failed",
                                          ![doing.id].backup = [t \in Target |-> Gone]]
  BY DEF DiscardTransaction
<1>3. /\ transactions'[doing.id] = [status |-> "failed", found |-> This.found,
                                   backup |-> [t \in Target |-> Gone], touched |-> This.touched]
      /\ transactions' = [transactions EXCEPT ![doing.id] = transactions'[doing.id]]
      /\ \A y \in Transaction \ {doing.id} : transactions'[y] = transactions[y]
      /\ This \in Deal
  BY <1>1, <1>2 DEF This, Deal
<1>4. transactions'[doing.id] \in Deal
  BY <1>1, <1>3 DEF Deal
<1>5. /\ transactions' \in [Transaction -> Deal]
      /\ \A y \in Transaction : transactions'[y].found = transactions[y].found
  BY <1>1, <1>3, <1>4 DEF This
<1>6. DataTyped'
  BY <1>5 DEF DiscardTransaction, HostInv, DataTyped
<1>7. BackupsWhole'
  BY <1>3 DEF HostInv, BackupsWhole
<1>8. QED
  BY <1>6, <1>7, GivesUp DEF DiscardTransaction

\* An apply is recorded when every target has been replaced.
LEMMA RecordStep == ASSUME HostInv, RecordTransaction PROVE HostInv'
<1> DEFINE status == IF doing.op = "apply" THEN "applied" ELSE "rolled-back"
<1>1. /\ HostWorking /\ doing.id \in Transaction /\ transactions \in [Transaction -> Deal]
  BY WaitingTyped DEF RecordTransaction, HostInv, DataTyped, HostWorking
<1>2. transactions' = [transactions EXCEPT ![doing.id].status = status]
  BY DEF RecordTransaction
<1>3. /\ transactions'[doing.id] = [status |-> status, found |-> This.found,
                                   backup |-> This.backup, touched |-> This.touched]
      /\ transactions' = [transactions EXCEPT ![doing.id] = transactions'[doing.id]]
      /\ \A y \in Transaction \ {doing.id} : transactions'[y] = transactions[y]
      /\ This \in Deal
  BY <1>1, <1>2 DEF This, Deal
<1>4. transactions'[doing.id] \in Deal
  BY <1>1, <1>3 DEF Deal
<1>5. /\ transactions' \in [Transaction -> Deal]
      /\ \A y \in Transaction : transactions'[y].found = transactions[y].found
  BY <1>1, <1>3, <1>4 DEF This
<1>6. DataTyped'
  BY <1>5 DEF RecordTransaction, HostInv, DataTyped
<1>7. status = "applied" => This.touched = Target /\ This.status = "open"
  <2>1. SUFFICES ASSUME doing.op = "apply" PROVE This.touched = Target /\ This.status = "open"
    OBVIOUS
  <2>2. Applying /\ doing.todo = <<>>
    BY <1>1, <2>1 DEF RecordTransaction, HostWorking, Applying, Undoing, RollingBack
  <2>3. Target \subseteq ToSet(doing.applied)
    BY <2>2, NothingListed DEF Applying
  <2>4. QED
    BY <1>3, <2>2, <2>3 DEF Applying, Deal
<1>8. BackupsWhole'
  <2>1. ASSUME NEW y \in Transaction
        PROVE  /\ transactions'[y].status = "none" => transactions'[y].touched = {}
               /\ transactions'[y].status = "applied" => transactions'[y].touched = Target
               /\ transactions'[y].status \in {"open", "applied"} =>
                     \A t \in transactions'[y].touched :
                        transactions'[y].backup[t] = transactions'[y].found[t]
    <3>1. CASE y = doing.id
      BY <1>3, <1>7, <3>1 DEF HostInv, BackupsWhole, This
    <3>2. CASE y # doing.id
      BY <1>3, <3>2 DEF HostInv, BackupsWhole
    <3>3. QED
      BY <3>1, <3>2
  <2>2. QED
    BY <2>1 DEF BackupsWhole
<1>9. QED
  BY <1>6, <1>8, GivesUp DEF RecordTransaction

LEMMA HostStep == ASSUME HostInv, [HostNext]_hostVars PROVE HostInv'
<1>1. CASE UNCHANGED hostVars
  BY <1>1 DEF hostVars, HostInv, DataTyped, DoingTyped, BackupsWhole, HostWorking, Applying,
              Undoing, RollingBack, TargetRestored, CutShort, Unchanged, This, Place, Swapping
<1>2. CASE HostProcessEnds
  BY <1>2, GivesUp DEF HostProcessEnds, HostInv, DataTyped, BackupsWhole
<1>3. CASE HostNext
  BY <1>2, <1>3, EditStep, BeginApplyStep, BeginRollbackStep, BackUpTargetStep, CallFailsStep,
     VerifiedStep, ReplaceAtOnceStep, RemoveTargetFailsStep, MoveAsideStep, InstallStagedStep,
     RecoverTargetStep, RemoveSafetyStep, RemoveSafetyFailsStep, DiscardStep, RecordStep
  DEF HostNext
<1>4. QED
  BY <1>1, <1>3

LEMMA HostInvariant == HostSpec => []HostInv
<1>1. HostInv /\ [HostNext]_hostVars => HostInv'
  BY HostStep
<1>2. QED
  BY <1>1, HostInitInv, PTL DEF HostSpec

-----------------------------------------------------------------------------
\* Targets, safety paths and transaction directories keep their types.
THEOREM HostTypeCorrect == HostSpec => []HostTypeOK
<1>1. HostInv => HostTypeOK
  <2> SUFFICES ASSUME HostInv PROVE HostTypeOK
    OBVIOUS
  <2>2. ASSUME NEW t \in Target
        PROVE  content[t] \in Content \cup {Gone, Shredded} /\ safety[t] \subseteq Content \cup {Shredded}
    BY DEF HostInv, DataTyped, Value
  <2>3. ASSUME NEW x \in Transaction
        PROVE  /\ transactions[x].status \in {"none", "open", "failed", "applied", "rolled-back"}
               /\ transactions[x].touched \subseteq Target
    BY DEF HostInv, DataTyped, Deal
  <2>4. doing.id \in 0 .. MaxTransactions
    BY DEF HostInv, DoingTyped
  <2>5. QED
    BY <2>2, <2>3, <2>4 DEF HostTypeOK
<1>2. QED
  BY <1>1, HostInvariant, PTL

\* As long as an apply is recorded, or has died or failed half way, what a user had is
\* whole in its backup; a failed apply restores every target, but for one whose previous
\* directory it could not remove; and a recorded rollback has restored every target.
THEOREM PreviousContentAlwaysKept == HostSpec => []PreviousContentKept
<1>1. ASSUME HostInv PROVE PreviousContentKept
  <2>1. doing.at \in {"discard", "record"} => HostWorking
    BY <1>1, WaitingTyped DEF HostInv
  <2>2. doing.at = "discard" => Undoing /\ ToSet(doing.todo) = {}
    BY <2>1, NothingListed DEF HostWorking, Applying, Undoing, RollingBack
  <2>3. doing.at = "record" /\ doing.op = "rollback" => RollingBack /\ ToSet(doing.todo) = {}
    BY <2>1, NothingListed DEF HostWorking, Applying, Undoing, RollingBack
  <2>4. QED
    BY <1>1, <2>2, <2>3
    DEF PreviousContentKept, HostInv, BackupsWhole, Undoing, RollingBack, Unchanged
<1>2. QED
  BY <1>1, HostInvariant, PTL
=============================================================================
