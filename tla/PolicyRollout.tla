----------------------------- MODULE PolicyRollout -----------------------------
(***************************************************************************)
(* Rollout of policies in one scope (syntavra_runtime/policy_rollout.py):   *)
(* observations of a policy, decisions taken from a window of them,         *)
(* promotion through the stages, automatic rollback and quarantine.         *)
(*                                                                          *)
(* promote and rollback read the active policy and append a row in a later  *)
(* transaction; a decision may be as old as its holder likes.  Means,       *)
(* bounds and drift are abstracted to the health they amount to; the        *)
(* cooldown, which may be 0, only delays.                                   *)
(***************************************************************************)
EXTENDS Integers, FiniteSets, Sequences

CONSTANTS
    Policy,    \* policy hashes
    NoPolicy,  \* ''
    Manager,   \* processes that promote, observe, roll back and quarantine
    MaxRows    \* bound: rows of policy_rollouts

VARIABLES
    rollouts,    \* table policy_rollouts
    quarantined, \* table policy_quarantine
    managing     \* where each process is in its call

rolloutVars == <<rollouts, quarantined, managing>>

-----------------------------------------------------------------------------
Stages == {"shadow", "canary", "staged", "full"}
Rank(stage) == CASE stage = "canary" -> 1 [] stage = "staged" -> 2 [] stage = "full" -> 3 [] OTHER -> 0

NoRollout == [policy |-> NoPolicy, stage |-> "shadow", previous |-> NoPolicy]
Active == IF rollouts = <<>> THEN NoRollout ELSE rollouts[Len(rollouts)]

AtRest == [at |-> "rest", policy |-> NoPolicy, verdict |-> "none", row |-> NoRollout]

RolloutInit ==
    /\ rollouts = <<>>
    /\ quarantined = {}
    /\ managing = [m \in Manager |-> AtRest]

\* evaluate: what the window of observations amounts to, and the decision: "poor"
\* has too few samples or misses a floor, "insecure" has a security regression.
\* record adds observations at any time, so that the window may say anything.  A
\* decision from less than 10 samples leads to nothing and is left out.
Health == {"poor", "good", "insecure"}

Verdict(p, health) ==
    CASE health = "insecure" -> "insecure"
      [] health = "good" /\ p \notin quarantined -> "eligible"
      [] OTHER -> "refused"

Evaluate(m, p) ==
    /\ managing[m] = AtRest
    /\ \E h \in Health : managing' =
          [managing EXCEPT ![m] = [AtRest EXCEPT !.at = "decided", !.policy = p, !.verdict = Verdict(p, h)]]
    /\ UNCHANGED <<rollouts, quarantined>>

\* "policy promotion cannot skip rollout stages", seen from the row that was read.
InOrder(target, current) == target = current \/ Rank(target) <= Rank(current) + 1

\* promote, up to its transaction.
Promote(m, target) ==
    /\ managing[m].at = "decided" /\ managing[m].verdict = "eligible"
    /\ InOrder(target, Active.stage)
    /\ managing' = [managing EXCEPT ![m].at = "insert",
          ![m].row = [policy |-> managing[m].policy, stage |-> target, previous |-> Active.policy]]
    /\ UNCHANGED <<rollouts, quarantined>>

Insert(m) ==
    /\ managing[m].at = "insert" /\ Len(rollouts) < MaxRows
    /\ rollouts' = Append(rollouts, managing[m].row)
    /\ managing' = [managing EXCEPT ![m] = AtRest]
    /\ UNCHANGED quarantined

\* observe_and_auto_rollback: what it does after its look at the active policy.
Observe(m) ==
    /\ managing[m].at = "decided" /\ rollouts # <<>> /\ Active.policy = managing[m].policy
    /\ managing[m].verdict \in {"insecure", "refused"}
    /\ managing' = [managing EXCEPT ![m].at =
          IF managing[m].verdict = "insecure" THEN "quarantine" ELSE "rollback"]
    /\ UNCHANGED <<rollouts, quarantined>>

Quarantine(m) ==
    /\ managing[m].at = "quarantine"
    /\ quarantined' = quarantined \cup {managing[m].policy}
    /\ managing' = [managing EXCEPT ![m].at = "rollback"]
    /\ UNCHANGED rollouts

Undone(row) == [policy |-> row.previous, stage |-> "rolled-back", previous |-> row.policy]

\* rollback reads the active policy, once more if it was called by observe.
StartRollback(m) ==
    /\ managing[m].at \in {"rest", "rollback"} /\ rollouts # <<>>
    /\ managing' = [managing EXCEPT ![m] = [AtRest EXCEPT !.at = "insert", !.row = Undone(Active)]]
    /\ UNCHANGED <<rollouts, quarantined>>

\* The call is over: refused, healthy, or its process has died.
Leave(m) ==
    /\ managing[m] # AtRest
    /\ managing' = [managing EXCEPT ![m] = AtRest]
    /\ UNCHANGED <<rollouts, quarantined>>

RolloutNext ==
    \E m \in Manager :
        \/ \E p \in Policy : Evaluate(m, p)
        \/ \E target \in Stages : Promote(m, target)
        \/ Insert(m) \/ Observe(m) \/ Quarantine(m) \/ StartRollback(m) \/ Leave(m)

RolloutSpec == RolloutInit /\ [][RolloutNext]_rolloutVars

-----------------------------------------------------------------------------
RolloutTypeOK ==
    /\ \A i \in 1 .. Len(rollouts) : rollouts[i].policy \in Policy \cup {NoPolicy}
    /\ quarantined \subseteq Policy
    /\ \A m \in Manager : managing[m].policy \in Policy \cup {NoPolicy}

\* A promotion goes at most one stage beyond the row it takes the place of ("policy
\* promotion cannot skip rollout stages").  promote compares with the row that was
\* active when it read; by the time it appends, another manager may have rolled that
\* row back.
StagesClimb ==
    \A i \in 1 .. Len(rollouts) :
        Rank(rollouts[i].stage) <= 1 + (IF i = 1 THEN 0 ELSE Rank(rollouts[i - 1].stage))
=============================================================================
