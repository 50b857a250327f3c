-------------------------- MODULE MCBackgroundServices -------------------------
(***************************************************************************)
(* Two services that go on by themselves, checked in one run: the rules    *)
(* engine of gamification and the jobs of content migrations and exports.  *)
(* They share no row and no lock, so a behaviour is about one of them,     *)
(* chosen at the start, and the other stays as it is.                      *)
(***************************************************************************)
EXTENDS Gamification, ContentJobs

VARIABLE about

XP(n) == [kind |-> "AwardCurrency", code |-> "xp", delta |-> n]
Coins(n) == [kind |-> "AwardCurrency", code |-> "coins", delta |-> n]
Badge(b) == [kind |-> "AwardBadge", code |-> b]

\* A completed quiz gives a point and a badge, once in a while; the badge, to
\* a learner with a point, gives another badge, a coin and, the ledger having
\* one row per event and rule, no second point, once in a lifetime.
QuizRule == [on |-> "completed", needs |-> {}, effects |-> <<XP(1), Badge("first")>>,
             cooldown |-> 1, limit |-> 0, window |-> 0]
CollectorRule == [on |-> "earned", needs |-> {[code |-> "xp", min |-> 1]},
                  effects |-> <<Badge("collector"), Coins(1), XP(1)>>,
                  cooldown |-> 0, limit |-> 1, window |-> 0]
TwoRules == <<QuizRule, CollectorRule>>

Init ==
  /\ GamInit /\ JobsInit
  /\ about = kind \/ (about = "gamification" /\ kind = "export")
Next ==
  /\ \/ about = "gamification" /\ GamNext /\ UNCHANGED jobVars
     \/ about = kind /\ JobsNext /\ UNCHANGED gamVars
  /\ UNCHANGED about
vars == <<gamVars, jobVars, about>>
Spec == Init /\ [][Next]_vars /\ GamFairness /\ JobsFairness

\* Rows, the calls under way and the copies workers hold keep their types.
TypeOK == GamTypeOK /\ JobsTypeOK
===============================================================================
