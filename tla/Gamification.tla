----------------------------- MODULE Gamification ------------------------------
(***************************************************************************)
(* internal/service/gamification: the rules engine, for one learner.  What *)
(* a learner does is emitted as an event; the dispatcher takes the site's  *)
(* rules for the event in id order, checks each rule's cooldown and limit  *)
(* against the evaluations already recorded, evaluates its condition, runs *)
(* its effects and only then records the evaluation.  A first award of a   *)
(* badge emits badge.earned through the same pipeline, inside the effect.  *)
(*                                                                         *)
(* Events are emitted by callbacks of concurrent requests (workers); every *)
(* database transaction is a step.  Rules, conditions and effects keep     *)
(* what the gates and the wallet tell apart; the audit text, FERPA flags   *)
(* and scopes other than the site are left out.                            *)
(***************************************************************************)
EXTENDS Naturals, FiniteSets, FiniteSetsExt, Sequences, SequencesExt

CONSTANTS
  Workers,       \* goroutines in which callbacks emit events
  Currencies,    \* GamificationCurrencyType rows of the site, all monotonic
  Badges,        \* GamificationBadge rows of the site
  Rules,         \* the enabled rules of the site, by id: see RulesAssumption
  MaxActivities, \* bound on what the learner does
  MaxClock,      \* bound on time
  MaxUpsets      \* bound on badges awarded and revoked by hand, statements
                 \* that fail and crashes, together

Effect == [kind : {"AwardCurrency"}, code : Currencies, delta : Nat \ {0}]
            \cup [kind : {"AwardBadge"}, code : Badges]

\* on: the trigger; needs: the CurrencyThreshold predicates of the condition,
\* all of which must hold; cooldown and limit: 0 for none; window: 0 for
\* "lifetime". ValidateRuleBody.
Rule == [on : {"completed", "earned"},
         needs : SUBSET [code : Currencies, min : Nat],
         effects : Seq(Effect),
         cooldown : Nat, limit : Nat, window : Nat]
ASSUME RulesAssumption == Rules \in Seq(Rule)
ASSUME WorkersAssumption == IsFiniteSet(Workers)
ASSUME BoundsAssumption == {MaxActivities, MaxClock, MaxUpsets} \subseteq Nat

VARIABLES
  clock,    \* now
  events,   \* gamification_events: the trigger and, of badge.earned, the badge
  firings,  \* gamification_rule_evaluations with result = true, as inserted
  ledger,   \* gamification_wallet_transactions
  balance,  \* gamification_wallet_balances: the rows there are
  rowLock,  \* FOR UPDATE locks on those rows: currency -> worker
  awards,   \* gamification_badge_awards
  stack,    \* per worker: the calls of Emit under way, the innermost last
  revoked,  \* how often each badge has been revoked
  done      \* so far: activities of the learner, acts of administrators, effects
            \* that failed, emits or servers that broke off

gamVars == <<clock, events, firings, ledger, balance, rowLock, awards, stack, revoked, done>>

RuleIds == DOMAIN Rules
\* A call of Emit: its event, the rules still to dispatch (the lowest id is at
\* work), where dispatchOne stands, the next effect, whether ApplyTransaction found a
\* balance row and what it held, and how many firings were recorded at its start.
Frame == [event : Nat, todo : SUBSET RuleIds, at : {"gate", "condition", "effects", "wallet", "chain"},
          effect : Nat \ {0}, exists : BOOLEAN, read : Nat, began : Nat]
Top(w) == stack[w][Len(stack[w])]
WithTop(w, f) == [stack EXCEPT ![w][Len(stack[w])] = f]
Working(w, at) == stack[w] # <<>> /\ Top(w).todo # {} /\ Top(w).at = at
Current(w) == Min(Top(w).todo)
CurrentRule(w) == Rules[Current(w)]
CurrentEffect(w) == CurrentRule(w).effects[Top(w).effect]
EffectsLeft(w) == Top(w).effect <= Len(CurrentRule(w).effects)

NextRule(f) == [f EXCEPT !.todo = @ \ {Min(@)}, !.at = "gate", !.effect = 1]
NextEffect(f) == [f EXCEPT !.at = "effects", !.effect = @ + 1, !.exists = FALSE, !.read = 0]
\* runEffects marks what follows a failed effect as skipped.
SkipEffectsUnrecorded(f) == NextRule(f)
SkipEffects(f) ==
  [f EXCEPT !.at = "effects", !.effect = Len(Rules[Min(f.todo)].effects) + 1,
             !.exists = FALSE, !.read = 0]

GamTypeOK ==
  /\ clock \in 0 .. MaxClock
  /\ events \in Seq([on : {"completed"}] \cup [on : {"earned"}, badge : Badges])
  /\ firings \in Seq([rule : RuleIds, event : DOMAIN events, at : 0 .. MaxClock, began : Nat])
  /\ ledger \subseteq [event : DOMAIN events, rule : RuleIds, code : Currencies, delta : Nat]
  /\ DOMAIN balance \subseteq Currencies /\ \A c \in DOMAIN balance : balance[c] \in Nat
  /\ DOMAIN rowLock \subseteq DOMAIN balance /\ \A c \in DOMAIN rowLock : rowLock[c] \in Workers
  /\ awards \subseteq Badges
  /\ stack \in [Workers -> Seq(Frame)]
  /\ revoked \in [Badges -> Nat]
  /\ done \in [activities : 0 .. MaxActivities, byHand : 0 .. MaxUpsets,
              failures : 0 .. MaxUpsets, losses : 0 .. MaxUpsets]

GamInit ==
  /\ clock = 0
  /\ events = <<>> /\ firings = <<>> /\ ledger = {} /\ balance = <<>> /\ rowLock = <<>>
  /\ awards = {}
  /\ stack = [w \in Workers |-> <<>>]
  /\ revoked = [b \in Badges |-> 0]
  /\ done = [activities |-> 0, byHand |-> 0, failures |-> 0, losses |-> 0]

-----------------------------------------------------------------------------
\* Emit stores the event and dispatches it to the rules of its trigger.
Matching(on) == {r \in RuleIds : Rules[r].on = on}
CallOfStale(on) == [event |-> Len(events), todo |-> Matching(on), at |-> "gate",
                    effect |-> 1, exists |-> FALSE, read |-> 0, began |-> Len(firings)]
CallOf(on) == [event |-> Len(events) + 1, todo |-> Matching(on), at |-> "gate",
               effect |-> 1, exists |-> FALSE, read |-> 0, began |-> Len(firings)]

Emit(w) ==
  /\ stack[w] = <<>>
  /\ done.activities < MaxActivities
  /\ done' = [done EXCEPT !.activities = @ + 1]
  /\ events' = Append(events, [on |-> "completed"])
  /\ stack' = [stack EXCEPT ![w] = <<CallOf("completed")>>]
  /\ UNCHANGED <<clock, firings, ledger, balance, rowLock, awards, revoked>>

\* CheckCooldown.
FiringsOf(r) == {i \in DOMAIN firings : firings[i].rule = r}
LastFiring(r) == {i \in FiringsOf(r) : \A j \in FiringsOf(r) : firings[j].at <= firings[i].at}
InWindow(r, i, t) == Rules[r].window = 0 \/ firings[i].at + Rules[r].window > t
InCooldownOffByOne(r) == \E i \in LastFiring(r) : clock - firings[i].at + 1 < Rules[r].cooldown
InCooldown(r) == \E i \in LastFiring(r) : clock - firings[i].at < Rules[r].cooldown
AtLimit(r) ==
  Rules[r].limit > 0 /\ Cardinality({i \in FiringsOf(r) : InWindow(r, i, clock)}) >= Rules[r].limit

CheckCooldown(w) ==
  /\ Working(w, "gate")
  /\ stack' = WithTop(w, IF InCooldown(Current(w)) \/ AtLimit(Current(w))
                         THEN NextRule(Top(w)) ELSE [Top(w) EXCEPT !.at = "condition"])
  /\ UNCHANGED <<clock, events, firings, ledger, balance, rowLock, awards, revoked, done>>

\* LoadSnapshot and Evaluate. A false condition is recorded too, but no gate
\* reads that row.
Balance(c) == IF c \in DOMAIN balance THEN balance[c] ELSE 0
Evaluate(w) ==
  /\ Working(w, "condition")
  /\ stack' = WithTop(w, IF \A need \in CurrentRule(w).needs : Balance(need.code) >= need.min
                         THEN [Top(w) EXCEPT !.at = "effects"] ELSE NextRule(Top(w)))
  /\ UNCHANGED <<clock, events, firings, ledger, balance, rowLock, awards, revoked, done>>

-----------------------------------------------------------------------------
\* AwardCurrency: ApplyTransaction reads the balance row FOR UPDATE...
Unlocked(w) == [d \in {c \in DOMAIN rowLock : rowLock[c] # w} |-> rowLock[d]]
LockBalanceShared(w) ==
  /\ Working(w, "effects") /\ EffectsLeft(w) /\ CurrentEffect(w).kind = "AwardCurrency"
  /\ LET c == CurrentEffect(w).code
     IN  stack' = WithTop(w, [Top(w) EXCEPT !.at = "wallet",
                                            !.exists = c \in DOMAIN balance, !.read = Balance(c)])
  /\ UNCHANGED <<clock, events, firings, ledger, balance, rowLock, awards, revoked, done>>
LockBalance(w) ==
  /\ Working(w, "effects") /\ EffectsLeft(w) /\ CurrentEffect(w).kind = "AwardCurrency"
  /\ LET c == CurrentEffect(w).code
     IN  /\ c \notin DOMAIN rowLock
         /\ rowLock' = [d \in DOMAIN rowLock \cup ({c} \cap DOMAIN balance) |-> IF d = c THEN w ELSE rowLock[d]]
         /\ stack' = WithTop(w, [Top(w) EXCEPT !.at = "wallet",
                                               !.exists = c \in DOMAIN balance, !.read = Balance(c)])
  /\ UNCHANGED <<clock, events, firings, ledger, balance, awards, revoked, done>>

\* ... inserts the ledger row, or finds that this rule has one for this event,
\* which counts as success; a balance row inserted by another transaction since
\* makes the insert of this one fail; otherwise the balance follows the ledger.
DuplicateNever(w) == FALSE
Duplicate(w) == \E t \in ledger : t.event = Top(w).event /\ t.rule = Current(w)
RowAppeared(w) == ~Top(w).exists /\ CurrentEffect(w).code \in DOMAIN balance

NoAwardHolding(w) ==
  /\ Working(w, "wallet")
  /\ Duplicate(w) \/ RowAppeared(w)
  /\ stack' = WithTop(w, IF Duplicate(w) THEN NextEffect(Top(w)) ELSE SkipEffects(Top(w)))
  /\ UNCHANGED <<clock, events, firings, ledger, balance, rowLock, awards, revoked, done>>
NoAward(w) ==
  /\ Working(w, "wallet")
  /\ Duplicate(w) \/ RowAppeared(w)
  /\ rowLock' = Unlocked(w)
  /\ stack' = WithTop(w, IF Duplicate(w) THEN NextEffect(Top(w)) ELSE SkipEffects(Top(w)))
  /\ UNCHANGED <<clock, events, firings, ledger, balance, awards, revoked, done>>

ApplyTransaction(w) ==
  LET e == CurrentEffect(w)
  IN
  /\ Working(w, "wallet")
  /\ ~Duplicate(w) /\ ~RowAppeared(w)
  /\ ledger' = ledger \cup {[event |-> Top(w).event, rule |-> Current(w), code |-> e.code,
                             delta |-> e.delta]}
  /\ balance' = [c \in DOMAIN balance \cup {e.code} |->
                   IF c = e.code THEN Top(w).read + e.delta ELSE balance[c]]
  /\ rowLock' = Unlocked(w)
  /\ stack' = WithTop(w, NextEffect(Top(w)))
  /\ UNCHANGED <<clock, events, firings, awards, revoked, done>>

\* AwardBadge inserts the award unless the learner has it; a new one is
\* announced by an Emit inside this effect.
AwardBadgeAgain(w) ==
  /\ Working(w, "effects") /\ EffectsLeft(w) /\ CurrentEffect(w).kind = "AwardBadge"
  /\ awards' = awards \cup {CurrentEffect(w).code}
  /\ stack' = WithTop(w, [Top(w) EXCEPT !.at = "chain"])
  /\ UNCHANGED <<clock, events, firings, ledger, balance, rowLock, revoked, done>>
AwardBadge(w) ==
  /\ Working(w, "effects") /\ EffectsLeft(w) /\ CurrentEffect(w).kind = "AwardBadge"
  /\ awards' = awards \cup {CurrentEffect(w).code}
  /\ stack' = WithTop(w, IF CurrentEffect(w).code \in awards
                         THEN NextEffect(Top(w)) ELSE [Top(w) EXCEPT !.at = "chain"])
  /\ UNCHANGED <<clock, events, firings, ledger, balance, rowLock, revoked, done>>

EmitBadgeEarned(w) ==
  /\ Working(w, "chain")
  /\ events' = Append(events, [on |-> "earned", badge |-> CurrentEffect(w).code])
  /\ stack' = [WithTop(w, NextEffect(Top(w))) EXCEPT ![w] = Append(@, CallOf("earned"))]
  /\ UNCHANGED <<clock, firings, ledger, balance, rowLock, awards, revoked, done>>

\* recordEvaluation, whatever became of the effects.
Record(w) ==
  /\ Working(w, "effects") /\ ~EffectsLeft(w)
  /\ firings' = Append(firings, [rule |-> Current(w), event |-> Top(w).event, at |-> clock,
                                 began |-> Top(w).began])
  /\ stack' = WithTop(w, NextRule(Top(w)))
  /\ UNCHANGED <<clock, events, ledger, balance, rowLock, awards, revoked, done>>

Return(w) ==
  /\ stack[w] # <<>> /\ Top(w).todo = {}
  /\ stack' = [stack EXCEPT ![w] = Front(@)]
  /\ UNCHANGED <<clock, events, firings, ledger, balance, rowLock, awards, revoked, done>>

-----------------------------------------------------------------------------
Upset(kind) ==
  /\ done.byHand + done.failures + done.losses < MaxUpsets
  /\ done' = [done EXCEPT ![kind] = @ + 1]

\* A statement fails (the insert of an evaluation in the microsecond of
\* another is one): an effect fails and the rest are skipped, a chained Emit
\* is given up, and any other error ends Dispatch for the rules left.
StatementFails(w) ==
  /\ stack[w] # <<>> /\ Top(w).todo # {}
  /\ \/ /\ Top(w).at = "wallet" \/ (Top(w).at = "effects" /\ EffectsLeft(w))
        /\ Upset("failures")
        /\ stack' = WithTop(w, SkipEffects(Top(w)))
        /\ rowLock' = IF Top(w).at = "wallet" THEN Unlocked(w) ELSE rowLock
     \/ Top(w).at = "chain" /\ Upset("failures") /\ stack' = WithTop(w, NextEffect(Top(w))) /\ UNCHANGED rowLock
     \/ /\ Top(w).at \in {"gate", "condition"} \/ (Top(w).at = "effects" /\ ~EffectsLeft(w))
        /\ Upset("losses")
        /\ stack' = [stack EXCEPT ![w] = Front(@)]
        /\ UNCHANGED rowLock
  /\ UNCHANGED <<clock, events, firings, ledger, balance, awards, revoked>>

\* The server dies with every call under way; open transactions roll back.
ServerDies ==
  /\ Upset("losses")
  /\ stack' = [w \in Workers |-> <<>>]
  /\ rowLock' = <<>>
  /\ UNCHANGED <<clock, events, firings, ledger, balance, awards, revoked>>

ClockTicks ==
  /\ clock < MaxClock
  /\ clock' = clock + 1
  /\ UNCHANGED <<events, firings, ledger, balance, rowLock, awards, stack, revoked, done>>

\* AwardToUser, Revoke: by hand, without badge.earned.
AwardToUser(b) ==
  /\ Upset("byHand")
  /\ awards' = awards \cup {b}
  /\ UNCHANGED <<clock, events, firings, ledger, balance, rowLock, stack, revoked>>

Revoke(b) ==
  /\ Upset("byHand")
  /\ b \in awards
  /\ awards' = awards \ {b}
  /\ revoked' = [revoked EXCEPT ![b] = @ + 1]
  /\ UNCHANGED <<clock, events, firings, ledger, balance, rowLock, stack>>

WorkerStep(w) ==
  \/ CheckCooldown(w) \/ Evaluate(w) \/ LockBalance(w) \/ NoAward(w) \/ ApplyTransaction(w)
  \/ AwardBadge(w) \/ EmitBadgeEarned(w) \/ Record(w) \/ Return(w)

GamNext ==
  \/ \E w \in Workers : Emit(w) \/ WorkerStep(w) \/ StatementFails(w)
  \/ \E b \in Badges : AwardToUser(b) \/ Revoke(b)
  \/ ServerDies
  \/ ClockTicks

GamSpec == GamInit /\ [][GamNext]_gamVars
\* A callback runs to its end.
GamFairness == \A w \in Workers : WF_gamVars(WorkerStep(w))

-----------------------------------------------------------------------------
(***************************************************************************)
(* The balance of a currency is the sum of its ledger, whatever awards     *)
(* overlap, and there is a balance row exactly when something was awarded: *)
(* ApplyTransaction reads the balance and writes it back.                  *)
(***************************************************************************)
SumOf(rows) == MapThenSumSet(LAMBDA t : t.delta, rows)
BalanceIsLedger ==
  \A c \in Currencies :
    LET rows == {t \in ledger : t.code = c}
    IN  /\ c \in DOMAIN balance <=> rows # {}
        /\ Balance(c) = SumOf(rows)

\* The announcements of a badge, and how often it came to be held.
Earned(b) == {i \in DOMAIN events : events[i].on = "earned" /\ events[i].badge = b}
TimesHeld(b) == revoked[b] + (IF b \in awards THEN 1 ELSE 0)

(***************************************************************************)
(* badge.earned is emitted at most once for each time a badge came to be   *)
(* held, also when two emits award the badge at once or an administrator   *)
(* does. It is what ends the recursion of EmitBadgeEarned: the chain of    *)
(* calls under way is never longer than the awards that fed it.            *)
(***************************************************************************)
ChainPerAward == \A b \in Badges : Cardinality(Earned(b)) <= TimesHeld(b)

(***************************************************************************)
(* The gates of a rule hold between emits that do not overlap: an emit     *)
(* that began after a firing of the rule was recorded does not fire it     *)
(* again before its cooldown is over, nor when its window already held     *)
(* max_per_window firings as the emit began. (Overlapping emits, and the   *)
(* badge.earned emits inside an effect of the rule, do.)                   *)
(***************************************************************************)
CooldownKept ==
  \A i, j \in DOMAIN firings :
    firings[i].rule = firings[j].rule /\ i <= firings[j].began
      => firings[j].at - firings[i].at >= Rules[firings[i].rule].cooldown
LimitKept ==
  \A j \in DOMAIN firings :
    LET r == firings[j].rule
        before == {i \in FiringsOf(r) : i <= firings[j].began /\ InWindow(r, i, firings[j].at)}
    IN  Rules[r].limit > 0 => Cardinality(before) < Rules[r].limit
GatesOutsideOverlap == CooldownKept /\ LimitKept

(***************************************************************************)
(* Currency is never awarded behind the gates' back: a ledger row whose    *)
(* rule is not at work any more has its evaluation, also when a later      *)
(* effect of the rule failed, as long as no emit broke off.                *)
(***************************************************************************)
AtWork(e, r) ==
  \E w \in Workers : \E k \in DOMAIN stack[w] :
    stack[w][k].event = e /\ stack[w][k].todo # {} /\ Min(stack[w][k].todo) = r
EveryAwardRecorded ==
  done.losses = 0 =>
    \A t \in ledger :
      \/ AtWork(t.event, t.rule)
      \/ \E i \in DOMAIN firings : firings[i].rule = t.rule /\ firings[i].event = t.event

(***************************************************************************)
(* Every emit returns: no recursion through badge.earned goes on for ever  *)
(* and no wallet lock is left behind that another award waits for.         *)
(***************************************************************************)
EmitReturns == \A w \in Workers : []<>(stack[w] = <<>>)

-----------------------------------------------------------------------------
\* The rewards this implements, each given in one step.
Reward == INSTANCE Rewards WITH
  balance <- [c \in Currencies |-> Balance(c)],
  held <- awards,
  times <- [b \in Badges |-> TimesHeld(b)],
  told <- [b \in Badges |-> Cardinality(Earned(b))]

(***************************************************************************)
(* However emits overlap, fail or die between reading a balance and saving *)
(* it: a ledger row moves its own balance by its own amount in one step,   *)
(* is the only one of its event and rule, and never goes again; and every  *)
(* badge.earned has a badge that came to be held and was not announced.    *)
(***************************************************************************)
ImplementsRewards == Reward!Spec
=============================================================================
