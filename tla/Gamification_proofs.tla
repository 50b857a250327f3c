-------------------------- MODULE Gamification_proofs --------------------------
(***************************************************************************)
(* What the rules engine keeps, for every number of workers, rules,        *)
(* currencies, badges and bounds: the balance is the ledger's sum, a badge *)
(* is announced once per award, the gates hold between emits that do not   *)
(* overlap, no award escapes its evaluation, and all of it implements      *)
(* rewards given in one step.                                              *)
(***************************************************************************)
EXTENDS Gamification, Integers, TLAPS, FiniteSetTheorems, WellFoundedInduction

-----------------------------------------------------------------------------
(***************************************************************************)
(* The invariant. A frame is a call of Emit under way: stack[w][k].        *)
(***************************************************************************)
EffectOf(f) == Rules[Min(f.todo)].effects[f.effect]

\* A call emitted one of the events, and began before now.
Placed(f) == f.event \in DOMAIN events /\ f.began <= Len(firings)

\* Inside an effect there is a rule with that effect.
Inside(f) ==
  f.at \in {"wallet", "chain"} =>
    /\ f.todo # {}
    /\ f.effect <= Len(Rules[Min(f.todo)].effects)
    /\ EffectOf(f).kind = IF f.at = "wallet" THEN "AwardCurrency" ELSE "AwardBadge"

\* In ApplyTransaction, what was read is what is there: the row is locked, or
\* there was none.
Reads(w, f) ==
  f.at = "wallet" =>
    IF f.exists
    THEN /\ EffectOf(f).code \in DOMAIN balance \cap DOMAIN rowLock
         /\ rowLock[EffectOf(f).code] = w
         /\ f.read = balance[EffectOf(f).code]
    ELSE f.read = 0

\* Past the gates of a rule, they still hold for the firings there were when
\* the call began.
Before(r, n, t) == {i \in FiringsOf(r) : i <= n /\ InWindow(r, i, t)}
Gated(f) ==
  f.todo # {} /\ f.at # "gate" =>
    LET r == Min(f.todo)
    IN  /\ \A i \in FiringsOf(r) : i <= f.began => clock - firings[i].at >= Rules[r].cooldown
        /\ Rules[r].limit > 0 => Cardinality(Before(r, f.began, clock)) < Rules[r].limit

\* Of the rules a call has to do, only the one at work can have awarded.
Fresh(f) ==
  \A t \in ledger :
    t.event = f.event /\ t.rule \in f.todo
      => t.rule = Min(f.todo) /\ f.at \in {"effects", "wallet", "chain"}

FrameOK(w, f) == Placed(f) /\ Inside(f) /\ Reads(w, f) /\ Gated(f) /\ Fresh(f)
Frames == \A w \in Workers : \A k \in DOMAIN stack[w] : FrameOK(w, stack[w][k])

\* A call that waits for one within is between two effects.
Waiting ==
  \A w \in Workers : \A k \in DOMAIN stack[w] : k < Len(stack[w]) => stack[w][k].at = "effects"

\* Each call has an event of its own.
OwnEvents ==
  \A v, w \in Workers : \A j \in DOMAIN stack[v], k \in DOMAIN stack[w] :
    stack[v][j].event = stack[w][k].event => v = w /\ j = k

\* A badge is announced, or about to be, at most once for each time it came
\* to be held.
Announces(w, b) == \E k \in DOMAIN stack[w] : stack[w][k].at = "chain" /\ EffectOf(stack[w][k]).code = b
Announcing(b) == {w \in Workers : Announces(w, b)}
AnnouncedOnce == \A b \in Badges : Cardinality(Earned(b)) + Cardinality(Announcing(b)) <= TimesHeld(b)

\* Firings are recorded in the order of time, after the calls that record
\* them began.
History == \A i \in DOMAIN firings : firings[i].at <= clock /\ firings[i].began < i

LedgerFinite == IsFiniteSet(ledger)

GamInv ==
  /\ GamTypeOK /\ Frames /\ Waiting /\ OwnEvents /\ AnnouncedOnce /\ History
  /\ LedgerFinite /\ BalanceIsLedger /\ GatesOutsideOverlap /\ EveryAwardRecorded

-----------------------------------------------------------------------------
(***************************************************************************)
(* Rules, effects and the calls under way.                                 *)
(***************************************************************************)
LEMMA Smallest ==
  ASSUME NEW T \in SUBSET Nat, T # {}
  PROVE  \E n \in T : \A m \in T : n <= m
<1>1. PICK n \in T : \A m \in T : ~(<<m, n>> \in OpToRel(<, Nat))
  BY NatLessThanWellFounded, WFMin
<1>2. \A m \in T : ~(m < n)
  BY <1>1 DEF OpToRel
<1> QED
  BY <1>2

LEMMA FirstRule ==
  ASSUME NEW S \in SUBSET RuleIds, S # {}
  PROVE  /\ Min(S) \in S
         /\ Rules[Min(S)] \in Rule
<1>1. S \in SUBSET Nat /\ \A r \in RuleIds : Rules[r] \in Rule
  BY RulesAssumption DEF RuleIds
<1>2. \E n \in S : \A m \in S : n <= m
  BY <1>1, Smallest
<1>3. Min(S) \in S
  BY <1>2 DEF Min
<1> QED
  BY <1>1, <1>3

LEMMA EffectTyped ==
  ASSUME NEW f \in Frame, f.todo # {}, f.effect <= Len(Rules[Min(f.todo)].effects)
  PROVE  /\ EffectOf(f).kind = "AwardCurrency" => EffectOf(f).code \in Currencies /\ EffectOf(f).delta \in Nat \ {0}
         /\ EffectOf(f).kind = "AwardBadge" => EffectOf(f).code \in Badges
         /\ EffectOf(f).kind \in {"AwardCurrency", "AwardBadge"}
<1>1. f.todo \in SUBSET RuleIds /\ f.effect \in Nat \ {0}
  BY DEF Frame
<1>2. Rules[Min(f.todo)].effects \in Seq(Effect)
  BY <1>1, FirstRule DEF Rule
<1>3. f.effect \in DOMAIN Rules[Min(f.todo)].effects
  BY <1>1, <1>2
<1>4. EffectOf(f) \in Effect
  BY <1>2, <1>3 DEF EffectOf
<1> QED
  BY <1>4 DEF Effect

\* What becomes of a call that goes on with the next rule, with the next
\* effect or past the effects left.
LEMMA FrameMoves ==
  ASSUME NEW f \in Frame, f.todo # {}
  PROVE  /\ NextRule(f) \in Frame
         /\ NextRule(f).event = f.event /\ NextRule(f).began = f.began
         /\ NextRule(f).todo = f.todo \ {Min(f.todo)} /\ NextRule(f).at = "gate"
         /\ NextEffect(f) \in Frame /\ SkipEffects(f) \in Frame
         /\ \A g \in {NextEffect(f), SkipEffects(f)} :
              g.event = f.event /\ g.began = f.began /\ g.todo = f.todo /\ g.at = "effects"
<1>1. Rules[Min(f.todo)].effects \in Seq(Effect)
  BY FirstRule DEF Frame, Rule
<1>2. 1 \in Nat \ {0} /\ 0 \in Nat
  OBVIOUS
<1>3. /\ NextRule(f) \in Frame
      /\ NextRule(f).event = f.event /\ NextRule(f).began = f.began
      /\ NextRule(f).todo = f.todo \ {Min(f.todo)} /\ NextRule(f).at = "gate"
  <2> DEFINE rest == f.todo \ {Min(f.todo)}
             g == [f EXCEPT !.todo = rest, !.at = "gate", !.effect = 1]
  <2>1. NextRule(f) = g
    BY DEF NextRule
  <2>2. rest \in SUBSET RuleIds
    BY DEF Frame
  <2> HIDE DEF rest
  <2>3. g \in Frame
    BY <1>2, <2>2, Zenon DEF Frame
  <2>4. g.event = f.event /\ g.began = f.began /\ g.todo = rest /\ g.at = "gate"
    BY DEF Frame
  <2> QED
    BY <2>1, <2>3, <2>4 DEF rest
<1>4. /\ NextEffect(f) \in Frame
      /\ NextEffect(f).event = f.event /\ NextEffect(f).began = f.began
      /\ NextEffect(f).todo = f.todo /\ NextEffect(f).at = "effects"
  <2> DEFINE n == f.effect + 1
             g == [f EXCEPT !.at = "effects", !.effect = n, !.exists = FALSE, !.read = 0]
  <2>1. NextEffect(f) = g
    BY DEF NextEffect
  <2>2. n \in Nat \ {0}
    BY DEF Frame
  <2> HIDE DEF n
  <2>3. g \in Frame
    BY <1>2, <2>2, Zenon DEF Frame
  <2>4. g.event = f.event /\ g.began = f.began /\ g.todo = f.todo /\ g.at = "effects"
    BY DEF Frame
  <2> QED
    BY <2>1, <2>3, <2>4
<1>5. /\ SkipEffects(f) \in Frame
      /\ SkipEffects(f).event = f.event /\ SkipEffects(f).began = f.began
      /\ SkipEffects(f).todo = f.todo /\ SkipEffects(f).at = "effects"
  <2> DEFINE n == Len(Rules[Min(f.todo)].effects) + 1
             g == [f EXCEPT !.at = "effects", !.effect = n, !.exists = FALSE, !.read = 0]
  <2>1. SkipEffects(f) = g
    BY DEF SkipEffects
  <2>2. n \in Nat \ {0}
    BY <1>1
  <2> HIDE DEF n
  <2>3. g \in Frame
    BY <1>2, <2>2, Zenon DEF Frame
  <2>4. g.event = f.event /\ g.began = f.began /\ g.todo = f.todo /\ g.at = "effects"
    BY DEF Frame
  <2> QED
    BY <2>1, <2>3, <2>4
<1> QED
  BY <1>3, <1>4, <1>5

LEMMA TopIsFrame ==
  ASSUME GamTypeOK, NEW w \in Workers, stack[w] # <<>>
  PROVE  /\ Len(stack[w]) \in DOMAIN stack[w] /\ Len(stack[w]) \in Nat
         /\ DOMAIN stack[w] = 1 .. Len(stack[w])
         /\ Top(w) \in Frame /\ Top(w) = stack[w][Len(stack[w])]
BY DEF GamTypeOK, Top

\* The top call of a worker becomes f; nothing else moves.
LEMMA TopReplaced ==
  ASSUME GamTypeOK, NEW w \in Workers, stack[w] # <<>>, NEW f \in Frame
  PROVE  /\ WithTop(w, f) \in [Workers -> Seq(Frame)]
         /\ \A v \in Workers : Len(WithTop(w, f)[v]) = Len(stack[v])
         /\ \A v \in Workers : DOMAIN WithTop(w, f)[v] = DOMAIN stack[v]
         /\ \A v \in Workers : \A k \in DOMAIN stack[v] :
              WithTop(w, f)[v][k] = IF v = w /\ k = Len(stack[w]) THEN f ELSE stack[v][k]
<1> DEFINE s == [stack[w] EXCEPT ![Len(stack[w])] = f]
<1>1. WithTop(w, f) = [stack EXCEPT ![w] = s]
  BY DEF WithTop
<1>2. stack \in [Workers -> Seq(Frame)]
  BY DEF GamTypeOK
<1>3. s \in Seq(Frame) /\ Len(s) = Len(stack[w]) /\ DOMAIN s = DOMAIN stack[w]
  BY <1>2
<1>4. \A k \in DOMAIN stack[w] : s[k] = IF k = Len(stack[w]) THEN f ELSE stack[w][k]
  BY <1>2
<1> HIDE DEF s
<1>5. \A v \in Workers : WithTop(w, f)[v] = IF v = w THEN s ELSE stack[v]
  BY <1>1, <1>2
<1> QED
  BY <1>1, <1>2, <1>3, <1>4, <1>5

\* The top call of a worker returns.
Popped(w) == [stack EXCEPT ![w] = Front(@)]
LEMMA TopPopped ==
  ASSUME GamTypeOK, NEW w \in Workers, stack[w] # <<>>
  PROVE  /\ Popped(w) \in [Workers -> Seq(Frame)]
         /\ \A v \in Workers : Len(Popped(w)[v]) = IF v = w THEN Len(stack[v]) - 1 ELSE Len(stack[v])
         /\ \A v \in Workers : \A k \in DOMAIN Popped(w)[v] :
              k \in DOMAIN stack[v] /\ Popped(w)[v][k] = stack[v][k]
         /\ \A v \in Workers : \A k \in DOMAIN stack[v] :
              k \in DOMAIN Popped(w)[v] \/ (v = w /\ k = Len(stack[w]))
<1> DEFINE s == Front(stack[w])
           n == Len(stack[w])
<1>1. stack \in [Workers -> Seq(Frame)]
  BY DEF GamTypeOK
<1>2. stack[w] \in Seq(Frame) /\ n \in Nat /\ n >= 1 /\ DOMAIN stack[w] = 1 .. n
  BY <1>1
<1>3. s = [k \in 1 .. n - 1 |-> stack[w][k]]
  BY <1>2 DEF Front
<1>4. s \in Seq(Frame) /\ Len(s) = n - 1 /\ DOMAIN s = 1 .. n - 1
  BY <1>2, <1>3
<1>5. \A k \in 1 .. n - 1 : s[k] = stack[w][k]
  BY <1>3
<1> HIDE DEF s, n
<1>6. \A v \in Workers : Popped(w)[v] = IF v = w THEN s ELSE stack[v]
  BY <1>1 DEF Popped, s
<1>7. Popped(w) \in [Workers -> Seq(Frame)]
  BY <1>1, <1>4 DEF Popped, s
<1>8. \A v \in Workers : Len(Popped(w)[v]) = IF v = w THEN Len(stack[v]) - 1 ELSE Len(stack[v])
  BY <1>4, <1>6 DEF n
<1>9. ASSUME NEW v \in Workers, NEW k \in DOMAIN Popped(w)[v]
      PROVE  k \in DOMAIN stack[v] /\ Popped(w)[v][k] = stack[v][k]
  BY <1>2, <1>4, <1>5, <1>6
<1>10. ASSUME NEW v \in Workers, NEW k \in DOMAIN stack[v]
       PROVE  k \in DOMAIN Popped(w)[v] \/ (v = w /\ k = n)
  BY <1>2, <1>4, <1>6
<1> QED
  BY <1>7, <1>8, <1>9, <1>10 DEF n

\* A new call of Emit begins, on top of what the worker does.
LEMMA CallPushed ==
  ASSUME NEW st \in [Workers -> Seq(Frame)], NEW w \in Workers, NEW f \in Frame
  PROVE  LET st2 == [st EXCEPT ![w] = Append(@, f)]
         IN  /\ st2 \in [Workers -> Seq(Frame)]
             /\ \A v \in Workers : Len(st2[v]) = IF v = w THEN Len(st[v]) + 1 ELSE Len(st[v])
             /\ \A v \in Workers : \A k \in DOMAIN st2[v] :
                  \/ k \in DOMAIN st[v] /\ st2[v][k] = st[v][k]
                  \/ v = w /\ k = Len(st[w]) + 1 /\ st2[v][k] = f
             /\ \A v \in Workers : DOMAIN st[v] \subseteq DOMAIN st2[v]
<1> DEFINE s == Append(st[w], f)
           st2 == [st EXCEPT ![w] = s]
<1>1. /\ s \in Seq(Frame) /\ Len(s) = Len(st[w]) + 1 /\ DOMAIN s = 1 .. Len(st[w]) + 1
      /\ \A k \in 1 .. Len(st[w]) : s[k] = st[w][k]
      /\ s[Len(st[w]) + 1] = f
  OBVIOUS
<1>2. DOMAIN st[w] = 1 .. Len(st[w]) /\ Len(st[w]) \in Nat
  OBVIOUS
<1> HIDE DEF s
<1>3. st2 \in [Workers -> Seq(Frame)] /\ \A v \in Workers : st2[v] = IF v = w THEN s ELSE st[v]
  BY <1>1
<1> HIDE DEF st2
<1>4. /\ st2 \in [Workers -> Seq(Frame)]
      /\ \A v \in Workers : Len(st2[v]) = IF v = w THEN Len(st[v]) + 1 ELSE Len(st[v])
  BY <1>1, <1>3
<1>5. \A v \in Workers : \A k \in DOMAIN st2[v] :
                  \/ k \in DOMAIN st[v] /\ st2[v][k] = st[v][k]
                  \/ v = w /\ k = Len(st[w]) + 1 /\ st2[v][k] = f
  BY <1>1, <1>2, <1>3
<1>6. \A v \in Workers : DOMAIN st[v] \subseteq DOMAIN st2[v]
  BY <1>1, <1>2, <1>3
<1> QED
  BY <1>4, <1>5, <1>6 DEF st2, s

-----------------------------------------------------------------------------
(***************************************************************************)
(* Sums over sets: SumOf takes the rows as CHOOSE gives them, and any      *)
(* other order would do.                                                   *)
(***************************************************************************)
Some(s) == CHOOSE x \in s : TRUE
Summing(g, S) == \A s \in SUBSET S : g[s] = IF s = {} THEN 0 ELSE Some(s).delta + g[s \ {Some(s)}]

\* For the sets up to a size, some function adds them up.
LEMMA SummingExists ==
  ASSUME NEW S, IsFiniteSet(S)
  PROVE  \E g : g = [s \in SUBSET S |-> IF s = {} THEN 0 ELSE Some(s).delta + g[s \ {Some(s)}]]
<1> DEFINE Next(g, s) == IF s = {} THEN 0 ELSE Some(s).delta + g[s \ {Some(s)}]
           Upto(n) == \E g : /\ g = [s \in SUBSET S |-> g[s]]
                             /\ \A s \in SUBSET S : Cardinality(s) <= n => g[s] = Next(g, s)
           Bad == {n \in Nat : ~Upto(n)}
<1>1. \A s \in SUBSET S : IsFiniteSet(s) /\ Cardinality(s) \in Nat
  BY FS_Subset, FS_CardinalityType
<1>2. ASSUME NEW s \in SUBSET S, s # {}
      PROVE  /\ Some(s) \in s
             /\ s \ {Some(s)} \in SUBSET S
             /\ Cardinality(s \ {Some(s)}) = Cardinality(s) - 1
  <2>1. Some(s) \in s
    BY <1>2 DEF Some
  <2> QED
    BY <1>1, <2>1, FS_RemoveElement
<1>3. \A s \in SUBSET S : Cardinality(s) = 0 <=> s = {}
  BY <1>1, FS_EmptySet
<1>4. Upto(0)
  <2> DEFINE g == [s \in SUBSET S |-> 0]
  <2>1. g = [s \in SUBSET S |-> g[s]]
    OBVIOUS
  <2>2. \A s \in SUBSET S : Cardinality(s) <= 0 => g[s] = Next(g, s)
    BY <1>1, <1>3
  <2> HIDE DEF g
  <2> QED
    BY <2>1, <2>2
<1>5. ASSUME NEW n \in Nat, Upto(n) PROVE Upto(n + 1)
  <2>1. PICK f : /\ f = [s \in SUBSET S |-> f[s]]
                 /\ \A s \in SUBSET S : Cardinality(s) <= n => f[s] = Next(f, s)
    BY <1>5
  <2> DEFINE g == [s \in SUBSET S |-> Next(f, s)]
  <2>2. g = [s \in SUBSET S |-> g[s]]
    OBVIOUS
  <2>3. ASSUME NEW s \in SUBSET S, Cardinality(s) <= n + 1
        PROVE  g[s] = Next(g, s)
    <3>1. CASE s = {}
      BY <3>1
    <3>2. CASE s # {}
      <4> DEFINE r == s \ {Some(s)}
      <4>1. r \in SUBSET S /\ Cardinality(r) <= n
        BY <1>1, <1>2, <2>3, <3>2
      <4>2. g[r] = Next(f, r) /\ f[r] = Next(f, r)
        BY <2>1, <4>1
      <4>3. g[s] = Some(s).delta + f[r]
        BY <3>2
      <4>4. Next(g, s) = Some(s).delta + g[r]
        BY <3>2
      <4> QED
        BY <4>2, <4>3, <4>4
    <3> QED
      BY <3>1, <3>2
  <2> HIDE DEF g, Next
  <2> QED
    BY <2>2, <2>3
<1>6. Bad = {}
  <2>1. SUFFICES ASSUME Bad # {} PROVE FALSE
    OBVIOUS
  <2>2. PICK n \in Bad : \A m \in Bad : n <= m
    <3>1. Bad \in SUBSET Nat
      OBVIOUS
    <3> HIDE DEF Bad
    <3> QED
      BY <2>1, <3>1, Smallest
  <2> HIDE DEF Upto
  <2>3. n \in Nat /\ n # 0 /\ ~Upto(n)
    BY <1>4, <2>2
  <2>4. n - 1 \in Nat /\ ~(n <= n - 1)
    BY <2>3
  <2>5. n - 1 \notin Bad
    <3> HIDE DEF Bad
    <3> QED
      BY <2>2, <2>4
  <2>6. Upto(n - 1)
    BY <2>4, <2>5
  <2>7. Upto((n - 1) + 1)
    BY <1>5, <2>4, <2>6
  <2> QED
    BY <2>3, <2>7
<1>7. Cardinality(S) \in Nat /\ \A s \in SUBSET S : Cardinality(s) <= Cardinality(S)
  BY FS_Subset, FS_CardinalityType
<1>8. Upto(Cardinality(S))
  <2> HIDE DEF Upto
  <2> QED
    BY <1>6, <1>7
<1>9. PICK g : /\ g = [s \in SUBSET S |-> g[s]]
               /\ \A s \in SUBSET S : g[s] = Next(g, s)
  BY <1>7, <1>8
<1>10. g = [s \in SUBSET S |-> Next(g, s)]
  <2> HIDE DEF Next
  <2> QED
    BY <1>9
<1> QED
  BY <1>10

\* The sum over a set, unfolded once.
LEMMA SumUnfold ==
  ASSUME NEW S, IsFiniteSet(S)
  PROVE  \E g : SumOf(S) = g[S] /\ Summing(g, S)
<1> DEFINE F(g) == [s \in SUBSET S |-> IF s = {} THEN 0 ELSE Some(s).delta + g[s \ {Some(s)}]]
           sum == CHOOSE g : g = F(g)
<1>1. SumOf(S) = sum[S]
  BY DEF SumOf, MapThenSumSet, MapThenFoldSet, Some
<1>2. \E g : g = F(g)
  BY SummingExists
<1>3. sum = F(sum)
  <2> HIDE DEF F
  <2> QED
    BY <1>2
<1>4. \A s \in SUBSET S : F(sum)[s] = IF s = {} THEN 0 ELSE Some(s).delta + sum[s \ {Some(s)}]
  OBVIOUS
<1>5. Summing(sum, S)
  <2> HIDE DEF sum, F
  <2> QED
    BY <1>3, <1>4 DEF Summing
<1> QED
  BY <1>1, <1>5

\* Among some of the subsets of a finite set there is a smallest one.
LEMMA SmallestSubset ==
  ASSUME NEW S, IsFiniteSet(S), NEW B \in SUBSET SUBSET S, B # {}
  PROVE  \E s \in B : \A x \in s : s \ {x} \notin B
<1> DEFINE Sizes == {Cardinality(s) : s \in B}
<1>1. \A s \in SUBSET S : IsFiniteSet(s) /\ Cardinality(s) \in Nat
  BY FS_Subset, FS_CardinalityType
<1>2. Sizes \in SUBSET Nat /\ Sizes # {}
  BY <1>1
<1>3. PICK n \in Sizes : \A m \in Sizes : n <= m
  <2> HIDE DEF Sizes
  <2> QED
    BY <1>2, Smallest
<1>4. PICK s \in B : n = Cardinality(s)
  BY <1>3
<1>5. ASSUME NEW x \in s, s \ {x} \in B PROVE FALSE
  <2>1. Cardinality(s \ {x}) = Cardinality(s) - 1 /\ Cardinality(s) \in Nat
    BY <1>1, FS_RemoveElement
  <2>2. n <= Cardinality(s \ {x})
    BY <1>3, <1>5
  <2> QED
    BY <1>4, <2>1, <2>2
<1> QED
  BY <1>4, <1>5

Deltas(S) == \A t \in S : t.delta \in Nat

LEMMA SumsAreNumbers ==
  ASSUME NEW S, IsFiniteSet(S), Deltas(S), NEW g, Summing(g, S)
  PROVE  \A s \in SUBSET S : g[s] \in Nat
<1> DEFINE B == {s \in SUBSET S : g[s] \notin Nat}
<1>1. SUFFICES ASSUME B # {} PROVE FALSE
  OBVIOUS
<1>2. PICK s \in B : \A x \in s : s \ {x} \notin B
  <2>1. B \in SUBSET SUBSET S
    OBVIOUS
  <2> HIDE DEF B
  <2> QED
    BY <1>1, <2>1, SmallestSubset
<1>3. s # {}
  <2>1. s \in SUBSET S /\ g[s] \notin Nat
    OBVIOUS
  <2>2. {} \in SUBSET S /\ g[{}] = 0
    BY DEF Summing
  <2> QED
    BY <2>1, <2>2
<1> DEFINE x == Some(s)
<1>4. x \in s /\ x \in S /\ x.delta \in Nat
  BY <1>3 DEF Some, Deltas
<1>5. g[s] = x.delta + g[s \ {x}]
  BY <1>3 DEF Summing
<1>6. g[s \ {x}] \in Nat
  BY <1>2, <1>4
<1> HIDE DEF x
<1> QED
  BY <1>4, <1>5, <1>6

\* Whichever element is taken first.
LEMMA AnyOrder ==
  ASSUME NEW S, IsFiniteSet(S), Deltas(S), NEW g, Summing(g, S)
  PROVE  \A s \in SUBSET S : \A x \in s : g[s] = x.delta + g[s \ {x}]
<1> DEFINE Fine(s) == \A x \in s : g[s] = x.delta + g[s \ {x}]
           B == {s \in SUBSET S : ~Fine(s)}
<1>1. SUFFICES ASSUME B # {} PROVE FALSE
  OBVIOUS
<1>2. PICK s \in B : \A x \in s : s \ {x} \notin B
  <2>1. B \in SUBSET SUBSET S
    OBVIOUS
  <2> HIDE DEF B
  <2> QED
    BY <1>1, <2>1, SmallestSubset
<1>3. PICK x \in s : g[s] # x.delta + g[s \ {x}]
  BY <1>2
<1> DEFINE y == Some(s)
           rest == (s \ {x}) \ {y}
<1>4. y \in s
  BY <1>3 DEF Some
<1>5. g[s] = y.delta + g[s \ {y}]
  BY <1>3 DEF Summing
<1>6. x # y
  BY <1>3, <1>5
<1>7. Fine(s \ {x}) /\ Fine(s \ {y})
  BY <1>2, <1>3, <1>4
<1>8. y \in s \ {x} /\ x \in s \ {y} /\ (s \ {y}) \ {x} = rest
  BY <1>3, <1>4, <1>6
<1>9. g[s \ {x}] = y.delta + g[rest]
  BY <1>7, <1>8
<1>10. g[s \ {y}] = x.delta + g[rest]
  BY <1>7, <1>8
<1>11. rest \in SUBSET S /\ x \in S /\ y \in S
  BY <1>3, <1>4
<1>12. g[rest] \in Nat /\ x.delta \in Nat /\ y.delta \in Nat
  BY <1>11, SumsAreNumbers DEF Deltas
<1> HIDE DEF y, rest
<1> QED
  BY <1>3, <1>5, <1>9, <1>10, <1>12

\* Sums within one set or within another are the same.
LEMMA SumsAgree ==
  ASSUME NEW S, IsFiniteSet(S), NEW g, Summing(g, S), NEW h, NEW T, S \subseteq T, Summing(h, T)
  PROVE  g[S] = h[S]
<1> DEFINE B == {s \in SUBSET S : g[s] # h[s]}
<1>1. SUFFICES ASSUME B # {} PROVE FALSE
  OBVIOUS
<1>2. PICK s \in B : \A x \in s : s \ {x} \notin B
  <2>1. B \in SUBSET SUBSET S
    OBVIOUS
  <2> HIDE DEF B
  <2> QED
    BY <1>1, <2>1, SmallestSubset
<1>3. s \in SUBSET S /\ s \in SUBSET T /\ g[s] # h[s]
  OBVIOUS
<1>4. s # {}
  BY <1>3 DEF Summing
<1>5. Some(s) \in s
  BY <1>4 DEF Some
<1>6. g[s \ {Some(s)}] = h[s \ {Some(s)}]
  BY <1>2, <1>5
<1> QED
  BY <1>3, <1>4, <1>6 DEF Summing

LEMMA SumOfNone == SumOf({}) = 0
<1>1. IsFiniteSet({})
  BY FS_EmptySet
<1>2. PICK g : SumOf({}) = g[{}] /\ Summing(g, {})
  BY <1>1, SumUnfold
<1> QED
  BY <1>2 DEF Summing

LEMMA SumWithOneMore ==
  ASSUME NEW S, IsFiniteSet(S), Deltas(S), NEW t, t \notin S, t.delta \in Nat
  PROVE  SumOf(S \cup {t}) = SumOf(S) + t.delta /\ SumOf(S) \in Nat
<1> DEFINE T == S \cup {t}
<1>1. IsFiniteSet(T) /\ Deltas(T)
  BY FS_AddElement DEF Deltas
<1>2. PICK h : SumOf(T) = h[T] /\ Summing(h, T)
  BY <1>1, SumUnfold
<1>3. PICK g : SumOf(S) = g[S] /\ Summing(g, S)
  BY SumUnfold
<1>4. T \ {t} = S /\ S \subseteq T
  OBVIOUS
<1>5. h[T] = t.delta + h[S]
  BY <1>1, <1>2, <1>4, AnyOrder
<1>6. g[S] = h[S]
  BY <1>2, <1>3, <1>4, SumsAgree
<1>7. g[S] \in Nat
  BY <1>3, SumsAreNumbers
<1> QED
  BY <1>2, <1>3, <1>5, <1>6, <1>7

-----------------------------------------------------------------------------
(***************************************************************************)
(* What a step on one worker's top call leaves of the invariant.           *)
(***************************************************************************)
LEMMA TopFits ==
  ASSUME GamTypeOK, Frames, NEW w \in Workers, stack[w] # <<>>
  PROVE  FrameOK(w, Top(w))
BY TopIsFrame DEF Frames

\* The frames other than the top of w, in terms of their events.
LEMMA OthersApart ==
  ASSUME GamTypeOK, Waiting, OwnEvents, NEW w \in Workers, stack[w] # <<>>,
         NEW v \in Workers, NEW k \in DOMAIN stack[v], ~(v = w /\ k = Len(stack[w]))
  PROVE  /\ stack[v][k] \in Frame
         /\ stack[v][k].event # Top(w).event
         /\ v = w => stack[v][k].at = "effects"
<1>1. stack[v] \in Seq(Frame) /\ stack[w] \in Seq(Frame)
  BY DEF GamTypeOK
<1>2. Len(stack[w]) \in DOMAIN stack[w] /\ Top(w) = stack[w][Len(stack[w])]
  BY TopIsFrame
<1>3. stack[v][k] \in Frame
  BY <1>1
<1>4. stack[v][k].event # Top(w).event
  BY <1>2 DEF OwnEvents
<1>5. v = w => k < Len(stack[w])
  BY <1>1
<1> QED
  BY <1>3, <1>4, <1>5 DEF Waiting

\* The top call of w becomes f, of the same event.
LEMMA ReplacedFrames ==
  ASSUME GamTypeOK, Frames, Waiting, OwnEvents,
         NEW w \in Workers, stack[w] # <<>>, NEW f \in Frame, f.event = Top(w).event,
         NEW st, st = WithTop(w, f), stack' = st,
         \A v \in Workers : \A g \in Frame :
           g.event # Top(w).event /\ (v = w => g.at = "effects") /\ FrameOK(v, g) => FrameOK(v, g)',
         FrameOK(w, f)'
  PROVE  Frames' /\ Waiting' /\ OwnEvents'
<1> DEFINE Same(v, k) == ~(v = w /\ k = Len(stack[w]))
<1>1. /\ \A v \in Workers : Len(stack'[v]) = Len(stack[v])
      /\ \A v \in Workers : DOMAIN stack'[v] = DOMAIN stack[v]
      /\ \A v \in Workers : \A k \in DOMAIN stack[v] :
           stack'[v][k] = IF Same(v, k) THEN stack[v][k] ELSE f
  BY TopReplaced
<1>2. \A v \in Workers : \A k \in DOMAIN stack[v] : stack'[v][k].event = stack[v][k].event
  BY <1>1, TopIsFrame
<1>3. OwnEvents'
  BY <1>1, <1>2 DEF OwnEvents
<1>4. Waiting'
  BY <1>1, TopIsFrame DEF Waiting
<1>5. ASSUME NEW v \in Workers, NEW k \in DOMAIN stack'[v]
      PROVE  FrameOK(v, stack[v][k])'
  <2> DEFINE g == stack[v][k]
  <2>1. k \in DOMAIN stack[v]
    BY <1>1
  <2>2. CASE Same(v, k)
    <3>1. g \in Frame /\ g.event # Top(w).event /\ (v = w => g.at = "effects")
      BY <2>1, <2>2, OthersApart
    <3>2. FrameOK(v, g)
      BY <2>1 DEF Frames
    <3>3. PICK h \in Frame : h = g
      BY <3>1
    <3>4. FrameOK(v, h)'
      BY <3>1, <3>2, <3>3
    <3> QED
      BY <1>1, <2>1, <2>2, <3>3, <3>4
  <2>3. CASE ~Same(v, k)
    <3>1. stack'[v][k] = f
      BY <1>1, <2>1, <2>3
    <3> QED
      BY <2>3, <3>1
  <2> QED
    BY <2>2, <2>3
<1>6. Frames'
  BY <1>5 DEF Frames
<1> QED
  BY <1>3, <1>4, <1>6

\* The top call of w returns.
LEMMA PoppedFrames ==
  ASSUME GamTypeOK, Frames, Waiting, OwnEvents,
         NEW w \in Workers, stack[w] # <<>>, NEW st, st = Popped(w), stack' = st,
         \A v \in Workers : \A g \in Frame :
           g.event # Top(w).event /\ (v = w => g.at = "effects") /\ FrameOK(v, g) => FrameOK(v, g)'
  PROVE  Frames' /\ Waiting' /\ OwnEvents'
<1>1. /\ \A v \in Workers : Len(stack'[v]) = IF v = w THEN Len(stack[v]) - 1 ELSE Len(stack[v])
      /\ \A v \in Workers : \A k \in DOMAIN stack'[v] :
           k \in DOMAIN stack[v] /\ stack'[v][k] = stack[v][k]
  BY TopPopped
<1>2. stack' \in [Workers -> Seq(Frame)]
  BY TopPopped
<1>3. OwnEvents'
  BY <1>1 DEF OwnEvents
<1>4. Waiting'
  <2>1. SUFFICES ASSUME NEW v \in Workers, NEW k \in DOMAIN stack'[v], k < Len(stack'[v])
                 PROVE  stack'[v][k].at = "effects"
    BY DEF Waiting
  <2>2. Len(stack[v]) \in Nat /\ k \in Int
    BY <1>2 DEF GamTypeOK
  <2>3. k < Len(stack[v])
    BY <1>1, <2>1, <2>2
  <2> QED
    BY <1>1, <2>3 DEF Waiting
<1>5. ASSUME NEW v \in Workers, NEW k \in DOMAIN stack'[v]
      PROVE  FrameOK(v, stack[v][k])'
  <2>1. k \in DOMAIN stack[v] /\ stack'[v][k] = stack[v][k]
    BY <1>1
  <2>2. ~(v = w /\ k = Len(stack[w]))
    <3>1. Len(stack[v]) \in Nat /\ DOMAIN stack'[v] = 1 .. Len(stack'[v])
      BY <1>2 DEF GamTypeOK
    <3> QED
      BY <1>1, <3>1
  <2>3. stack[v][k] \in Frame /\ stack[v][k].event # Top(w).event /\ (v = w => stack[v][k].at = "effects")
    BY <2>1, <2>2, OthersApart
  <2>4. FrameOK(v, stack[v][k])
    BY <2>1 DEF Frames
  <2>5. PICK h \in Frame : h = stack[v][k]
    BY <2>3
  <2>6. FrameOK(v, h)'
    BY <2>3, <2>4, <2>5
  <2> QED
    BY <2>1, <2>5, <2>6
<1>6. Frames'
  BY <1>5 DEF Frames
<1> QED
  BY <1>3, <1>4, <1>6

\* Nothing happens to the calls under way.
LEMMA SameFrames ==
  ASSUME GamTypeOK, Frames, Waiting, OwnEvents, UNCHANGED stack,
         \A v \in Workers : \A g \in Frame : FrameOK(v, g) => FrameOK(v, g)'
  PROVE  Frames' /\ Waiting' /\ OwnEvents'
<1>1. ASSUME NEW v \in Workers, NEW k \in DOMAIN stack'[v]
      PROVE  FrameOK(v, stack[v][k])'
  <2>1. k \in DOMAIN stack[v] /\ stack'[v][k] = stack[v][k] /\ stack[v][k] \in Frame
    BY DEF GamTypeOK
  <2>2. PICK h \in Frame : h = stack[v][k]
    BY <2>1
  <2>3. FrameOK(v, h)'
    BY <2>1, <2>2 DEF Frames
  <2> QED
    BY <2>1, <2>2, <2>3
<1>2. Frames'
  BY <1>1 DEF Frames
<1> QED
  BY <1>2 DEF Waiting, OwnEvents

\* A call of Emit begins, of an event of its own, on top of w's.
LEMMA PushedFrames ==
  ASSUME NEW st \in [Workers -> Seq(Frame)], NEW st2, NEW w \in Workers, NEW f \in Frame,
         st2 = [st EXCEPT ![w] = Append(@, f)], stack' = st2,
         \A v \in Workers : \A k \in DOMAIN st[v] :
            /\ FrameOK(v, st[v][k])'
            /\ k < Len(st[v]) \/ v = w => st[v][k].at = "effects"
            /\ st[v][k].event # f.event,
         \A u, v \in Workers : \A j \in DOMAIN st[u], k \in DOMAIN st[v] :
            st[u][j].event = st[v][k].event => u = v /\ j = k,
         FrameOK(w, f)'
  PROVE  Frames' /\ Waiting' /\ OwnEvents'
<1>1. /\ stack' \in [Workers -> Seq(Frame)]
      /\ \A v \in Workers : Len(stack'[v]) = IF v = w THEN Len(st[v]) + 1 ELSE Len(st[v])
      /\ \A v \in Workers : \A k \in DOMAIN stack'[v] :
           \/ k \in DOMAIN st[v] /\ stack'[v][k] = st[v][k]
           \/ v = w /\ k = Len(st[w]) + 1 /\ stack'[v][k] = f
  BY CallPushed
<1>2. ASSUME NEW v \in Workers, NEW k \in DOMAIN stack'[v]
      PROVE  FrameOK(v, stack[v][k])'
  <2>1. CASE k \in DOMAIN st[v] /\ stack'[v][k] = st[v][k]
    <3>1. FrameOK(v, st[v][k])'
      BY <2>1
    <3> QED
      BY <2>1, <3>1
  <2>2. CASE v = w /\ k = Len(st[w]) + 1 /\ stack'[v][k] = f
    BY <2>2
  <2> QED
    BY <1>1, <2>1, <2>2
<1>3. Frames'
  BY <1>2 DEF Frames
<1>4. Waiting'
  <2>1. SUFFICES ASSUME NEW v \in Workers, NEW k \in DOMAIN stack'[v], k < Len(stack'[v])
                 PROVE  stack'[v][k].at = "effects"
    BY DEF Waiting
  <2>2. Len(st[v]) \in Nat /\ k \in Int
    BY <1>1
  <2>3. ~(v = w /\ k = Len(st[w]) + 1)
    BY <1>1, <2>1, <2>2
  <2> QED
    BY <1>1, <2>1, <2>2, <2>3
<1>5. OwnEvents'
  BY <1>1 DEF OwnEvents
<1> QED
  BY <1>3, <1>4, <1>5

-----------------------------------------------------------------------------
(***************************************************************************)
(* Badges announced.                                                       *)
(***************************************************************************)
LEMMA EarnedTyped ==
  ASSUME GamTypeOK, NEW b \in Badges
  PROVE  /\ IsFiniteSet(Earned(b)) /\ Cardinality(Earned(b)) \in Nat
         /\ IsFiniteSet(Announcing(b)) /\ Cardinality(Announcing(b)) \in Nat
         /\ TimesHeld(b) \in Nat
<1>1. DOMAIN events = 1 .. Len(events) /\ Len(events) \in Nat
  BY DEF GamTypeOK
<1>2. IsFiniteSet(DOMAIN events)
  BY <1>1, FS_Interval
<1>3. IsFiniteSet(Earned(b)) /\ IsFiniteSet(Announcing(b))
  BY <1>2, WorkersAssumption, FS_Subset DEF Earned, Announcing
<1>4. TimesHeld(b) \in Nat
  BY DEF TimesHeld, GamTypeOK
<1> QED
  BY <1>3, <1>4, FS_CardinalityType

\* Nobody comes to announce a badge.
LEMMA NoNewAnnouncement ==
  ASSUME GamTypeOK, GamTypeOK', AnnouncedOnce,
         \A b \in Badges : Earned(b)' \subseteq Earned(b),
         \A b \in Badges : Announcing(b)' \subseteq Announcing(b),
         \A b \in Badges : TimesHeld(b)' >= TimesHeld(b)
  PROVE  AnnouncedOnce'
<1>1. SUFFICES ASSUME NEW b \in Badges
               PROVE  (Cardinality(Earned(b)) + Cardinality(Announcing(b)) <= TimesHeld(b))'
  BY DEF AnnouncedOnce
<1>2. /\ Cardinality(Earned(b)') <= Cardinality(Earned(b))
      /\ Cardinality(Announcing(b)') <= Cardinality(Announcing(b))
  BY EarnedTyped, FS_Subset
<1>3. Cardinality(Earned(b)') \in Nat /\ Cardinality(Announcing(b)') \in Nat /\ TimesHeld(b)' \in Nat
  <2>1. IsFiniteSet(Earned(b)') /\ IsFiniteSet(Announcing(b)')
    BY EarnedTyped, FS_Subset
  <2>2. TimesHeld(b)' \in Nat
    BY DEF GamTypeOK, TimesHeld
  <2> QED
    BY <2>1, <2>2, FS_CardinalityType
<1>4. Cardinality(Earned(b)) + Cardinality(Announcing(b)) <= TimesHeld(b)
  BY DEF AnnouncedOnce
<1> QED
  BY <1>2, <1>3, <1>4, EarnedTyped

\* The top call of w goes on, returns or is left, other than to announce.
LEMMA NoAnnouncer ==
  ASSUME GamTypeOK, NEW w \in Workers, stack[w] # <<>>, NEW st, stack' = st, NEW b \in Badges,
         \/ \E f \in Frame : f.at # "chain" /\ st = WithTop(w, f)
         \/ st = Popped(w)
  PROVE  Announcing(b)' \subseteq Announcing(b)
<1>1. SUFFICES ASSUME NEW v \in Workers, Announces(v, b)' PROVE Announces(v, b)
  BY DEF Announcing
<1>2. PICK k \in DOMAIN stack'[v] : stack'[v][k].at = "chain" /\ EffectOf(stack'[v][k]).code = b
  BY <1>1 DEF Announces, EffectOf
<1>3. CASE \E f \in Frame : f.at # "chain" /\ st = WithTop(w, f)
  <2>1. PICK f \in Frame : f.at # "chain" /\ st = WithTop(w, f)
    BY <1>3
  <2>2. k \in DOMAIN stack[v] /\ stack'[v][k] = stack[v][k]
    BY <1>2, <2>1, TopReplaced
  <2> QED
    BY <1>2, <2>2 DEF Announces
<1>4. CASE st = Popped(w)
  <2>1. k \in DOMAIN stack[v] /\ stack'[v][k] = stack[v][k]
    BY <1>2, <1>4, TopPopped
  <2> QED
    BY <1>2, <2>1 DEF Announces
<1> QED
  BY <1>3, <1>4

-----------------------------------------------------------------------------
(***************************************************************************)
(* What steps that leave the tables alone keep.                            *)
(***************************************************************************)
DoneTyped == done \in [activities : 0 .. MaxActivities, byHand : 0 .. MaxUpsets,
                       failures : 0 .. MaxUpsets, losses : 0 .. MaxUpsets]

LEMMA UpsetTyped ==
  ASSUME GamTypeOK, NEW kind \in {"byHand", "failures", "losses"}, Upset(kind)
  PROVE  DoneTyped' /\ done'.losses = IF kind = "losses" THEN done.losses + 1 ELSE done.losses
<1>1. MaxUpsets \in Nat /\ done.byHand + done.failures + done.losses < MaxUpsets
  BY BoundsAssumption DEF Upset
<1>2. done' = [done EXCEPT ![kind] = done[kind] + 1]
  BY DEF Upset
<1>3. /\ done.activities \in 0 .. MaxActivities
      /\ done.byHand \in 0 .. MaxUpsets /\ done.failures \in 0 .. MaxUpsets /\ done.losses \in 0 .. MaxUpsets
  BY DEF GamTypeOK
<1>4. done \in [activities : 0 .. MaxActivities, byHand : 0 .. MaxUpsets,
                failures : 0 .. MaxUpsets, losses : 0 .. MaxUpsets]
  BY DEF GamTypeOK
<1>5. /\ done.byHand + 1 \in 0 .. MaxUpsets /\ done.failures + 1 \in 0 .. MaxUpsets
      /\ done.losses + 1 \in 0 .. MaxUpsets
  BY <1>1, <1>3
<1>6. CASE kind = "byHand"
  BY <1>2, <1>3, <1>4, <1>5, <1>6 DEF DoneTyped
<1>7. CASE kind = "failures"
  BY <1>2, <1>3, <1>4, <1>5, <1>7 DEF DoneTyped
<1>8. CASE kind = "losses"
  BY <1>2, <1>3, <1>4, <1>5, <1>8 DEF DoneTyped
<1> QED
  BY <1>6, <1>7, <1>8

\* A call fits as it did when its worker alone released locks.
LEMMA StillFits ==
  ASSUME NEW w, NEW v, NEW g, FrameOK(v, g),
         UNCHANGED <<clock, events, firings, ledger, balance>>,
         rowLock' = rowLock \/ (rowLock' = Unlocked(w) /\ (v = w => g.at # "wallet"))
  PROVE  FrameOK(v, g)'
<1>1. Placed(g)' /\ Inside(g)' /\ Gated(g)' /\ Fresh(g)'
  BY DEF FrameOK, Placed, Inside, Gated, Fresh, EffectOf, Before, FiringsOf, InWindow
<1>2. Reads(v, g)'
  <2>1. CASE rowLock' = rowLock
    BY <2>1 DEF FrameOK, Reads
  <2>2. CASE rowLock' = Unlocked(w) /\ (v = w => g.at # "wallet")
    <3>1. \A c \in DOMAIN rowLock : rowLock[c] # w => c \in DOMAIN rowLock' /\ rowLock'[c] = rowLock[c]
      BY <2>2 DEF Unlocked
    <3> QED
      BY <2>2, <3>1 DEF FrameOK, Reads
  <2> QED
    BY <2>1, <2>2
<1> QED
  BY <1>1, <1>2 DEF FrameOK

LEMMA TablesKept ==
  ASSUME GamInv, UNCHANGED <<clock, firings, ledger, balance>>
  PROVE  History' /\ LedgerFinite' /\ BalanceIsLedger' /\ GatesOutsideOverlap'
BY DEF GamInv, History, LedgerFinite, BalanceIsLedger, Balance, GatesOutsideOverlap, CooldownKept, LimitKept,
       FiringsOf, InWindow

\* What was at work still is, but for the top call of w, which may have
\* come to its next rule.
LEMMA AtWorkReplaced ==
  ASSUME GamTypeOK, NEW w \in Workers, stack[w] # <<>>, NEW f \in Frame, f.event = Top(w).event,
         NEW st, st = WithTop(w, f), stack' = st, NEW e, NEW r, AtWork(e, r),
         f.todo = Top(w).todo \/ e # Top(w).event \/ r # Current(w)
  PROVE  AtWork(e, r)'
<1>0. PICK v \in Workers : \E k \in DOMAIN stack[v] :
        stack[v][k].event = e /\ stack[v][k].todo # {} /\ Min(stack[v][k].todo) = r
  BY DEF AtWork
<1>1. PICK k \in DOMAIN stack[v] :
        stack[v][k].event = e /\ stack[v][k].todo # {} /\ Min(stack[v][k].todo) = r
  BY <1>0
<1>2. k \in DOMAIN stack'[v] /\ stack'[v][k] = IF v = w /\ k = Len(stack[w]) THEN f ELSE stack[v][k]
  BY TopReplaced
<1>3. stack'[v][k].event = e /\ stack'[v][k].todo # {} /\ Min(stack'[v][k].todo) = r
  BY <1>1, <1>2, TopIsFrame DEF Current
<1> QED
  BY <1>3, <1>2 DEF AtWork

LEMMA AtWorkPopped ==
  ASSUME GamTypeOK, NEW w \in Workers, stack[w] # <<>>, Top(w).todo = {},
         NEW st, st = Popped(w), stack' = st, NEW e, NEW r, AtWork(e, r)
  PROVE  AtWork(e, r)'
<1>0. PICK v \in Workers : \E k \in DOMAIN stack[v] :
        stack[v][k].event = e /\ stack[v][k].todo # {} /\ Min(stack[v][k].todo) = r
  BY DEF AtWork
<1>1. PICK k \in DOMAIN stack[v] :
        stack[v][k].event = e /\ stack[v][k].todo # {} /\ Min(stack[v][k].todo) = r
  BY <1>0
<1>2. k \in DOMAIN stack'[v] /\ stack'[v][k] = stack[v][k]
  BY <1>1, TopIsFrame, TopPopped
<1>3. stack'[v][k].event = e /\ stack'[v][k].todo # {} /\ Min(stack'[v][k].todo) = r
  BY <1>1, <1>2
<1> QED
  BY <1>3, <1>2 DEF AtWork

\* The top call of w goes on to f without a word to the tables; when that is
\* with the next rule, this one has awarded nothing.
LEMMA GoesOn ==
  ASSUME GamInv, NEW w \in Workers, stack[w] # <<>>,
         NEW f \in Frame, f.event = Top(w).event, f.at \notin {"wallet", "chain"},
         stack' = WithTop(w, f), FrameOK(w, f),
         UNCHANGED <<clock, events, firings, ledger, balance, awards, revoked>>,
         rowLock' = rowLock \/ rowLock' = Unlocked(w),
         DoneTyped', done'.losses >= done.losses,
         \/ f.todo = Top(w).todo
         \/ \A t \in ledger : t.event = Top(w).event => t.rule # Current(w)
  PROVE  GamInv'
<1> DEFINE st == WithTop(w, f)
<1>1. st \in [Workers -> Seq(Frame)]
  BY TopReplaced DEF GamInv
<1>2. stack' = st
  OBVIOUS
<1> HIDE DEF st
<1>3. GamTypeOK'
  <2>1. DOMAIN rowLock' \subseteq DOMAIN balance /\ \A c \in DOMAIN rowLock' : rowLock'[c] \in Workers
    BY DEF GamInv, GamTypeOK, Unlocked
  <2> QED
    BY <1>1, <1>2, <2>1 DEF GamInv, GamTypeOK, DoneTyped
<1>4. Frames' /\ Waiting' /\ OwnEvents'
  <2>1. \A v \in Workers : \A g \in Frame :
           g.event # Top(w).event /\ (v = w => g.at = "effects") /\ FrameOK(v, g) => FrameOK(v, g)'
    BY StillFits
  <2>2. FrameOK(w, f)'
    BY StillFits
  <2> QED
    BY <1>2, <2>1, <2>2, ReplacedFrames DEF GamInv, st
<1>5. AnnouncedOnce'
  <2>1. \A b \in Badges : Announcing(b)' \subseteq Announcing(b)
    BY <1>2, NoAnnouncer DEF GamInv, st
  <2>2. \A b \in Badges : Earned(b)' \subseteq Earned(b) /\ TimesHeld(b)' = TimesHeld(b)
    BY DEF Earned, TimesHeld
  <2>3. \A b \in Badges : TimesHeld(b)' >= TimesHeld(b)
    BY <2>2, EarnedTyped DEF GamInv
  <2> QED
    BY <1>3, <2>1, <2>2, <2>3, NoNewAnnouncement DEF GamInv
<1>6. History' /\ LedgerFinite' /\ BalanceIsLedger' /\ GatesOutsideOverlap'
  BY TablesKept
<1>7. EveryAwardRecorded'
  <2>1. SUFFICES ASSUME done'.losses = 0, NEW t \in ledger
                 PROVE  \/ AtWork(t.event, t.rule)'
                        \/ \E i \in DOMAIN firings : firings[i].rule = t.rule /\ firings[i].event = t.event
    BY DEF EveryAwardRecorded, AtWork
  <2>2. done.losses = 0
    BY <2>1 DEF GamInv, GamTypeOK
  <2>3. CASE AtWork(t.event, t.rule)
    BY <1>2, <2>1, <2>3, AtWorkReplaced DEF GamInv, st
  <2> QED
    BY <2>1, <2>2, <2>3 DEF GamInv, EveryAwardRecorded
<1> QED
  BY <1>3, <1>4, <1>5, <1>6, <1>7 DEF GamInv

\* The top call of w returns, or is lost.
LEMMA Returns ==
  ASSUME GamInv, NEW w \in Workers, stack[w] # <<>>, stack' = Popped(w),
         UNCHANGED <<clock, events, firings, ledger, balance, rowLock, awards, revoked>>,
         DoneTyped', done'.losses >= done.losses,
         Top(w).todo = {} \/ done'.losses # 0
  PROVE  GamInv'
<1> DEFINE st == Popped(w)
<1>1. st \in [Workers -> Seq(Frame)]
  BY TopPopped DEF GamInv
<1>2. stack' = st
  OBVIOUS
<1> HIDE DEF st
<1>3. GamTypeOK'
  BY <1>1, <1>2 DEF GamInv, GamTypeOK, DoneTyped
<1>4. Frames' /\ Waiting' /\ OwnEvents'
  <2>1. \A v \in Workers : \A g \in Frame :
           g.event # Top(w).event /\ (v = w => g.at = "effects") /\ FrameOK(v, g) => FrameOK(v, g)'
    BY StillFits
  <2> QED
    BY <1>2, <2>1, PoppedFrames DEF GamInv, st
<1>5. AnnouncedOnce'
  <2>1. \A b \in Badges : Announcing(b)' \subseteq Announcing(b)
    BY <1>2, NoAnnouncer DEF GamInv, st
  <2>2. \A b \in Badges : Earned(b)' \subseteq Earned(b) /\ TimesHeld(b)' = TimesHeld(b)
    BY DEF Earned, TimesHeld
  <2>3. \A b \in Badges : TimesHeld(b)' >= TimesHeld(b)
    BY <2>2, EarnedTyped DEF GamInv
  <2> QED
    BY <1>3, <2>1, <2>2, <2>3, NoNewAnnouncement DEF GamInv
<1>6. History' /\ LedgerFinite' /\ BalanceIsLedger' /\ GatesOutsideOverlap'
  BY TablesKept
<1>7. EveryAwardRecorded'
  <2>1. SUFFICES ASSUME done'.losses = 0, NEW t \in ledger
                 PROVE  \/ AtWork(t.event, t.rule)'
                        \/ \E i \in DOMAIN firings : firings[i].rule = t.rule /\ firings[i].event = t.event
    BY DEF EveryAwardRecorded, AtWork
  <2>2. done.losses = 0
    BY <2>1 DEF GamInv, GamTypeOK
  <2>3. CASE AtWork(t.event, t.rule)
    BY <1>2, <2>1, <2>3, AtWorkPopped DEF GamInv, st
  <2> QED
    BY <2>1, <2>2, <2>3 DEF GamInv, EveryAwardRecorded
<1> QED
  BY <1>3, <1>4, <1>5, <1>6, <1>7 DEF GamInv

LEMMA NextRuleFits ==
  ASSUME NEW w, NEW f \in Frame, f.todo # {}, FrameOK(w, f)
  PROVE  /\ FrameOK(w, NextRule(f))
         /\ f.at \in {"gate", "condition"} => \A t \in ledger : t.event = f.event => t.rule # Min(f.todo)
<1>1. f.todo \in SUBSET RuleIds
  BY DEF Frame
<1>2. Min(f.todo) \in f.todo
  BY <1>1, FirstRule
<1>3. Fresh(f) /\ Placed(f)
  BY DEF FrameOK
<1>4. Fresh(NextRule(f))
  BY <1>3, FrameMoves DEF Fresh
<1> QED
  BY <1>2, <1>3, <1>4, FrameMoves DEF FrameOK, Fresh, Placed, Inside, Reads, Gated

\* A call past the gates of its rule may stand between two effects.
LEMMA EffectsFit ==
  ASSUME NEW w, NEW f \in Frame, f.todo # {}, FrameOK(w, f), f.at # "gate",
         NEW g \in Frame, g.event = f.event, g.began = f.began, g.todo = f.todo, g.at = "effects"
  PROVE  FrameOK(w, g)
<1>1. Placed(g) /\ Inside(g) /\ Reads(w, g)
  BY DEF FrameOK, Placed, Inside, Reads
<1>2. Gated(g)
  BY DEF FrameOK, Gated
<1>3. Fresh(g)
  BY DEF FrameOK, Fresh
<1> QED
  BY <1>1, <1>2, <1>3 DEF FrameOK

-----------------------------------------------------------------------------
(***************************************************************************)
(* Every action keeps the invariant.                                       *)
(***************************************************************************)
LEMMA FiringTyped ==
  ASSUME GamTypeOK, NEW i \in DOMAIN firings
  PROVE  /\ firings[i].rule \in RuleIds /\ firings[i].event \in DOMAIN events
         /\ firings[i].at \in 0 .. MaxClock /\ firings[i].began \in Nat
<1> DEFINE F == [rule : RuleIds, event : DOMAIN events, at : 0 .. MaxClock, began : Nat]
<1>1. firings \in Seq(F)
  BY DEF GamTypeOK
<1>2. firings[i] \in F
  <2> HIDE DEF F
  <2> QED
    BY <1>1
<1> QED
  BY <1>2

LEMMA SomeFiring ==
  ASSUME GamTypeOK, NEW r \in RuleIds, FiringsOf(r) # {}
  PROVE  LastFiring(r) # {}
<1> DEFINE Ages == {MaxClock - firings[i].at : i \in FiringsOf(r)}
<1>1. \A i \in FiringsOf(r) : firings[i].at \in 0 .. MaxClock
  BY FiringTyped DEF FiringsOf
<1>2. MaxClock \in Nat
  BY BoundsAssumption
<1>3. Ages \in SUBSET Nat /\ Ages # {}
  BY <1>1, <1>2
<1>4. PICK a \in Ages : \A m \in Ages : a <= m
  <2> HIDE DEF Ages
  <2> QED
    BY <1>3, Smallest
<1>5. PICK i \in FiringsOf(r) : a = MaxClock - firings[i].at
  BY <1>4
<1>6. ASSUME NEW j \in FiringsOf(r) PROVE firings[j].at <= firings[i].at
  <2>1. a <= MaxClock - firings[j].at
    BY <1>4
  <2> QED
    BY <1>1, <1>2, <1>5, <2>1
<1> QED
  BY <1>5, <1>6 DEF LastFiring

LEMMA BeforeTyped ==
  ASSUME GamTypeOK, NEW r \in RuleIds, NEW n, NEW t
  PROVE  /\ IsFiniteSet(FiringsOf(r)) /\ IsFiniteSet(Before(r, n, t))
         /\ Cardinality(Before(r, n, t)) \in Nat
<1>1. DOMAIN firings = 1 .. Len(firings) /\ Len(firings) \in Nat
  BY DEF GamTypeOK
<1>2. IsFiniteSet(FiringsOf(r))
  <2>1. IsFiniteSet(DOMAIN firings)
    BY <1>1, FS_Interval
  <2> QED
    BY <2>1, FS_Subset DEF FiringsOf
<1> QED
  BY <1>2, FS_Subset, FS_CardinalityType DEF Before

LEMMA GatesOpen ==
  ASSUME GamTypeOK, NEW r \in RuleIds, ~InCooldown(r), ~AtLimit(r), NEW n \in Nat
  PROVE  /\ \A i \in FiringsOf(r) : clock - firings[i].at >= Rules[r].cooldown
         /\ Rules[r].limit > 0 => Cardinality(Before(r, n, clock)) < Rules[r].limit
<1>1. Rules[r].cooldown \in Nat /\ Rules[r].limit \in Nat
  <2>1. Rules[r] \in Rule
    BY RulesAssumption DEF RuleIds
  <2> QED
    BY <2>1 DEF Rule
<1>2. ASSUME NEW i \in FiringsOf(r) PROVE clock - firings[i].at >= Rules[r].cooldown
  <2>1. PICK j \in LastFiring(r) : TRUE
    BY SomeFiring
  <2>2. firings[i].at <= firings[j].at
    BY <2>1 DEF LastFiring
  <2>3. ~(clock - firings[j].at < Rules[r].cooldown)
    BY <2>1 DEF InCooldown
  <2>4. clock \in Nat /\ firings[i].at \in Nat /\ firings[j].at \in Nat
    <3>1. i \in DOMAIN firings /\ j \in DOMAIN firings
      BY <2>1 DEF FiringsOf, LastFiring
    <3>2. clock \in 0 .. MaxClock
      BY DEF GamTypeOK
    <3> QED
      BY <3>1, <3>2, BoundsAssumption, FiringTyped
  <2> QED
    BY <1>1, <2>2, <2>3, <2>4
<1>3. ASSUME Rules[r].limit > 0 PROVE Cardinality(Before(r, n, clock)) < Rules[r].limit
  <2> DEFINE W == {i \in FiringsOf(r) : InWindow(r, i, clock)}
  <2>1. IsFiniteSet(W)
    BY BeforeTyped, FS_Subset
  <2>2. ~(Cardinality(W) >= Rules[r].limit)
    BY <1>3 DEF AtLimit
  <2>3. Before(r, n, clock) \subseteq W
    BY DEF Before
  <2>4. Cardinality(Before(r, n, clock)) <= Cardinality(W) /\ Cardinality(W) \in Nat
    BY <2>1, <2>3, FS_Subset, FS_CardinalityType
  <2> HIDE DEF W
  <2> QED
    BY <1>1, <2>2, <2>4, BeforeTyped
<1> QED
  BY <1>2, <1>3

LEMMA WorkingTop ==
  ASSUME GamInv, NEW w \in Workers, stack[w] # <<>>, Top(w).todo # {}
  PROVE  /\ Top(w) \in Frame /\ FrameOK(w, Top(w))
         /\ Top(w).todo \in SUBSET RuleIds /\ Current(w) \in Top(w).todo /\ Current(w) \in RuleIds
         /\ CurrentRule(w) \in Rule
<1>1. Top(w) \in Frame /\ FrameOK(w, Top(w))
  BY TopIsFrame, TopFits DEF GamInv
<1> QED
  BY <1>1, FirstRule DEF Frame, Current, CurrentRule

LEMMA DoneKept == ASSUME GamInv, UNCHANGED done PROVE DoneTyped' /\ done'.losses >= done.losses
BY DEF GamInv, GamTypeOK, DoneTyped

LEMMA CheckCooldownKeeps ==
  ASSUME GamInv, NEW w \in Workers, CheckCooldown(w)
  PROVE  GamInv'
<1>1. stack[w] # <<>> /\ Top(w).todo # {} /\ Top(w).at = "gate"
  BY DEF CheckCooldown, Working
<1>2. PICK f \in Frame : f = Top(w)
  BY <1>1, WorkingTop
<1>3. FrameOK(w, f) /\ Current(w) = Min(f.todo) /\ Current(w) \in RuleIds
  BY <1>1, <1>2, WorkingTop DEF Current
<1>4. CASE InCooldown(Current(w)) \/ AtLimit(Current(w))
  <2>1. stack' = WithTop(w, NextRule(f))
    BY <1>2, <1>4 DEF CheckCooldown
  <2>2. NextRule(f) \in Frame /\ NextRule(f).event = f.event /\ NextRule(f).at = "gate"
    BY <1>1, <1>2, FrameMoves
  <2>3. FrameOK(w, NextRule(f)) /\ \A t \in ledger : t.event = f.event => t.rule # Current(w)
    BY <1>1, <1>2, <1>3, NextRuleFits
  <2> QED
    BY <1>1, <1>2, <2>1, <2>2, <2>3, DoneKept, GoesOn DEF CheckCooldown
<1>5. CASE ~(InCooldown(Current(w)) \/ AtLimit(Current(w)))
  <2> DEFINE g == [f EXCEPT !.at = "condition"]
  <2>1. stack' = WithTop(w, g)
    BY <1>2, <1>5 DEF CheckCooldown
  <2>2. g \in Frame
    BY Zenon DEF Frame
  <2>3. /\ g.event = f.event /\ g.began = f.began /\ g.todo = f.todo /\ g.at = "condition"
        /\ f.began \in Nat
    BY DEF Frame
  <2> HIDE DEF g
  <2>4. Placed(g) /\ Inside(g) /\ Reads(w, g)
    BY <1>3, <2>3 DEF FrameOK, Placed, Inside, Reads
  <2>5. Gated(g)
    BY <1>3, <1>5, <2>3, GatesOpen DEF Gated, GamInv
  <2>6. Fresh(g)
    BY <1>1, <1>2, <1>3, <2>3 DEF FrameOK, Fresh
  <2>7. FrameOK(w, g)
    BY <2>4, <2>5, <2>6 DEF FrameOK
  <2> QED
    BY <1>1, <1>2, <2>1, <2>2, <2>3, <2>7, DoneKept, GoesOn DEF CheckCooldown
<1> QED
  BY <1>4, <1>5

LEMMA EvaluateKeeps ==
  ASSUME GamInv, NEW w \in Workers, Evaluate(w)
  PROVE  GamInv'
<1>1. stack[w] # <<>> /\ Top(w).todo # {} /\ Top(w).at = "condition"
  BY DEF Evaluate, Working
<1>2. PICK f \in Frame : f = Top(w)
  BY <1>1, WorkingTop
<1>3. FrameOK(w, f) /\ Current(w) = Min(f.todo)
  BY <1>1, <1>2, WorkingTop DEF Current
<1> DEFINE g == [f EXCEPT !.at = "effects"]
<1>4. stack' = WithTop(w, g) \/ stack' = WithTop(w, NextRule(f))
  BY <1>2 DEF Evaluate
<1>5. CASE stack' = WithTop(w, NextRule(f))
  <2>2. NextRule(f) \in Frame /\ NextRule(f).event = f.event /\ NextRule(f).at = "gate"
    BY <1>1, <1>2, FrameMoves
  <2>3. FrameOK(w, NextRule(f)) /\ \A t \in ledger : t.event = f.event => t.rule # Current(w)
    BY <1>1, <1>2, <1>3, NextRuleFits
  <2> QED
    BY <1>1, <1>2, <1>5, <2>2, <2>3, DoneKept, GoesOn DEF Evaluate
<1>6. CASE stack' = WithTop(w, g)
  <2>2. g \in Frame
    BY Zenon DEF Frame
  <2>3. g.event = f.event /\ g.began = f.began /\ g.todo = f.todo /\ g.at = "effects"
    BY DEF Frame
  <2> HIDE DEF g
  <2>4. FrameOK(w, g)
    BY <1>1, <1>2, <1>3, <2>2, <2>3, EffectsFit
  <2> QED
    BY <1>1, <1>2, <1>6, <2>2, <2>3, <2>4, DoneKept, GoesOn DEF Evaluate
<1> QED
  BY <1>4, <1>5, <1>6

LEMMA NoAwardKeeps ==
  ASSUME GamInv, NEW w \in Workers, NoAward(w)
  PROVE  GamInv'
<1>1. stack[w] # <<>> /\ Top(w).todo # {} /\ Top(w).at = "wallet"
  BY DEF NoAward, Working
<1>2. PICK f \in Frame : f = Top(w)
  BY <1>1, WorkingTop
<1>3. FrameOK(w, f)
  BY <1>1, <1>2, WorkingTop
<1>4. PICK g \in {NextEffect(f), SkipEffects(f)} : stack' = WithTop(w, g)
  BY <1>2 DEF NoAward
<1>5. g \in Frame /\ g.event = f.event /\ g.began = f.began /\ g.todo = f.todo /\ g.at = "effects"
  BY <1>1, <1>2, FrameMoves
<1>6. FrameOK(w, g)
  BY <1>1, <1>2, <1>3, <1>5, EffectsFit
<1> QED
  BY <1>1, <1>2, <1>4, <1>5, <1>6, DoneKept, GoesOn DEF NoAward

LEMMA StatementFailsKeeps ==
  ASSUME GamInv, NEW w \in Workers, StatementFails(w)
  PROVE  GamInv'
<1>1. stack[w] # <<>> /\ Top(w).todo # {}
  BY DEF StatementFails
<1>2. PICK f \in Frame : f = Top(w)
  BY <1>1, WorkingTop
<1>3. FrameOK(w, f)
  BY <1>1, <1>2, WorkingTop
<1>4. ASSUME NEW kind \in {"failures", "losses"}, Upset(kind)
      PROVE  /\ DoneTyped' /\ done'.losses >= done.losses
             /\ kind = "losses" => done'.losses # 0
  <2>1. done.losses \in Nat
    BY DEF GamInv, GamTypeOK
  <2> QED
    BY <1>4, <2>1, UpsetTyped DEF GamInv
<1>5. CASE Upset("failures") /\ f.at \in {"wallet", "effects", "chain"}
           /\ (stack' = WithTop(w, SkipEffects(f)) \/ stack' = WithTop(w, NextEffect(f)))
           /\ (rowLock' = rowLock \/ rowLock' = Unlocked(w))
  <2>1. PICK g \in {NextEffect(f), SkipEffects(f)} : stack' = WithTop(w, g)
    BY <1>5
  <2>2. g \in Frame /\ g.event = f.event /\ g.began = f.began /\ g.todo = f.todo /\ g.at = "effects"
    BY <1>1, <1>2, FrameMoves
  <2>3. FrameOK(w, g)
    BY <1>1, <1>2, <1>3, <1>5, <2>2, EffectsFit
  <2>4. DoneTyped' /\ done'.losses >= done.losses
    BY <1>4, <1>5
  <2> QED
    BY <1>1, <1>2, <1>5, <2>1, <2>2, <2>3, <2>4, GoesOn DEF StatementFails
<1>6. CASE Upset("losses") /\ stack' = Popped(w) /\ rowLock' = rowLock
  BY <1>1, <1>4, <1>6, Returns DEF StatementFails
<1> QED
  BY <1>2, <1>5, <1>6 DEF StatementFails, Popped

LEMMA ReturnKeeps ==
  ASSUME GamInv, NEW w \in Workers, Return(w)
  PROVE  GamInv'
BY DoneKept, Returns DEF Return, Popped

\* What a new call needs to fit.
LEMMA NewCallFits ==
  ASSUME GamTypeOK, NEW w, NEW on, NEW more, events' = Append(events, more), UNCHANGED <<firings, ledger>>
  PROVE  /\ CallOf(on) \in Frame /\ CallOf(on).event = Len(events) + 1 /\ CallOf(on).at = "gate"
         /\ \E f \in Frame : f = CallOf(on) /\ FrameOK(w, f)'
         /\ \A v, k : v \in Workers /\ k \in DOMAIN stack[v] /\ Placed(stack[v][k])
              => stack[v][k].event # CallOf(on).event
<1>1. /\ DOMAIN events = 1 .. Len(events) /\ Len(events) \in Nat
      /\ Len(firings) \in Nat
      /\ DOMAIN events' = 1 .. Len(events) + 1
  BY DEF GamTypeOK
<1>2. CallOf(on) \in Frame
  <2>1. Matching(on) \in SUBSET RuleIds
    BY DEF Matching
  <2>2. Len(events) + 1 \in Nat /\ 1 \in Nat \ {0} /\ 0 \in Nat
    BY <1>1
  <2> QED
    BY <1>1, <2>1, <2>2, Zenon DEF CallOf, Frame
<1>3. CallOf(on).event = Len(events) + 1 /\ CallOf(on).at = "gate" /\ CallOf(on).began = Len(firings)
  BY DEF CallOf
<1>4. PICK f \in Frame : f = CallOf(on)
  BY <1>2
<1>5. ASSUME NEW t \in ledger PROVE t.event # Len(events) + 1
  BY <1>1 DEF GamTypeOK
<1>6. FrameOK(w, f)'
  BY <1>1, <1>3, <1>4, <1>5 DEF FrameOK, Placed, Inside, Reads, Gated, Fresh
<1>7. ASSUME NEW v \in Workers, NEW k \in DOMAIN stack[v], Placed(stack[v][k])
      PROVE  stack[v][k].event # CallOf(on).event
  BY <1>1, <1>3, <1>7 DEF Placed
<1> QED
  BY <1>2, <1>3, <1>4, <1>6, <1>7

EventSet == [on : {"completed"}] \cup [on : {"earned"}, badge : Badges]

LEMMA EventsGrow ==
  ASSUME GamTypeOK, NEW e \in EventSet, events' = Append(events, e)
  PROVE  /\ events' \in Seq(EventSet)
         /\ DOMAIN events' = DOMAIN events \cup {Len(events) + 1} /\ Len(events) + 1 \notin DOMAIN events
         /\ \A i \in DOMAIN events : events'[i] = events[i]
         /\ events'[Len(events) + 1] = e
         /\ firings \in Seq([rule : RuleIds, event : DOMAIN events', at : 0 .. MaxClock, began : Nat])
         /\ ledger \subseteq [event : DOMAIN events', rule : RuleIds, code : Currencies, delta : Nat]
<1>1. events \in Seq(EventSet)
  BY DEF GamTypeOK, EventSet
<1>2. /\ events' \in Seq(EventSet)
      /\ DOMAIN events' = DOMAIN events \cup {Len(events) + 1} /\ Len(events) + 1 \notin DOMAIN events
      /\ \A i \in DOMAIN events : events'[i] = events[i]
      /\ events'[Len(events) + 1] = e
  <2> HIDE DEF EventSet
  <2> QED
    BY <1>1
<1> DEFINE F == [rule : RuleIds, event : DOMAIN events, at : 0 .. MaxClock, began : Nat]
           G == [rule : RuleIds, event : DOMAIN events', at : 0 .. MaxClock, began : Nat]
<1>3. firings \in Seq(F)
  BY DEF GamTypeOK
<1>4. F \subseteq G
  BY <1>2
<1>5. firings \in Seq(G)
  <2> HIDE DEF F, G
  <2> QED
    BY <1>3, <1>4
<1>6. ledger \subseteq [event : DOMAIN events', rule : RuleIds, code : Currencies, delta : Nat]
  BY <1>2 DEF GamTypeOK
<1> QED
  BY <1>2, <1>5, <1>6

LEMMA FitsAfterEvent ==
  ASSUME DOMAIN events \subseteq DOMAIN events', UNCHANGED <<clock, firings, ledger, balance, rowLock>>,
         NEW v, NEW g, FrameOK(v, g)
  PROVE  FrameOK(v, g)'
BY DEF FrameOK, Placed, Inside, Reads, Gated, Fresh, EffectOf, Before, FiringsOf, InWindow

\* A new call adds itself to what is at work and announces nothing.
LEMMA PushedOthers ==
  ASSUME NEW st \in [Workers -> Seq(Frame)], NEW w \in Workers, NEW f \in Frame, f.at = "gate",
         NEW st2, st2 = [st EXCEPT ![w] = Append(@, f)], stack' = st2
  PROVE  /\ st2 \in [Workers -> Seq(Frame)]
         /\ \A v \in Workers : \A k \in DOMAIN st[v] :
              st[v][k].todo # {} => AtWork(st[v][k].event, Min(st[v][k].todo))'
         /\ \A v \in Workers : \A b :
              Announces(v, b)' => \E k \in DOMAIN st[v] : st[v][k].at = "chain" /\ EffectOf(st[v][k]).code = b
<1>1. /\ st2 \in [Workers -> Seq(Frame)]
      /\ \A v \in Workers : \A k \in DOMAIN st2[v] :
           \/ k \in DOMAIN st[v] /\ st2[v][k] = st[v][k]
           \/ v = w /\ k = Len(st[w]) + 1 /\ st2[v][k] = f
      /\ \A v \in Workers : DOMAIN st[v] \subseteq DOMAIN st2[v]
  BY CallPushed
<1>2. ASSUME NEW v \in Workers, NEW k \in DOMAIN st[v], st[v][k].todo # {}
      PROVE  AtWork(st[v][k].event, Min(st[v][k].todo))'
  <2>1. k \in DOMAIN st2[v] /\ st2[v][k] = st[v][k]
    BY <1>1
  <2> QED
    BY <1>2, <2>1 DEF AtWork
<1>3. ASSUME NEW v \in Workers, NEW b, Announces(v, b)'
      PROVE  \E k \in DOMAIN st[v] : st[v][k].at = "chain" /\ EffectOf(st[v][k]).code = b
  <2>1. PICK k \in DOMAIN st2[v] : st2[v][k].at = "chain" /\ EffectOf(st2[v][k]).code = b
    BY <1>3 DEF Announces, EffectOf
  <2> QED
    BY <1>1, <2>1
<1> QED
  BY <1>1, <1>2, <1>3

LEMMA EmitKeeps ==
  ASSUME GamInv, NEW w \in Workers, Emit(w)
  PROVE  GamInv'
<1> DEFINE e == [on |-> "completed"]
<1>1. e \in EventSet /\ events' = Append(events, e)
  BY DEF EventSet, Emit
<1>2. PICK f \in Frame : f = CallOf("completed") /\ f.at = "gate" /\ f.event = Len(events) + 1 /\ FrameOK(w, f)'
  BY <1>1, NewCallFits DEF GamInv, Emit
<1>3. PICK st \in [Workers -> Seq(Frame)] : st = stack
  BY DEF GamInv, GamTypeOK
<1>4. stack' = [st EXCEPT ![w] = Append(@, f)]
  <2>1. Append(<<>>, f) = <<f>>
    OBVIOUS
  <2> QED
    BY <1>2, <1>3, <2>1 DEF Emit
<1>5. PICK st2 : st2 = [st EXCEPT ![w] = Append(@, f)] /\ stack' = st2
  BY <1>4
<1>6. DoneTyped' /\ done'.losses = done.losses
  <2>1. /\ done.activities \in 0 .. MaxActivities /\ MaxActivities \in Nat
        /\ done.activities < MaxActivities /\ done' = [done EXCEPT !.activities = done.activities + 1]
    BY BoundsAssumption DEF GamInv, GamTypeOK, Emit
  <2>2. done.activities + 1 \in 0 .. MaxActivities
    BY <2>1
  <2> QED
    BY <2>1, <2>2 DEF GamInv, GamTypeOK, DoneTyped
<1>7. GamTypeOK'
  <2>1. stack' \in [Workers -> Seq(Frame)]
    BY <1>2, <1>5, PushedOthers
  <2>2. events' \in Seq(EventSet) /\ UNCHANGED <<clock, firings, ledger, balance, rowLock, awards, revoked>>
    BY <1>1, EventsGrow DEF GamInv, Emit
  <2> QED
    BY <1>1, <1>6, <2>1, <2>2, EventsGrow DEF GamInv, GamTypeOK, DoneTyped, EventSet
<1>8. Frames' /\ Waiting' /\ OwnEvents'
  <2>1. stack[w] = <<>>
    BY DEF Emit
  <2>2. ASSUME NEW v \in Workers, NEW k \in DOMAIN st[v]
        PROVE  /\ FrameOK(v, st[v][k])'
               /\ k < Len(st[v]) \/ v = w => st[v][k].at = "effects"
               /\ st[v][k].event # f.event
    <3>1. FrameOK(v, st[v][k])
      BY <1>3, <2>2 DEF GamInv, Frames
    <3>2. FrameOK(v, st[v][k])'
      BY <1>1, <3>1, EventsGrow, FitsAfterEvent DEF GamInv, Emit
    <3>3. v # w /\ (k < Len(st[v]) => st[v][k].at = "effects")
      BY <1>3, <2>1, <2>2 DEF GamInv, Waiting
    <3>4. st[v][k].event # f.event
      BY <1>1, <1>2, <1>3, <3>1, NewCallFits DEF GamInv, Emit, FrameOK
    <3> QED
      BY <3>2, <3>3, <3>4
  <2>3. \A u, v \in Workers : \A j \in DOMAIN st[u], k \in DOMAIN st[v] :
            st[u][j].event = st[v][k].event => u = v /\ j = k
    BY <1>3 DEF GamInv, OwnEvents
  <2>4. FrameOK(w, f)'
    BY <1>2
  <2>5. st2 = [st EXCEPT ![w] = Append(@, f)] /\ stack' = st2
    BY <1>5
  <2>6. \A v \in Workers : \A k \in DOMAIN st[v] :
            /\ FrameOK(v, st[v][k])'
            /\ k < Len(st[v]) \/ v = w => st[v][k].at = "effects"
            /\ st[v][k].event # f.event
    BY <2>2
  <2> QED
    BY <2>3, <2>4, <2>5, <2>6, PushedFrames, Zenon
<1>9. AnnouncedOnce'
  <2>1. \A b \in Badges : Announcing(b)' \subseteq Announcing(b)
    BY <1>2, <1>3, <1>5, PushedOthers DEF Announcing, Announces
  <2>2. \A b \in Badges : Earned(b)' \subseteq Earned(b)
    BY <1>1, EventsGrow DEF Earned, GamInv
  <2>3. \A b \in Badges : TimesHeld(b)' >= TimesHeld(b)
    BY EarnedTyped DEF GamInv, Emit, TimesHeld
  <2> QED
    BY <1>7, <2>1, <2>2, <2>3, NoNewAnnouncement DEF GamInv
<1>10. History' /\ LedgerFinite' /\ BalanceIsLedger' /\ GatesOutsideOverlap'
  BY TablesKept DEF Emit
<1>11. EveryAwardRecorded'
  <2>1. ASSUME NEW x, NEW r, AtWork(x, r) PROVE AtWork(x, r)'
    <3>1. PICK v \in Workers : \E k \in DOMAIN st[v] :
            st[v][k].event = x /\ st[v][k].todo # {} /\ Min(st[v][k].todo) = r
      BY <1>3, <2>1 DEF AtWork
    <3>2. PICK k \in DOMAIN st[v] : st[v][k].event = x /\ st[v][k].todo # {} /\ Min(st[v][k].todo) = r
      BY <3>1
    <3>3. AtWork(st[v][k].event, Min(st[v][k].todo))'
      BY <1>2, <1>5, <3>2, PushedOthers
    <3> QED
      BY <3>2, <3>3
  <2>2. UNCHANGED <<ledger, firings>>
    BY DEF Emit
  <2>3. SUFFICES ASSUME done'.losses = 0, NEW t \in ledger
                 PROVE  \/ AtWork(t.event, t.rule)'
                        \/ \E i \in DOMAIN firings : firings[i].rule = t.rule /\ firings[i].event = t.event
    BY <2>2 DEF EveryAwardRecorded, AtWork
  <2> QED
    BY <1>6, <2>1, <2>3 DEF GamInv, EveryAwardRecorded
<1> QED
  BY <1>7, <1>8, <1>9, <1>10, <1>11 DEF GamInv

LEMMA EmitBadgeEarnedKeeps ==
  ASSUME GamInv, NEW w \in Workers, EmitBadgeEarned(w)
  PROVE  GamInv'
<1>1. stack[w] # <<>> /\ Top(w).todo # {} /\ Top(w).at = "chain"
  BY DEF EmitBadgeEarned, Working
<1>2. PICK p \in Frame : p = Top(w)
  BY <1>1, WorkingTop
<1>3. FrameOK(w, p)
  BY <1>1, <1>2, WorkingTop
<1> DEFINE bdg == EffectOf(p).code
           e == [on |-> "earned", badge |-> bdg]
<1>4. bdg \in Badges /\ e \in EventSet
  <2>1. p.effect <= Len(Rules[Min(p.todo)].effects) /\ EffectOf(p).kind = "AwardBadge"
    BY <1>1, <1>2, <1>3 DEF FrameOK, Inside
  <2>2. bdg \in Badges
    BY <1>1, <1>2, <2>1, EffectTyped
  <2> QED
    BY <2>2 DEF EventSet
<1>5. events' = Append(events, e)
  BY <1>2 DEF EmitBadgeEarned, CurrentEffect, CurrentRule, Current, EffectOf
<1> HIDE DEF bdg, e
<1>6. PICK f \in Frame : f = CallOf("earned") /\ f.at = "gate" /\ f.event = Len(events) + 1 /\ FrameOK(w, f)'
  BY <1>5, NewCallFits DEF GamInv, EmitBadgeEarned
<1>7. PICK q \in Frame : /\ q = NextEffect(p) /\ q.event = p.event /\ q.began = p.began
                         /\ q.todo = p.todo /\ q.at = "effects"
  BY <1>1, <1>2, FrameMoves
<1>8. FrameOK(w, q)
  BY <1>1, <1>2, <1>3, <1>7, EffectsFit
<1>9. PICK st \in [Workers -> Seq(Frame)] :
        /\ st = WithTop(w, q)
        /\ \A v \in Workers : Len(st[v]) = Len(stack[v]) /\ DOMAIN st[v] = DOMAIN stack[v]
        /\ \A v \in Workers : \A k \in DOMAIN stack[v] :
             st[v][k] = IF v = w /\ k = Len(stack[w]) THEN q ELSE stack[v][k]
  BY <1>1, TopReplaced DEF GamInv
<1>10. PICK st2 : st2 = [st EXCEPT ![w] = Append(@, f)] /\ stack' = st2
  BY <1>2, <1>6, <1>7, <1>9 DEF EmitBadgeEarned
<1>11. UNCHANGED <<clock, firings, ledger, balance, rowLock, awards, revoked, done>>
  BY DEF EmitBadgeEarned
<1>12. /\ Top(w) = stack[w][Len(stack[w])] /\ Len(stack[w]) \in DOMAIN stack[w]
       /\ \A v \in Workers : DOMAIN stack[v] = 1 .. Len(stack[v])
  <2>1. \A v \in Workers : stack[v] \in Seq(Frame)
    BY DEF GamInv, GamTypeOK
  <2> QED
    BY <1>1, <2>1, TopIsFrame DEF GamInv
<1>13. GamTypeOK'
  <2>1. stack' \in [Workers -> Seq(Frame)]
    BY <1>6, <1>10, PushedOthers
  <2>2. events' \in Seq(EventSet)
    BY <1>4, <1>5, EventsGrow DEF GamInv
  <2> QED
    BY <1>4, <1>5, <1>11, <2>1, <2>2, EventsGrow DEF GamInv, GamTypeOK, EventSet
<1>14. Frames' /\ Waiting' /\ OwnEvents'
  <2>1. ASSUME NEW v \in Workers, NEW k \in DOMAIN st[v]
        PROVE  /\ FrameOK(v, st[v][k])'
               /\ k < Len(st[v]) \/ v = w => st[v][k].at = "effects"
               /\ st[v][k].event # f.event
    <3>1. k \in DOMAIN stack[v] /\ st[v][k].event = stack[v][k].event
      BY <1>2, <1>7, <1>9, <1>12, <2>1
    <3>2. FrameOK(v, stack[v][k])
      BY <3>1 DEF GamInv, Frames
    <3>3. FrameOK(v, st[v][k])
      BY <1>8, <1>9, <3>1, <3>2
    <3>4. FrameOK(v, st[v][k])'
      BY <1>4, <1>5, <1>11, <3>3, EventsGrow, FitsAfterEvent DEF GamInv
    <3>5. k < Len(st[v]) \/ v = w => st[v][k].at = "effects"
      BY <1>7, <1>9, <1>12, <3>1 DEF GamInv, Waiting
    <3>6. st[v][k].event # f.event
      BY <1>5, <1>6, <1>11, <3>1, <3>2, NewCallFits DEF GamInv, FrameOK
    <3> QED
      BY <3>4, <3>5, <3>6
  <2>2. \A u, v \in Workers : \A j \in DOMAIN st[u], k \in DOMAIN st[v] :
            st[u][j].event = st[v][k].event => u = v /\ j = k
    <3>1. \A v \in Workers : \A k \in DOMAIN stack[v] : st[v][k].event = stack[v][k].event
      BY <1>2, <1>7, <1>9, <1>12
    <3> QED
      BY <1>9, <3>1 DEF GamInv, OwnEvents
  <2>3. FrameOK(w, f)'
    BY <1>6
  <2>4. st2 = [st EXCEPT ![w] = Append(@, f)] /\ stack' = st2
    BY <1>10
  <2>5. \A v \in Workers : \A k \in DOMAIN st[v] :
            /\ FrameOK(v, st[v][k])'
            /\ k < Len(st[v]) \/ v = w => st[v][k].at = "effects"
            /\ st[v][k].event # f.event
    BY <2>1
  <2> QED
    BY <2>2, <2>3, <2>4, <2>5, PushedFrames, Zenon
<1>15. AnnouncedOnce'
  <2>1. ASSUME NEW b \in Badges, NEW v \in Workers, Announces(v, b)'
        PROVE  v # w /\ Announces(v, b)
    <3>1. PICK k \in DOMAIN st[v] : st[v][k].at = "chain" /\ EffectOf(st[v][k]).code = b
      <4>1. \A u \in Workers : \A c :
              Announces(u, c)' => \E k \in DOMAIN st[u] : st[u][k].at = "chain" /\ EffectOf(st[u][k]).code = c
        BY <1>6, <1>10, PushedOthers
      <4> QED
        BY <2>1, <4>1
    <3>2. k \in DOMAIN stack[v] /\ ~(v = w /\ k = Len(stack[w])) /\ st[v][k] = stack[v][k]
      BY <1>7, <1>9, <3>1
    <3>3. v # w
      BY <1>12, <3>1, <3>2, OthersApart DEF GamInv
    <3> QED
      BY <3>1, <3>2, <3>3 DEF Announces
  <2>2. Announces(w, bdg)
    BY <1>1, <1>2, <1>12 DEF Announces, bdg
  <2>3. SUFFICES ASSUME NEW b \in Badges
                 PROVE  (Cardinality(Earned(b)) + Cardinality(Announcing(b)) <= TimesHeld(b))'
    BY DEF AnnouncedOnce
  <2>4. TimesHeld(b)' = TimesHeld(b) /\ Cardinality(Earned(b)) + Cardinality(Announcing(b)) <= TimesHeld(b)
    BY <1>11 DEF TimesHeld, GamInv, AnnouncedOnce
  <2>5. CASE b # bdg
    <3>1. Earned(b)' \subseteq Earned(b)
      BY <1>4, <1>5, <2>5, EventsGrow DEF Earned, GamInv, e
    <3>2. Announcing(b)' \subseteq Announcing(b)
      BY <2>1 DEF Announcing
    <3>3. /\ Cardinality(Earned(b)') <= Cardinality(Earned(b)) /\ Cardinality(Earned(b)') \in Nat
          /\ Cardinality(Announcing(b)') <= Cardinality(Announcing(b)) /\ Cardinality(Announcing(b)') \in Nat
      BY <3>1, <3>2, EarnedTyped, FS_Subset, FS_CardinalityType DEF GamInv
    <3> QED
      BY <2>4, <3>3, EarnedTyped DEF GamInv
  <2>6. CASE b = bdg
    <3>1. Earned(b)' \subseteq Earned(b) \cup {Len(events) + 1}
      BY <1>4, <1>5, EventsGrow DEF Earned, GamInv
    <3>2. Announcing(b)' \subseteq Announcing(b) \ {w} /\ w \in Announcing(b)
      BY <2>1, <2>2, <2>6 DEF Announcing
    <3>3. /\ IsFiniteSet(Earned(b) \cup {Len(events) + 1})
          /\ Cardinality(Earned(b) \cup {Len(events) + 1}) <= Cardinality(Earned(b)) + 1
      <4>1. IsFiniteSet(Earned(b)) /\ Cardinality(Earned(b)) \in Nat
        BY EarnedTyped DEF GamInv
      <4>2. /\ IsFiniteSet(Earned(b) \cup {Len(events) + 1})
            /\ \/ Cardinality(Earned(b) \cup {Len(events) + 1}) = Cardinality(Earned(b))
               \/ Cardinality(Earned(b) \cup {Len(events) + 1}) = Cardinality(Earned(b)) + 1
        BY <4>1, FS_AddElement
      <4> QED
        BY <4>1, <4>2
    <3>4. /\ IsFiniteSet(Announcing(b) \ {w})
          /\ Cardinality(Announcing(b) \ {w}) = Cardinality(Announcing(b)) - 1
      BY <3>2, EarnedTyped, FS_RemoveElement DEF GamInv
    <3>5. /\ Cardinality(Earned(b)') <= Cardinality(Earned(b) \cup {Len(events) + 1})
          /\ Cardinality(Announcing(b)') <= Cardinality(Announcing(b) \ {w})
          /\ Cardinality(Earned(b)') \in Nat /\ Cardinality(Announcing(b)') \in Nat
      BY <3>1, <3>2, <3>3, <3>4, FS_Subset, FS_CardinalityType
    <3>6. /\ Cardinality(Earned(b) \cup {Len(events) + 1}) \in Nat /\ Cardinality(Announcing(b) \ {w}) \in Nat
      BY <3>3, <3>4, FS_CardinalityType
    <3> QED
      BY <2>4, <3>3, <3>4, <3>5, <3>6, EarnedTyped DEF GamInv
  <2> QED
    BY <2>5, <2>6
<1>16. History' /\ LedgerFinite' /\ BalanceIsLedger' /\ GatesOutsideOverlap'
  BY <1>11, TablesKept
<1>17. EveryAwardRecorded'
  <2>1. ASSUME NEW x, NEW r, AtWork(x, r) PROVE AtWork(x, r)'
    <3>1. PICK v \in Workers : \E k \in DOMAIN stack[v] :
            stack[v][k].event = x /\ stack[v][k].todo # {} /\ Min(stack[v][k].todo) = r
      BY <2>1 DEF AtWork
    <3>2. PICK k \in DOMAIN stack[v] : stack[v][k].event = x /\ stack[v][k].todo # {} /\ Min(stack[v][k].todo) = r
      BY <3>1
    <3>3. k \in DOMAIN st[v] /\ st[v][k].event = x /\ st[v][k].todo # {} /\ Min(st[v][k].todo) = r
      BY <1>2, <1>7, <1>9, <1>12, <3>2
    <3>4. AtWork(st[v][k].event, Min(st[v][k].todo))'
      BY <1>6, <1>10, <3>3, PushedOthers
    <3> QED
      BY <3>3, <3>4
  <2>3. SUFFICES ASSUME done'.losses = 0, NEW t \in ledger
                 PROVE  \/ AtWork(t.event, t.rule)'
                        \/ \E i \in DOMAIN firings : firings[i].rule = t.rule /\ firings[i].event = t.event
    BY <1>11 DEF EveryAwardRecorded, AtWork
  <2> QED
    BY <1>11, <2>1, <2>3 DEF GamInv, EveryAwardRecorded
<1> QED
  BY <1>13, <1>14, <1>15, <1>16, <1>17 DEF GamInv

LEMMA AwardBadgeKeeps ==
  ASSUME GamInv, NEW w \in Workers, AwardBadge(w)
  PROVE  GamInv'
<1>1. stack[w] # <<>> /\ Top(w).todo # {} /\ Top(w).at = "effects"
  BY DEF AwardBadge, Working
<1>2. PICK p \in Frame : p = Top(w)
  BY <1>1, WorkingTop
<1>3. FrameOK(w, p)
  BY <1>1, <1>2, WorkingTop
<1>4. /\ p.effect <= Len(Rules[Min(p.todo)].effects) /\ EffectOf(p).kind = "AwardBadge"
      /\ CurrentEffect(w) = EffectOf(p)
  BY <1>2 DEF AwardBadge, EffectsLeft, CurrentEffect, CurrentRule, Current, EffectOf
<1> DEFINE bdg == EffectOf(p).code
           g == [p EXCEPT !.at = "chain"]
<1>5. bdg \in Badges
  BY <1>1, <1>2, <1>4, EffectTyped
<1>6. CASE bdg \in awards
  <2>1. awards' = awards
    BY <1>4, <1>6 DEF AwardBadge
  <2>2. stack' = WithTop(w, NextEffect(p))
    BY <1>2, <1>4, <1>6 DEF AwardBadge
  <2>3. /\ NextEffect(p) \in Frame /\ NextEffect(p).event = p.event /\ NextEffect(p).began = p.began
        /\ NextEffect(p).todo = p.todo /\ NextEffect(p).at = "effects"
    BY <1>1, <1>2, FrameMoves
  <2>4. FrameOK(w, NextEffect(p))
    BY <1>1, <1>2, <1>3, <2>3, EffectsFit
  <2> QED
    BY <1>1, <1>2, <2>1, <2>2, <2>3, <2>4, DoneKept, GoesOn DEF AwardBadge
<1>7. CASE bdg \notin awards
  <2>1. stack' = WithTop(w, g) /\ awards' = awards \cup {bdg}
    BY <1>2, <1>4, <1>7 DEF AwardBadge
  <2>2. g \in Frame
    BY Zenon DEF Frame
  <2>3. /\ g.event = p.event /\ g.began = p.began /\ g.todo = p.todo /\ g.effect = p.effect
        /\ g.at = "chain"
    BY DEF Frame
  <2>4. EffectOf(g) = EffectOf(p)
    BY <2>3 DEF EffectOf
  <2> HIDE DEF g, bdg
  <2>5. FrameOK(w, g)
    <3>1. Placed(g) /\ Reads(w, g)
      BY <1>3, <2>3 DEF FrameOK, Placed, Reads
    <3>2. Inside(g)
      BY <1>1, <1>2, <1>4, <2>3, <2>4 DEF Inside
    <3>3. Gated(g) /\ Fresh(g)
      BY <1>1, <1>2, <1>3, <2>3 DEF FrameOK, Gated, Fresh
    <3> QED
      BY <3>1, <3>2, <3>3 DEF FrameOK
  <2>6. UNCHANGED <<clock, events, firings, ledger, balance, rowLock, revoked, done>>
    BY DEF AwardBadge
  <2>7. PICK st : st = WithTop(w, g) /\ stack' = st
    BY <2>1
  <2>8. GamTypeOK'
    BY <1>1, <1>5, <2>1, <2>2, <2>6, TopReplaced DEF GamInv, GamTypeOK
  <2>9. Frames' /\ Waiting' /\ OwnEvents'
    <3>1. \A v \in Workers : \A h \in Frame :
             h.event # Top(w).event /\ (v = w => h.at = "effects") /\ FrameOK(v, h) => FrameOK(v, h)'
      BY <2>6, StillFits
    <3>2. FrameOK(w, g)'
      BY <2>5, <2>6, StillFits
    <3> QED
      BY <1>1, <1>2, <2>2, <2>3, <2>7, <3>1, <3>2, ReplacedFrames DEF GamInv
  <2>10. AnnouncedOnce'
    <3>1. ASSUME NEW b \in Badges, NEW v \in Workers, Announces(v, b)'
          PROVE  Announces(v, b) \/ (v = w /\ b = bdg)
      <4>1. PICK k \in DOMAIN st[v] : st[v][k].at = "chain" /\ EffectOf(st[v][k]).code = b
        BY <2>7, <3>1 DEF Announces, EffectOf
      <4>2. k \in DOMAIN stack[v] /\ st[v][k] = IF v = w /\ k = Len(stack[w]) THEN g ELSE stack[v][k]
        BY <1>1, <2>2, <2>7, <4>1, TopReplaced DEF GamInv
      <4> QED
        BY <2>4, <4>1, <4>2 DEF Announces, bdg
    <3>2. SUFFICES ASSUME NEW b \in Badges
                   PROVE  (Cardinality(Earned(b)) + Cardinality(Announcing(b)) <= TimesHeld(b))'
      BY DEF AnnouncedOnce
    <3>3. /\ Cardinality(Earned(b)) + Cardinality(Announcing(b)) <= TimesHeld(b)
          /\ Earned(b)' = Earned(b)
      BY <2>6 DEF GamInv, AnnouncedOnce, Earned
    <3>4. CASE b # bdg
      <4>1. Announcing(b)' \subseteq Announcing(b)
        BY <3>1, <3>4 DEF Announcing
      <4>2. Cardinality(Announcing(b)') <= Cardinality(Announcing(b)) /\ Cardinality(Announcing(b)') \in Nat
        BY <4>1, EarnedTyped, FS_Subset, FS_CardinalityType DEF GamInv
      <4>3. TimesHeld(b)' = TimesHeld(b)
        BY <2>1, <2>6, <3>4 DEF TimesHeld
      <4> QED
        BY <3>3, <4>2, <4>3, EarnedTyped DEF GamInv
    <3>5. CASE b = bdg
      <4>1. Announcing(b)' \subseteq Announcing(b) \cup {w}
        BY <3>1 DEF Announcing
      <4>2. /\ IsFiniteSet(Announcing(b) \cup {w})
            /\ Cardinality(Announcing(b) \cup {w}) <= Cardinality(Announcing(b)) + 1
        <5>1. IsFiniteSet(Announcing(b)) /\ Cardinality(Announcing(b)) \in Nat
          BY EarnedTyped DEF GamInv
        <5>2. /\ IsFiniteSet(Announcing(b) \cup {w})
              /\ \/ Cardinality(Announcing(b) \cup {w}) = Cardinality(Announcing(b))
                 \/ Cardinality(Announcing(b) \cup {w}) = Cardinality(Announcing(b)) + 1
          BY <5>1, FS_AddElement
        <5> QED
          BY <5>1, <5>2
      <4>3. /\ Cardinality(Announcing(b)') <= Cardinality(Announcing(b) \cup {w})
            /\ Cardinality(Announcing(b)') \in Nat /\ Cardinality(Announcing(b) \cup {w}) \in Nat
        BY <4>1, <4>2, FS_Subset, FS_CardinalityType
      <4>4. TimesHeld(b)' = TimesHeld(b) + 1
        <5>1. b \notin awards /\ b \in awards' /\ revoked' = revoked /\ revoked[b] \in Nat
          BY <1>7, <2>1, <2>6, <3>5 DEF GamInv, GamTypeOK
        <5> QED
          BY <5>1 DEF TimesHeld
      <4> QED
        BY <3>3, <4>2, <4>3, <4>4, EarnedTyped DEF GamInv
    <3> QED
      BY <3>4, <3>5
  <2>11. History' /\ LedgerFinite' /\ BalanceIsLedger' /\ GatesOutsideOverlap'
    BY <2>6, TablesKept
  <2>12. EveryAwardRecorded'
    <3>1. SUFFICES ASSUME done'.losses = 0, NEW t \in ledger
                   PROVE  \/ AtWork(t.event, t.rule)'
                          \/ \E i \in DOMAIN firings : firings[i].rule = t.rule /\ firings[i].event = t.event
      BY <2>6 DEF EveryAwardRecorded, AtWork
    <3>2. CASE AtWork(t.event, t.rule)
      BY <1>1, <1>2, <2>2, <2>3, <2>7, <3>2, AtWorkReplaced DEF GamInv
    <3> QED
      BY <2>6, <3>1, <3>2 DEF GamInv, EveryAwardRecorded
  <2> QED
    BY <2>8, <2>9, <2>10, <2>11, <2>12 DEF GamInv
<1> QED
  BY <1>6, <1>7

\* What a step by hand on the awards leaves.
LEMMA ByHandKeeps ==
  ASSUME GamInv, Upset("byHand"), awards' \subseteq Badges, revoked' \in [Badges -> Nat],
         \A b \in Badges : TimesHeld(b)' >= TimesHeld(b),
         UNCHANGED <<clock, events, firings, ledger, balance, rowLock, stack>>
  PROVE  GamInv'
<1>1. DoneTyped' /\ done'.losses = done.losses
  BY UpsetTyped DEF GamInv
<1>2. GamTypeOK'
  BY <1>1 DEF GamInv, GamTypeOK, DoneTyped
<1>3. Frames' /\ Waiting' /\ OwnEvents'
  BY StillFits, SameFrames DEF GamInv
<1>4. AnnouncedOnce'
  <2>1. \A b \in Badges : Earned(b)' \subseteq Earned(b) /\ Announcing(b)' \subseteq Announcing(b)
    BY DEF Earned, Announcing, Announces, EffectOf
  <2> QED
    BY <1>2, <2>1, NoNewAnnouncement DEF GamInv
<1>5. History' /\ LedgerFinite' /\ BalanceIsLedger' /\ GatesOutsideOverlap'
  BY TablesKept
<1>6. EveryAwardRecorded'
  BY <1>1 DEF GamInv, EveryAwardRecorded, AtWork
<1> QED
  BY <1>2, <1>3, <1>4, <1>5, <1>6 DEF GamInv

LEMMA AwardToUserKeeps ==
  ASSUME GamInv, NEW b \in Badges, AwardToUser(b)
  PROVE  GamInv'
<1>1. awards' \subseteq Badges /\ revoked' = revoked /\ revoked \in [Badges -> Nat]
  BY DEF AwardToUser, GamInv, GamTypeOK
<1>2. ASSUME NEW c \in Badges PROVE TimesHeld(c)' >= TimesHeld(c)
  <2>1. c \in awards => c \in awards'
    BY DEF AwardToUser
  <2>2. revoked[c] \in Nat
    BY <1>1
  <2> QED
    BY <1>1, <2>1, <2>2 DEF TimesHeld
<1> QED
  BY <1>1, <1>2, ByHandKeeps DEF AwardToUser

LEMMA RevokeKeeps ==
  ASSUME GamInv, NEW b \in Badges, Revoke(b)
  PROVE  GamInv'
<1>1. /\ awards \subseteq Badges /\ revoked \in [Badges -> Nat] /\ b \in awards
      /\ awards' = awards \ {b} /\ revoked' = [revoked EXCEPT ![b] = revoked[b] + 1]
  BY DEF Revoke, GamInv, GamTypeOK
<1>2. ASSUME NEW c \in Badges PROVE TimesHeld(c)' >= TimesHeld(c)
  <2>1. revoked[c] \in Nat
    BY <1>1
  <2>2. CASE c = b
    BY <1>1, <2>1, <2>2 DEF TimesHeld
  <2>3. CASE c # b
    BY <1>1, <2>1, <2>3 DEF TimesHeld
  <2> QED
    BY <2>2, <2>3
<1>3. awards' \subseteq Badges /\ revoked' \in [Badges -> Nat]
  BY <1>1
<1> QED
  BY <1>2, <1>3, ByHandKeeps DEF Revoke

LEMMA ServerDiesKeeps ==
  ASSUME GamInv, ServerDies
  PROVE  GamInv'
<1>1. DoneTyped' /\ done'.losses # 0
  <2>1. done.losses \in Nat
    BY DEF GamInv, GamTypeOK
  <2> QED
    BY <2>1, UpsetTyped DEF GamInv, ServerDies
<1>2. \A w \in Workers : stack'[w] = <<>> /\ DOMAIN stack'[w] = {} /\ Len(stack'[w]) = 0
  BY DEF ServerDies
<1>3. GamTypeOK'
  <2>1. rowLock' = <<>> /\ DOMAIN rowLock' = {}
    BY DEF ServerDies
  <2>2. stack' \in [Workers -> Seq(Frame)]
    BY DEF ServerDies
  <2>3. UNCHANGED <<clock, events, firings, ledger, balance, awards, revoked>>
    BY DEF ServerDies
  <2> QED
    BY <1>1, <2>1, <2>2, <2>3 DEF GamInv, GamTypeOK, DoneTyped
<1>4. Frames' /\ Waiting' /\ OwnEvents'
  BY <1>2 DEF Frames, Waiting, OwnEvents
<1>5. AnnouncedOnce'
  <2>1. \A b \in Badges : Earned(b)' \subseteq Earned(b) /\ Announcing(b)' \subseteq Announcing(b)
    BY <1>2 DEF ServerDies, Earned, Announcing, Announces
  <2>2. \A b \in Badges : TimesHeld(b)' >= TimesHeld(b)
    BY EarnedTyped DEF ServerDies, TimesHeld, GamInv
  <2> QED
    BY <1>3, <2>1, <2>2, NoNewAnnouncement DEF GamInv
<1>6. History' /\ LedgerFinite' /\ BalanceIsLedger' /\ GatesOutsideOverlap'
  BY TablesKept DEF ServerDies
<1>7. EveryAwardRecorded'
  BY <1>1 DEF EveryAwardRecorded
<1> QED
  BY <1>3, <1>4, <1>5, <1>6, <1>7 DEF GamInv

LEMMA ClockTicksKeeps ==
  ASSUME GamInv, ClockTicks
  PROVE  GamInv'
<1>1. /\ clock' = clock + 1 /\ clock \in 0 .. MaxClock /\ MaxClock \in Nat /\ clock < MaxClock
      /\ UNCHANGED <<events, firings, ledger, balance, rowLock, awards, stack, revoked, done>>
  BY BoundsAssumption DEF ClockTicks, GamInv, GamTypeOK
<1>2. GamTypeOK'
  BY <1>1 DEF GamInv, GamTypeOK
<1>3. ASSUME NEW v \in Workers, NEW g \in Frame, FrameOK(v, g)
      PROVE  FrameOK(v, g)'
  <2>1. Placed(g)' /\ Inside(g)' /\ Reads(v, g)' /\ Fresh(g)'
    BY <1>1, <1>3 DEF FrameOK, Placed, Inside, Reads, Fresh, EffectOf
  <2>2. ASSUME g.todo # {}, g.at # "gate", NEW r, r = Min(g.todo)
        PROVE  /\ \A i \in FiringsOf(r)' : i <= g.began => (clock - firings[i].at)' >= Rules[r].cooldown
               /\ Rules[r].limit > 0 => Cardinality(Before(r, g.began, clock)') < Rules[r].limit
    <3>1. /\ r \in RuleIds /\ Rules[r].cooldown \in Nat /\ Rules[r].limit \in Nat /\ Rules[r].window \in Nat
      <4>1. g.todo \in SUBSET RuleIds
        BY DEF Frame
      <4>2. r \in RuleIds /\ Rules[r] \in Rule
        BY <2>2, <4>1, FirstRule
      <4> QED
        BY <4>2 DEF Rule
    <3>2. /\ \A i \in FiringsOf(r) : i <= g.began => clock - firings[i].at >= Rules[r].cooldown
          /\ Rules[r].limit > 0 => Cardinality(Before(r, g.began, clock)) < Rules[r].limit
      BY <1>3, <2>2 DEF FrameOK, Gated
    <3>3. \A i \in FiringsOf(r) : firings[i].at \in Nat
      BY <1>1, FiringTyped DEF GamInv, FiringsOf
    <3>4. Before(r, g.began, clock)' \subseteq Before(r, g.began, clock)
      BY <1>1, <3>1, <3>3 DEF Before, FiringsOf, InWindow
    <3>5. Cardinality(Before(r, g.began, clock)') <= Cardinality(Before(r, g.began, clock))
          /\ Cardinality(Before(r, g.began, clock)') \in Nat /\ Cardinality(Before(r, g.began, clock)) \in Nat
      BY <3>1, <3>4, BeforeTyped, FS_Subset, FS_CardinalityType DEF GamInv
    <3>6. FiringsOf(r)' = FiringsOf(r)
      BY <1>1 DEF FiringsOf
    <3>7. ASSUME NEW i \in FiringsOf(r), i <= g.began PROVE (clock - firings[i].at)' >= Rules[r].cooldown
      BY <1>1, <3>1, <3>2, <3>3, <3>7
    <3> QED
      BY <3>1, <3>2, <3>5, <3>6, <3>7
  <2>3. Gated(g)'
    BY <2>2 DEF Gated
  <2> QED
    BY <2>1, <2>3 DEF FrameOK
<1>4. Frames' /\ Waiting' /\ OwnEvents'
  BY <1>1, <1>3, SameFrames DEF GamInv
<1>5. AnnouncedOnce'
  BY <1>1 DEF GamInv, AnnouncedOnce, Earned, Announcing, Announces, TimesHeld, EffectOf
<1>6. History'
  <2>1. \A i \in DOMAIN firings : firings[i].at \in Nat /\ firings[i].at <= clock
    BY <1>1, FiringTyped DEF GamInv, History
  <2> QED
    BY <1>1, <2>1 DEF GamInv, History
<1>7. LedgerFinite' /\ BalanceIsLedger'
  BY <1>1 DEF GamInv, LedgerFinite, BalanceIsLedger, Balance
<1>8. GatesOutsideOverlap'
  BY <1>1 DEF GamInv, GatesOutsideOverlap, CooldownKept, LimitKept, FiringsOf, InWindow
<1>9. EveryAwardRecorded'
  BY <1>1 DEF GamInv, EveryAwardRecorded, AtWork
<1> QED
  BY <1>2, <1>4, <1>5, <1>6, <1>7, <1>8, <1>9 DEF GamInv

LEMMA LockBalanceKeeps ==
  ASSUME GamInv, NEW w \in Workers, LockBalance(w)
  PROVE  GamInv'
<1>1. stack[w] # <<>> /\ Top(w).todo # {} /\ Top(w).at = "effects"
  BY DEF LockBalance, Working
<1>2. PICK p \in Frame : p = Top(w)
  BY <1>1, WorkingTop
<1>3. FrameOK(w, p)
  BY <1>1, <1>2, WorkingTop
<1>4. /\ p.effect <= Len(Rules[Min(p.todo)].effects) /\ EffectOf(p).kind = "AwardCurrency"
      /\ CurrentEffect(w) = EffectOf(p)
  BY <1>2 DEF LockBalance, EffectsLeft, CurrentEffect, CurrentRule, Current, EffectOf
<1> DEFINE c == EffectOf(p).code
           has == c \in DOMAIN balance
           bal == Balance(c)
           locked == [p EXCEPT !.at = "wallet", !.exists = has, !.read = bal]
<1>5. /\ c \notin DOMAIN rowLock
      /\ rowLock' = [d \in DOMAIN rowLock \cup ({c} \cap DOMAIN balance) |-> IF d = c THEN w ELSE rowLock[d]]
      /\ stack' = WithTop(w, locked)
      /\ UNCHANGED <<clock, events, firings, ledger, balance, awards, revoked, done>>
  BY <1>2, <1>4 DEF LockBalance
<1>6. has \in BOOLEAN /\ bal \in Nat
  <2>1. \A d \in DOMAIN balance : balance[d] \in Nat
    BY DEF GamInv, GamTypeOK
  <2> QED
    BY <2>1 DEF Balance
<1>7. /\ has => c \in DOMAIN balance /\ c \in DOMAIN rowLock' /\ rowLock'[c] = w /\ bal = balance[c]
      /\ ~has => bal = 0
  BY <1>5 DEF Balance
<1>8. \A d \in DOMAIN rowLock : d \in DOMAIN rowLock' /\ rowLock'[d] = rowLock[d]
  BY <1>5
<1>9. DOMAIN rowLock' \subseteq DOMAIN balance /\ \A d \in DOMAIN rowLock' : rowLock'[d] \in Workers
  BY <1>5 DEF GamInv, GamTypeOK
<1> HIDE DEF c, has, bal
<1>10. PICK g \in Frame :
         /\ g = locked /\ g.event = p.event /\ g.began = p.began /\ g.todo = p.todo /\ g.effect = p.effect
         /\ g.at = "wallet" /\ g.read = bal /\ g.exists = has
  <2>1. locked \in Frame
    BY <1>6, Zenon DEF Frame
  <2>2. /\ locked.event = p.event /\ locked.began = p.began /\ locked.todo = p.todo
        /\ locked.effect = p.effect /\ locked.at = "wallet" /\ locked.read = bal
    BY DEF Frame
  <2>3. locked.exists = has
    BY Zenon DEF Frame
  <2> HIDE DEF locked
  <2> QED
    BY <2>1, <2>2, <2>3
<1> HIDE DEF locked
<1>11. EffectOf(g) = EffectOf(p)
  BY <1>10 DEF EffectOf
<1>12. UNCHANGED <<clock, events, firings, ledger, balance, awards, revoked, done>>
  BY <1>5
<1>13. FrameOK(w, g)'
  <2>1. Placed(g)' /\ Inside(g)'
    BY <1>1, <1>2, <1>3, <1>4, <1>10, <1>11, <1>12 DEF FrameOK, Placed, Inside, EffectOf
  <2>2. Reads(w, g)'
    BY <1>7, <1>10, <1>11, <1>12 DEF Reads, EffectOf, c
  <2>3. Gated(g)' /\ Fresh(g)'
    <3>1. Gated(g) /\ Fresh(g)
      BY <1>1, <1>2, <1>3, <1>10 DEF FrameOK, Gated, Fresh
    <3> QED
      BY <1>12, <3>1 DEF Gated, Fresh, Before, FiringsOf, InWindow
  <2> QED
    BY <2>1, <2>2, <2>3 DEF FrameOK
<1>14. ASSUME NEW v \in Workers, NEW h \in Frame, FrameOK(v, h)
       PROVE  FrameOK(v, h)'
  <2>1. Placed(h)' /\ Inside(h)' /\ Gated(h)' /\ Fresh(h)'
    BY <1>12, <1>14 DEF FrameOK, Placed, Inside, Gated, Fresh, EffectOf, Before, FiringsOf, InWindow
  <2>2. Reads(v, h)'
    BY <1>8, <1>12, <1>14 DEF FrameOK, Reads, EffectOf
  <2> QED
    BY <2>1, <2>2 DEF FrameOK
<1>15. PICK st : st = WithTop(w, g) /\ stack' = st
  BY <1>5, <1>10
<1>16. GamTypeOK'
  <2>1. stack' \in [Workers -> Seq(Frame)]
    BY <1>1, <1>10, <1>15, TopReplaced DEF GamInv
  <2> QED
    BY <1>9, <1>12, <2>1 DEF GamInv, GamTypeOK
<1>17. Frames' /\ Waiting' /\ OwnEvents'
  BY <1>1, <1>2, <1>10, <1>13, <1>14, <1>15, ReplacedFrames DEF GamInv
<1>18. AnnouncedOnce'
  <2>1. \A b \in Badges : Announcing(b)' \subseteq Announcing(b)
    BY <1>1, <1>10, <1>15, NoAnnouncer DEF GamInv
  <2>2. \A b \in Badges : Earned(b)' \subseteq Earned(b) /\ TimesHeld(b)' = TimesHeld(b)
    BY <1>12 DEF Earned, TimesHeld
  <2>3. \A b \in Badges : TimesHeld(b)' >= TimesHeld(b)
    BY <2>2, EarnedTyped DEF GamInv
  <2> QED
    BY <1>16, <2>1, <2>2, <2>3, NoNewAnnouncement DEF GamInv
<1>19. History' /\ LedgerFinite' /\ BalanceIsLedger' /\ GatesOutsideOverlap'
  BY <1>12, TablesKept
<1>20. EveryAwardRecorded'
  <2>1. SUFFICES ASSUME done'.losses = 0, NEW t \in ledger
                 PROVE  \/ AtWork(t.event, t.rule)'
                        \/ \E i \in DOMAIN firings : firings[i].rule = t.rule /\ firings[i].event = t.event
    BY <1>12 DEF EveryAwardRecorded, AtWork
  <2>2. CASE AtWork(t.event, t.rule)
    BY <1>1, <1>2, <1>10, <1>15, <2>2, AtWorkReplaced DEF GamInv
  <2> QED
    BY <1>12, <2>1, <2>2 DEF GamInv, EveryAwardRecorded
<1> QED
  BY <1>16, <1>17, <1>18, <1>19, <1>20 DEF GamInv

LEMMA ApplyTransactionKeeps ==
  ASSUME GamInv, NEW w \in Workers, ApplyTransaction(w)
  PROVE  GamInv'
<1>1. stack[w] # <<>> /\ Top(w).todo # {} /\ Top(w).at = "wallet"
  BY DEF ApplyTransaction, Working
<1>2. PICK p \in Frame : p = Top(w)
  BY <1>1, WorkingTop
<1>3. FrameOK(w, p) /\ Min(p.todo) = Current(w) /\ Current(w) \in RuleIds /\ Current(w) \in p.todo
  BY <1>1, <1>2, WorkingTop DEF Current
<1> DEFINE c == EffectOf(p).code
           delta == EffectOf(p).delta
           row == [event |-> p.event, rule |-> Current(w), code |-> c, delta |-> delta]
<1>4. CurrentEffect(w) = EffectOf(p)
  BY <1>2 DEF CurrentEffect, CurrentRule, Current, EffectOf
<1>5. /\ p.effect <= Len(Rules[Min(p.todo)].effects) /\ EffectOf(p).kind = "AwardCurrency"
  BY <1>1, <1>2, <1>3 DEF FrameOK, Inside
<1>6. c \in Currencies /\ delta \in Nat
  BY <1>1, <1>2, <1>5, EffectTyped
<1>7. /\ \A t \in ledger : ~(t.event = p.event /\ t.rule = Current(w))
      /\ p.exists \/ c \notin DOMAIN balance
  BY <1>2, <1>4 DEF ApplyTransaction, Duplicate, RowAppeared
<1>8. /\ ledger' = ledger \cup {row}
      /\ balance' = [d \in DOMAIN balance \cup {c} |-> IF d = c THEN p.read + delta ELSE balance[d]]
      /\ rowLock' = Unlocked(w)
      /\ UNCHANGED <<clock, events, firings, awards, revoked, done>>
  BY <1>2, <1>4 DEF ApplyTransaction
<1>9. PICK g \in Frame : /\ g.event = p.event /\ g.began = p.began /\ g.todo = p.todo /\ g.at = "effects"
                         /\ stack' = WithTop(w, g)
  <2>1. stack' = WithTop(w, NextEffect(p))
    BY <1>2 DEF ApplyTransaction
  <2> QED
    BY <1>1, <1>2, <2>1, FrameMoves
<1>10. row.event = p.event /\ row.rule = Current(w) /\ row.code = c /\ row.delta = delta
  OBVIOUS
<1>11. row \notin ledger
  BY <1>7, <1>10
<1>12. row \in [event : DOMAIN events, rule : RuleIds, code : Currencies, delta : Nat]
  BY <1>3, <1>6 DEF FrameOK, Placed, GamInv, GamTypeOK
\* What was read is the balance, or there is none.
<1>13. /\ p.exists => /\ c \in DOMAIN balance /\ c \in DOMAIN rowLock /\ rowLock[c] = w
                      /\ p.read = balance[c]
       /\ ~p.exists => p.read = 0
  BY <1>1, <1>2, <1>3 DEF FrameOK, Reads
<1>14. p.read = Balance(c) /\ p.read \in Nat
  <2>1. p.read \in Nat
    BY DEF Frame
  <2> QED
    BY <1>7, <1>13, <2>1 DEF Balance
<1> HIDE DEF row, c, delta
<1>15. FrameOK(w, g)'
  <2>1. FrameOK(w, g)
    BY <1>1, <1>2, <1>3, <1>9, EffectsFit
  <2>2. Placed(g)' /\ Inside(g)' /\ Reads(w, g)'
    BY <1>8, <1>9, <2>1 DEF FrameOK, Placed, Inside, Reads
  <2>3. Gated(g)'
    BY <1>8, <2>1 DEF FrameOK, Gated, Before, FiringsOf, InWindow
  <2>4. Fresh(g)'
    BY <1>3, <1>8, <1>9, <1>10, <2>1 DEF FrameOK, Fresh
  <2> QED
    BY <2>2, <2>3, <2>4 DEF FrameOK
<1>16. ASSUME NEW v \in Workers, NEW h \in Frame, h.event # Top(w).event, v = w => h.at = "effects", FrameOK(v, h)
       PROVE  FrameOK(v, h)'
  <2>1. Placed(h)' /\ Inside(h)' /\ Gated(h)'
    BY <1>8, <1>16 DEF FrameOK, Placed, Inside, Gated, EffectOf, Before, FiringsOf, InWindow
  <2>2. Fresh(h)'
    BY <1>2, <1>8, <1>10, <1>16 DEF FrameOK, Fresh
  <2>3. Reads(v, h)'
    <3>1. SUFFICES ASSUME h.at = "wallet" PROVE Reads(v, h)'
      BY DEF Reads
    <3>2. v # w
      BY <1>16, <3>1
    <3>3. CASE h.exists
      <4> DEFINE d == EffectOf(h).code
      <4>1. /\ d \in DOMAIN balance /\ d \in DOMAIN rowLock /\ rowLock[d] = v /\ h.read = balance[d]
        BY <1>16, <3>1, <3>3 DEF FrameOK, Reads
      <4>2. d # c
        BY <1>7, <1>13, <3>2, <4>1
      <4>3. d \in DOMAIN rowLock' /\ rowLock'[d] = v
        BY <1>8, <3>2, <4>1 DEF Unlocked
      <4>4. d \in DOMAIN balance' /\ balance'[d] = balance[d]
        BY <1>8, <4>1, <4>2
      <4> QED
        BY <3>3, <4>1, <4>3, <4>4 DEF Reads, EffectOf
    <3>4. CASE ~h.exists
      BY <1>16, <3>1, <3>4 DEF FrameOK, Reads
    <3> QED
      BY <3>3, <3>4
  <2> QED
    BY <2>1, <2>2, <2>3 DEF FrameOK
<1>17. PICK st : st = WithTop(w, g) /\ stack' = st
  BY <1>9
<1>18. GamTypeOK'
  <2>1. stack' \in [Workers -> Seq(Frame)]
    BY <1>1, <1>17, TopReplaced DEF GamInv
  <2>2. /\ DOMAIN balance' \subseteq Currencies /\ DOMAIN balance \subseteq DOMAIN balance'
        /\ \A d \in DOMAIN balance' : balance'[d] \in Nat
    BY <1>6, <1>8, <1>14 DEF GamInv, GamTypeOK
  <2>3. DOMAIN rowLock' \subseteq DOMAIN balance' /\ \A d \in DOMAIN rowLock' : rowLock'[d] \in Workers
    BY <1>8, <2>2 DEF GamInv, GamTypeOK, Unlocked
  <2>4. ledger' \subseteq [event : DOMAIN events', rule : RuleIds, code : Currencies, delta : Nat]
    BY <1>8, <1>12 DEF GamInv, GamTypeOK
  <2> QED
    BY <1>8, <2>1, <2>2, <2>3, <2>4 DEF GamInv, GamTypeOK
<1>19. Frames' /\ Waiting' /\ OwnEvents'
  BY <1>1, <1>2, <1>9, <1>15, <1>16, <1>17, ReplacedFrames DEF GamInv
<1>20. AnnouncedOnce'
  <2>1. \A b \in Badges : Announcing(b)' \subseteq Announcing(b)
    BY <1>1, <1>9, <1>17, NoAnnouncer DEF GamInv
  <2>2. \A b \in Badges : Earned(b)' \subseteq Earned(b) /\ TimesHeld(b)' = TimesHeld(b)
    BY <1>8 DEF Earned, TimesHeld
  <2>3. \A b \in Badges : TimesHeld(b)' >= TimesHeld(b)
    BY <2>2, EarnedTyped DEF GamInv
  <2> QED
    BY <1>18, <2>1, <2>2, <2>3, NoNewAnnouncement DEF GamInv
<1>21. History' /\ LedgerFinite' /\ GatesOutsideOverlap'
  <2>1. LedgerFinite'
    BY <1>8, FS_AddElement DEF GamInv, LedgerFinite
  <2> QED
    BY <1>8, <2>1 DEF GamInv, History, GatesOutsideOverlap, CooldownKept, LimitKept, FiringsOf, InWindow
<1>22. BalanceIsLedger'
  <2> DEFINE Rows(d) == {t \in ledger : t.code = d}
             After(d) == {t \in ledger' : t.code = d}
  <2>1. SUFFICES ASSUME NEW d \in Currencies
                 PROVE  /\ d \in DOMAIN balance' <=> After(d) # {}
                        /\ Balance(d)' = SumOf(After(d))
    BY DEF BalanceIsLedger
  <2>2. (d \in DOMAIN balance <=> Rows(d) # {}) /\ Balance(d) = SumOf(Rows(d))
    BY <2>1 DEF GamInv, BalanceIsLedger
  <2>3. CASE d # c
    <3>1. After(d) = Rows(d)
      BY <1>8, <1>10, <2>3
    <3>2. (d \in DOMAIN balance' <=> d \in DOMAIN balance) /\ Balance(d)' = Balance(d)
      BY <1>8, <2>3 DEF Balance
    <3> QED
      BY <2>2, <3>1, <3>2
  <2>4. CASE d = c
    <3>1. After(d) = Rows(d) \cup {row} /\ row \notin Rows(d)
      BY <1>8, <1>10, <1>11, <2>4
    <3>2. IsFiniteSet(Rows(d)) /\ Deltas(Rows(d))
      <4>1. IsFiniteSet(Rows(d))
        BY FS_Subset DEF GamInv, LedgerFinite
      <4>2. \A t \in ledger : t.delta \in Nat
        BY DEF GamInv, GamTypeOK
      <4> QED
        BY <4>1, <4>2 DEF Deltas
    <3>3. SumOf(Rows(d) \cup {row}) = SumOf(Rows(d)) + row.delta
      <4> HIDE DEF Rows
      <4> QED
        BY <1>6, <1>10, <3>1, <3>2, SumWithOneMore
    <3>4. c \in DOMAIN balance' /\ Balance(c)' = p.read + delta
      BY <1>8 DEF Balance
    <3> HIDE DEF Rows, After
    <3> QED
      BY <1>10, <1>14, <2>2, <2>4, <3>1, <3>3, <3>4
  <2> QED
    BY <2>3, <2>4
<1>23. EveryAwardRecorded'
  <2>1. SUFFICES ASSUME done'.losses = 0, NEW t \in ledger'
                 PROVE  \/ AtWork(t.event, t.rule)'
                        \/ \E i \in DOMAIN firings : firings[i].rule = t.rule /\ firings[i].event = t.event
    BY <1>8 DEF EveryAwardRecorded, AtWork
  <2>2. ASSUME NEW x, NEW r, AtWork(x, r) PROVE AtWork(x, r)'
    BY <1>1, <1>2, <1>9, <1>17, <2>2, AtWorkReplaced DEF GamInv
  <2>3. CASE t \in ledger
    BY <1>8, <2>1, <2>2, <2>3 DEF GamInv, EveryAwardRecorded
  <2>4. CASE t = row
    <3>1. AtWork(p.event, Current(w))
      BY <1>1, <1>2, TopIsFrame DEF GamInv, AtWork, Current
    <3> QED
      BY <1>10, <2>2, <2>4, <3>1
  <2> QED
    BY <1>8, <2>3, <2>4
<1> QED
  BY <1>18, <1>19, <1>20, <1>21, <1>22, <1>23 DEF GamInv

LEMMA RecordKeeps ==
  ASSUME GamInv, NEW w \in Workers, Record(w)
  PROVE  GamInv'
<1>1. stack[w] # <<>> /\ Top(w).todo # {} /\ Top(w).at = "effects"
  BY DEF Record, Working
<1>2. PICK p \in Frame : p = Top(w)
  BY <1>1, WorkingTop
<1>3. FrameOK(w, p) /\ Min(p.todo) = Current(w) /\ Current(w) \in RuleIds /\ CurrentRule(w) \in Rule
  BY <1>1, <1>2, WorkingTop DEF Current
<1> DEFINE n == Len(firings) + 1
           firing == [rule |-> Current(w), event |-> p.event, at |-> clock, began |-> p.began]
<1>4. /\ firings' = Append(firings, firing)
      /\ UNCHANGED <<clock, events, ledger, balance, rowLock, awards, revoked, done>>
  BY <1>2 DEF Record
<1>5. PICK g \in Frame : /\ g.event = p.event /\ g.at = "gate" /\ FrameOK(w, g)
                         /\ stack' = WithTop(w, g)
  <2>1. stack' = WithTop(w, NextRule(p))
    BY <1>2 DEF Record
  <2> QED
    BY <1>1, <1>2, <1>3, <2>1, FrameMoves, NextRuleFits
<1>6. /\ firing.rule = Current(w) /\ firing.event = p.event /\ firing.at = clock /\ firing.began = p.began
  OBVIOUS
<1> DEFINE F == [rule : RuleIds, event : DOMAIN events, at : 0 .. MaxClock, began : Nat]
<1>7. firing \in F
  <2>1. p.event \in DOMAIN events /\ p.began \in Nat /\ clock \in 0 .. MaxClock
    BY <1>3 DEF FrameOK, Placed, Frame, GamInv, GamTypeOK
  <2> QED
    BY <1>3, <2>1
<1> HIDE DEF firing
<1>8. /\ firings' \in Seq(F) /\ DOMAIN firings' = DOMAIN firings \cup {n}
      /\ DOMAIN firings = 1 .. Len(firings) /\ Len(firings) \in Nat
      /\ \A i \in DOMAIN firings : firings'[i] = firings[i]
      /\ firings'[n] = firing /\ Len(firings') = n
  <2>1. firings \in Seq(F)
    BY DEF GamInv, GamTypeOK
  <2> HIDE DEF F
  <2> QED
    BY <1>4, <1>7, <2>1
<1>9. \A i \in DOMAIN firings : /\ firings[i].began \in Nat /\ firings[i].began < i
                                /\ firings[i].at \in Nat /\ firings[i].at <= clock
  BY BoundsAssumption, FiringTyped DEF GamInv, History
<1>10. p.began \in Nat /\ p.began <= Len(firings)
  BY <1>3 DEF FrameOK, Placed, Frame
\* What was counted up to a call's beginning stays as it is.
<1>11. ASSUME NEW r, NEW m \in Nat, m <= Len(firings), NEW t
       PROVE  Before(r, m, t)' = Before(r, m, t)
              /\ \A i : i <= m => (i \in FiringsOf(r)' <=> i \in FiringsOf(r))
  BY <1>8, <1>11 DEF Before, FiringsOf, InWindow
<1>12. ASSUME NEW v \in Workers, NEW h \in Frame, FrameOK(v, h)
       PROVE  FrameOK(v, h)'
  <2>1. h.began \in Nat /\ h.began <= Len(firings)
    BY <1>12 DEF FrameOK, Placed, Frame
  <2>2. Placed(h)' /\ Inside(h)' /\ Reads(v, h)' /\ Fresh(h)'
    BY <1>4, <1>8, <1>12, <2>1 DEF FrameOK, Placed, Inside, Reads, Fresh, EffectOf
  <2>3. ASSUME h.todo # {}, h.at # "gate", NEW r, r = Min(h.todo)
        PROVE  /\ \A i \in FiringsOf(r)' : i <= h.began => (clock - firings[i].at)' >= Rules[r].cooldown
               /\ Rules[r].limit > 0 => Cardinality(Before(r, h.began, clock)') < Rules[r].limit
    <3>1. /\ \A i \in FiringsOf(r) : i <= h.began => clock - firings[i].at >= Rules[r].cooldown
          /\ Rules[r].limit > 0 => Cardinality(Before(r, h.began, clock)) < Rules[r].limit
      BY <1>12, <2>3 DEF FrameOK, Gated
    <3>2. PICK t : t = clock
      OBVIOUS
    <3>3. Before(r, h.began, t)' = Before(r, h.began, t)
      BY <1>11, <2>1
    <3>4. Before(r, h.began, clock)' = Before(r, h.began, clock)
      BY <1>4, <3>2, <3>3
    <3>5. ASSUME NEW i \in FiringsOf(r)', i <= h.began PROVE (clock - firings[i].at)' >= Rules[r].cooldown
      <4>1. i \in FiringsOf(r)
        BY <1>11, <2>1, <3>5
      <4>2. firings'[i] = firings[i]
        BY <1>8, <4>1 DEF FiringsOf
      <4> QED
        BY <1>4, <3>1, <3>5, <4>1, <4>2
    <3> QED
      BY <3>1, <3>4, <3>5
  <2>4. Gated(h)'
    BY <2>3 DEF Gated
  <2> QED
    BY <2>2, <2>4 DEF FrameOK
<1>13. PICK st : st = WithTop(w, g) /\ stack' = st
  BY <1>5
<1>14. GamTypeOK'
  <2>1. stack' \in [Workers -> Seq(Frame)]
    BY <1>1, <1>13, TopReplaced DEF GamInv
  <2> QED
    BY <1>4, <1>8, <2>1 DEF GamInv, GamTypeOK
<1>15. Frames' /\ Waiting' /\ OwnEvents'
  <2>1. FrameOK(w, g)'
    BY <1>5, <1>12
  <2> QED
    BY <1>1, <1>2, <1>5, <1>12, <1>13, <2>1, ReplacedFrames DEF GamInv
<1>16. AnnouncedOnce'
  <2>1. \A b \in Badges : Announcing(b)' \subseteq Announcing(b)
    BY <1>1, <1>5, <1>13, NoAnnouncer DEF GamInv
  <2>2. \A b \in Badges : Earned(b)' \subseteq Earned(b) /\ TimesHeld(b)' = TimesHeld(b)
    BY <1>4 DEF Earned, TimesHeld
  <2>3. \A b \in Badges : TimesHeld(b)' >= TimesHeld(b)
    BY <2>2, EarnedTyped DEF GamInv
  <2> QED
    BY <1>14, <2>1, <2>2, <2>3, NoNewAnnouncement DEF GamInv
<1>17. History'
  <2>1. clock \in Nat
    BY BoundsAssumption DEF GamInv, GamTypeOK
  <2> QED
    BY <1>4, <1>6, <1>8, <1>9, <1>10, <2>1 DEF History
<1>18. LedgerFinite' /\ BalanceIsLedger'
  BY <1>4 DEF GamInv, LedgerFinite, BalanceIsLedger, Balance
<1>19. Gated(p) /\ p.at # "gate" /\ p.todo # {}
  BY <1>1, <1>2, <1>3 DEF FrameOK
<1>20. CooldownKept'
  <2>1. SUFFICES ASSUME NEW i \in DOMAIN firings', NEW j \in DOMAIN firings',
                        firings'[i].rule = firings'[j].rule, i <= firings'[j].began
                 PROVE  firings'[j].at - firings'[i].at >= Rules[firings'[i].rule].cooldown
    BY DEF CooldownKept
  <2>2. CASE j # n
    <3>1. j \in DOMAIN firings /\ i \in DOMAIN firings
      BY <1>8, <1>9, <2>1, <2>2
    <3> QED
      BY <1>8, <2>1, <3>1 DEF GamInv, GatesOutsideOverlap, CooldownKept
  <2>3. CASE j = n
    <3>1. firings'[j] = firing
      BY <1>8, <2>3
    <3>2. i <= p.began /\ i \in DOMAIN firings
      BY <1>6, <1>8, <1>10, <2>1, <3>1
    <3>3. firings'[i] = firings[i] /\ i \in FiringsOf(Current(w))
      BY <1>6, <1>8, <2>1, <3>1, <3>2 DEF FiringsOf
    <3>4. clock - firings[i].at >= Rules[Current(w)].cooldown
      BY <1>3, <1>19, <3>2, <3>3 DEF Gated
    <3> QED
      BY <1>6, <2>1, <3>1, <3>3, <3>4
  <2> QED
    BY <2>2, <2>3
<1>21. LimitKept'
  <2>1. SUFFICES ASSUME NEW j \in DOMAIN firings', NEW r, r = firings'[j].rule, Rules[r].limit > 0,
                        NEW m, m = firings'[j].began, NEW t, t = firings'[j].at
                 PROVE  Cardinality(Before(r, m, t)') < Rules[r].limit
    BY DEF LimitKept, Before
  <2>2. CASE j # n
    <3>1. j \in DOMAIN firings /\ firings'[j] = firings[j]
      BY <1>8, <2>2
    <3>2. m \in Nat /\ m <= Len(firings)
      BY <1>8, <1>9, <2>1, <3>1
    <3>3. Cardinality(Before(r, m, t)) < Rules[r].limit
      BY <2>1, <3>1 DEF GamInv, GatesOutsideOverlap, LimitKept, Before
    <3> QED
      BY <1>11, <3>2, <3>3
  <2>3. CASE j = n
    <3>1. r = Current(w) /\ m = p.began /\ t = clock
      BY <1>6, <1>8, <2>1, <2>3
    <3>2. Cardinality(Before(r, m, t)) < Rules[r].limit
      BY <1>3, <1>19, <2>1, <3>1 DEF Gated
    <3> QED
      BY <1>10, <1>11, <3>1, <3>2
  <2> QED
    BY <2>2, <2>3
<1>22. EveryAwardRecorded'
  <2>1. SUFFICES ASSUME done'.losses = 0, NEW t \in ledger
                 PROVE  \/ AtWork(t.event, t.rule)'
                        \/ \E i \in DOMAIN firings' : firings'[i].rule = t.rule /\ firings'[i].event = t.event
    BY <1>4 DEF EveryAwardRecorded, AtWork
  <2>2. CASE t.event = p.event /\ t.rule = Current(w)
    BY <1>6, <1>8, <2>2
  <2>3. CASE AtWork(t.event, t.rule) /\ ~(t.event = p.event /\ t.rule = Current(w))
    BY <1>1, <1>2, <1>5, <1>13, <2>3, AtWorkReplaced DEF GamInv
  <2>4. CASE \E i \in DOMAIN firings : firings[i].rule = t.rule /\ firings[i].event = t.event
    BY <1>8, <2>4
  <2> QED
    BY <1>4, <2>1, <2>2, <2>3, <2>4 DEF GamInv, EveryAwardRecorded
<1> QED
  BY <1>14, <1>15, <1>16, <1>17, <1>18, <1>20, <1>21, <1>22 DEF GamInv, GatesOutsideOverlap

-----------------------------------------------------------------------------
LEMMA GamInitially == GamInit => GamInv
<1> SUFFICES ASSUME GamInit PROVE GamInv
  OBVIOUS
<1>1. /\ clock = 0 /\ events = <<>> /\ firings = <<>> /\ ledger = {} /\ balance = <<>> /\ rowLock = <<>>
      /\ awards = {} /\ stack = [w \in Workers |-> <<>>] /\ revoked = [b \in Badges |-> 0]
      /\ done = [activities |-> 0, byHand |-> 0, failures |-> 0, losses |-> 0]
  BY DEF GamInit
<1>2. /\ MaxClock \in Nat /\ MaxActivities \in Nat /\ MaxUpsets \in Nat
  BY BoundsAssumption
<1>3. DOMAIN balance = {} /\ DOMAIN rowLock = {} /\ DOMAIN events = {} /\ DOMAIN firings = {}
      /\ \A w \in Workers : DOMAIN stack[w] = {}
  BY <1>1
<1>4. GamTypeOK
  <2>1. events \in Seq(EventSet)
    BY <1>1
  <2>2. firings \in Seq([rule : RuleIds, event : DOMAIN events, at : 0 .. MaxClock, began : Nat])
    BY <1>1
  <2>3. stack \in [Workers -> Seq(Frame)]
    BY <1>1
  <2>4. revoked \in [Badges -> Nat] /\ clock \in 0 .. MaxClock
    BY <1>1, <1>2
  <2>5. done \in [activities : 0 .. MaxActivities, byHand : 0 .. MaxUpsets,
                  failures : 0 .. MaxUpsets, losses : 0 .. MaxUpsets]
    BY <1>1, <1>2
  <2> QED
    BY <1>1, <1>3, <2>1, <2>2, <2>3, <2>4, <2>5 DEF GamTypeOK, EventSet
<1>5. Frames /\ Waiting /\ OwnEvents /\ History
  BY <1>3 DEF Frames, Waiting, OwnEvents, History
<1>6. AnnouncedOnce
  <2>1. SUFFICES ASSUME NEW b \in Badges
                 PROVE  Cardinality(Earned(b)) + Cardinality(Announcing(b)) <= TimesHeld(b)
    BY DEF AnnouncedOnce
  <2>2. Earned(b) = {} /\ Announcing(b) = {}
    BY <1>3 DEF Earned, Announcing, Announces
  <2>3. Cardinality(Earned(b)) = 0 /\ Cardinality(Announcing(b)) = 0
    BY <2>2, FS_EmptySet
  <2> QED
    BY <1>4, <2>3, EarnedTyped
<1>7. LedgerFinite
  BY <1>1, FS_EmptySet DEF LedgerFinite
<1>8. BalanceIsLedger
  <2>1. \A c \in Currencies : {t \in ledger : t.code = c} = {} /\ Balance(c) = 0 /\ c \notin DOMAIN balance
    BY <1>1, <1>3 DEF Balance
  <2> QED
    BY <2>1, SumOfNone DEF BalanceIsLedger
<1>9. GatesOutsideOverlap
  BY <1>3 DEF GatesOutsideOverlap, CooldownKept, LimitKept
<1>10. EveryAwardRecorded
  BY <1>1 DEF EveryAwardRecorded
<1> QED
  BY <1>4, <1>5, <1>6, <1>7, <1>8, <1>9, <1>10 DEF GamInv

LEMMA GamIdles ==
  ASSUME GamInv, UNCHANGED gamVars
  PROVE  GamInv'
<1>1. UNCHANGED <<clock, events, firings, ledger, balance, rowLock, awards, stack, revoked, done>>
  BY DEF gamVars
<1>2. GamTypeOK'
  BY <1>1 DEF GamInv, GamTypeOK
<1>3. Frames' /\ Waiting' /\ OwnEvents'
  BY <1>1, StillFits, SameFrames DEF GamInv
<1>4. AnnouncedOnce'
  BY <1>1 DEF GamInv, AnnouncedOnce, Earned, Announcing, Announces, TimesHeld, EffectOf
<1>5. History' /\ LedgerFinite' /\ BalanceIsLedger' /\ GatesOutsideOverlap'
  BY <1>1, TablesKept
<1>6. EveryAwardRecorded'
  BY <1>1 DEF GamInv, EveryAwardRecorded, AtWork
<1> QED
  BY <1>2, <1>3, <1>4, <1>5, <1>6 DEF GamInv

(***************************************************************************)
(* The invariant holds for ever, with any workers, rules and bounds.       *)
(***************************************************************************)
THEOREM GamInvariance == GamSpec => []GamInv
<1>1. GamInv /\ [GamNext]_gamVars => GamInv'
  <2>1. SUFFICES ASSUME GamInv, GamNext PROVE GamInv'
    BY GamIdles
  <2>2. ASSUME NEW w \in Workers, Emit(w) \/ WorkerStep(w) \/ StatementFails(w) PROVE GamInv'
    BY <2>1, <2>2, EmitKeeps, CheckCooldownKeeps, EvaluateKeeps, LockBalanceKeeps, NoAwardKeeps,
       ApplyTransactionKeeps, AwardBadgeKeeps, EmitBadgeEarnedKeeps, RecordKeeps, ReturnKeeps,
       StatementFailsKeeps DEF WorkerStep
  <2>3. ASSUME NEW b \in Badges, AwardToUser(b) \/ Revoke(b) PROVE GamInv'
    BY <2>1, <2>3, AwardToUserKeeps, RevokeKeeps
  <2>4. CASE ServerDies
    BY <2>1, <2>4, ServerDiesKeeps
  <2>5. CASE ClockTicks
    BY <2>1, <2>5, ClockTicksKeeps
  <2> QED
    BY <2>1, <2>2, <2>3, <2>4, <2>5 DEF GamNext
<1> QED
  BY <1>1, GamInitially, PTL DEF GamSpec

(***************************************************************************)
(* Rows, locks and calls under way keep their types: every effect at work  *)
(* is an effect of a rule, every row names an event there is.              *)
(***************************************************************************)
THEOREM GamTyped == GamSpec => []GamTypeOK
<1>1. GamInv => GamTypeOK
  BY DEF GamInv
<1> QED
  BY <1>1, GamInvariance, PTL

(***************************************************************************)
(* ApplyTransaction, which reads a balance and writes it back, keeps each  *)
(* balance the sum of its ledger, whatever awards overlap, fail or die.    *)
(***************************************************************************)
THEOREM BalanceKept == GamSpec => []BalanceIsLedger
<1>1. GamInv => BalanceIsLedger
  BY DEF GamInv
<1> QED
  BY <1>1, GamInvariance, PTL

(***************************************************************************)
(* badge.earned is emitted at most once for each time a badge came to be   *)
(* held, however deep AwardBadge and EmitBadgeEarned recurse.              *)
(***************************************************************************)
THEOREM AnnouncedPerAward == GamSpec => []ChainPerAward
<1>1. GamInv => ChainPerAward
  <2>1. SUFFICES ASSUME GamInv, NEW b \in Badges
                 PROVE  Cardinality(Earned(b)) <= TimesHeld(b)
    BY DEF ChainPerAward, Earned, TimesHeld
  <2>2. Cardinality(Earned(b)) + Cardinality(Announcing(b)) <= TimesHeld(b)
    BY <2>1 DEF GamInv, AnnouncedOnce
  <2> QED
    BY <2>1, <2>2, EarnedTyped DEF GamInv
<1> QED
  BY <1>1, GamInvariance, PTL

(***************************************************************************)
(* CheckCooldown, which reads before the effects what recordEvaluation     *)
(* writes after them, holds between emits that do not overlap.             *)
(***************************************************************************)
THEOREM GatesHold == GamSpec => []GatesOutsideOverlap
<1>1. GamInv => GatesOutsideOverlap
  BY DEF GamInv
<1> QED
  BY <1>1, GamInvariance, PTL

(***************************************************************************)
(* No award without its evaluation, also after a failed effect, unless an  *)
(* emit broke off.                                                         *)
(***************************************************************************)
THEOREM AwardsRecorded == GamSpec => []EveryAwardRecorded
<1>1. GamInv => EveryAwardRecorded
  BY DEF GamInv
<1> QED
  BY <1>1, GamInvariance, PTL

-----------------------------------------------------------------------------
(***************************************************************************)
(* The rewards implemented: what Rewards keeps, of the tables there are.   *)
(***************************************************************************)
Balances == [c \in Currencies |-> Balance(c)]
Times == [b \in Badges |-> TimesHeld(b)]
Told == [b \in Badges |-> Cardinality(Earned(b))]
Given == <<ledger, Balances, awards, Times, Told>>

\* Calls, locks, evaluations and time give nothing.
LEMMA NothingGiven ==
  ASSUME UNCHANGED <<events, ledger, balance, awards, revoked>>
  PROVE  UNCHANGED Given
BY DEF Given, Balances, Balance, Times, TimesHeld, Told, Earned

\* What a learner does is an event, and no announcement.
LEMMA EmitGivesNothing ==
  ASSUME GamInv, NEW w \in Workers, Emit(w)
  PROVE  UNCHANGED Given
<1> DEFINE e == [on |-> "completed"]
<1>1. e \in EventSet /\ e.on = "completed" /\ events' = Append(events, e)
  BY DEF EventSet, Emit
<1> HIDE DEF e
<1>2. \A b : Earned(b)' = Earned(b)
  BY <1>1, EventsGrow DEF Earned, GamInv
<1> QED
  BY <1>2 DEF Emit, Given, Balances, Balance, Times, TimesHeld, Told

\* The wallet's transaction moves one balance, by the row it inserts, as it
\* read what is there.
LEMMA WalletAwards ==
  ASSUME GamInv, NEW w \in Workers, ApplyTransaction(w)
  PROVE  \E t \in ledger' \ ledger : Reward!Award(t)
<1>1. stack[w] # <<>> /\ Top(w).todo # {} /\ Top(w).at = "wallet"
  BY DEF ApplyTransaction, Working
<1>2. PICK p \in Frame : p = Top(w)
  BY <1>1, WorkingTop
<1>3. FrameOK(w, p) /\ Min(p.todo) = Current(w)
  BY <1>1, <1>2, WorkingTop DEF Current
<1> DEFINE c == EffectOf(p).code
           delta == EffectOf(p).delta
           row == [event |-> p.event, rule |-> Current(w), code |-> c, delta |-> delta]
<1>4. CurrentEffect(w) = EffectOf(p)
  BY <1>2 DEF CurrentEffect, CurrentRule, Current, EffectOf
<1>5. c \in Currencies /\ delta \in Nat /\ delta > 0
  BY <1>1, <1>2, <1>3, EffectTyped DEF FrameOK, Inside
<1>6. /\ \A o \in ledger : o.event # p.event \/ o.rule # Current(w)
      /\ p.exists \/ c \notin DOMAIN balance
  BY <1>2, <1>4 DEF ApplyTransaction, Duplicate, RowAppeared
<1>7. /\ ledger' = ledger \cup {row}
      /\ balance' = [d \in DOMAIN balance \cup {c} |-> IF d = c THEN p.read + delta ELSE balance[d]]
      /\ UNCHANGED <<events, awards, revoked>>
  BY <1>2, <1>4 DEF ApplyTransaction
<1>8. row.event = p.event /\ row.rule = Current(w) /\ row.code = c /\ row.delta = delta
  OBVIOUS
<1>9. p.read = Balance(c)
  <2>1. (p.exists => c \in DOMAIN balance /\ p.read = balance[c]) /\ (~p.exists => p.read = 0)
    BY <1>1, <1>2, <1>3 DEF FrameOK, Reads
  <2> QED
    BY <1>6, <2>1 DEF Balance
<1> HIDE DEF row, c, delta
<1>10. row \in ledger' \ ledger
  BY <1>6, <1>7, <1>8
<1>11. Balances' = [Balances EXCEPT ![c] = @ + delta]
  <2>1. \A d \in Currencies : Balance(d)' = IF d = c THEN Balance(c) + delta ELSE Balance(d)
    BY <1>7, <1>9 DEF Balance
  <2> QED
    BY <1>5, <2>1 DEF Balances
<1>12. UNCHANGED <<awards, Times, Told>>
  BY <1>7 DEF Times, TimesHeld, Told, Earned
<1>13. Reward!Award(row)
  BY <1>5, <1>6, <1>7, <1>8, <1>11, <1>12 DEF Reward!Award, Balances, Times, Told
<1> QED
  BY <1>10, <1>13

\* An award of a badge, by a rule or by hand, is new or nothing.
LEMMA AwardGives ==
  ASSUME GamInv, NEW b \in Badges, awards' = awards \cup {b},
         UNCHANGED <<events, ledger, balance, revoked>>
  PROVE  Reward!Give(b) \/ UNCHANGED Given
<1>1. CASE b \in awards
  <2>1. awards' = awards
    BY <1>1
  <2> QED
    BY <2>1, NothingGiven
<1>2. CASE b \notin awards
  <2>1. revoked \in [Badges -> Nat]
    BY DEF GamInv, GamTypeOK
  <2>2. \A o \in Badges : TimesHeld(o)' = IF o = b THEN TimesHeld(b) + 1 ELSE TimesHeld(o)
    BY <1>2, <2>1 DEF TimesHeld
  <2>3. Times' = [Times EXCEPT ![b] = @ + 1]
    BY <2>2 DEF Times
  <2>4. UNCHANGED <<ledger, Balances, Told>>
    BY DEF Balances, Balance, Told, Earned
  <2> QED
    BY <1>2, <2>3, <2>4 DEF Reward!Give, Balances, Times, Told
<1> QED
  BY <1>1, <1>2

\* A badge revoked was held once.
LEMMA RevokeTakesBack ==
  ASSUME GamInv, NEW b \in Badges, Revoke(b)
  PROVE  Reward!TakeBack(b)
<1>1. /\ revoked \in [Badges -> Nat] /\ b \in awards /\ awards' = awards \ {b}
      /\ revoked' = [revoked EXCEPT ![b] = @ + 1] /\ UNCHANGED <<events, ledger, balance>>
  BY DEF GamInv, GamTypeOK, Revoke
<1>2. \A o \in Badges : TimesHeld(o)' = TimesHeld(o)
  BY <1>1 DEF TimesHeld
<1>3. UNCHANGED <<ledger, Balances, Times, Told>>
  BY <1>1, <1>2 DEF Balances, Balance, Times, Told, Earned
<1> QED
  BY <1>1, <1>3 DEF Reward!TakeBack, Balances, Times, Told

\* badge.earned announces a badge that came to be held once more than it was
\* announced.
LEMMA BadgeEarnedAnnounces ==
  ASSUME GamInv, NEW w \in Workers, EmitBadgeEarned(w)
  PROVE  \E b \in Badges : Reward!Announce(b)
<1>1. stack[w] # <<>> /\ Top(w).todo # {} /\ Top(w).at = "chain"
  BY DEF EmitBadgeEarned, Working
<1>2. PICK p \in Frame : p = Top(w)
  BY <1>1, WorkingTop
<1>3. FrameOK(w, p)
  BY <1>1, <1>2, WorkingTop
<1> DEFINE bdg == EffectOf(p).code
           e == [on |-> "earned", badge |-> bdg]
<1>4. bdg \in Badges /\ e \in EventSet
  <2>1. p.effect <= Len(Rules[Min(p.todo)].effects) /\ EffectOf(p).kind = "AwardBadge"
    BY <1>1, <1>2, <1>3 DEF FrameOK, Inside
  <2>2. bdg \in Badges
    BY <1>1, <1>2, <2>1, EffectTyped
  <2> QED
    BY <2>2 DEF EventSet
<1>5. events' = Append(events, e) /\ e.on = "earned" /\ e.badge = bdg
  BY <1>2 DEF EmitBadgeEarned, CurrentEffect, CurrentRule, Current, EffectOf
<1>6. UNCHANGED <<ledger, balance, awards, revoked>>
  BY DEF EmitBadgeEarned
<1>7. Announces(w, bdg)
  <2>1. Top(w) = stack[w][Len(stack[w])] /\ Len(stack[w]) \in DOMAIN stack[w]
    BY <1>1, TopIsFrame DEF GamInv
  <2> QED
    BY <1>1, <1>2, <2>1 DEF Announces
<1> HIDE DEF bdg, e
<1>8. \A b \in Badges : IsFiniteSet(Earned(b)) /\ Cardinality(Earned(b)) \in Nat
  BY EarnedTyped DEF GamInv
<1>9. Cardinality(Earned(bdg)) < TimesHeld(bdg)
  <2>1. /\ Cardinality(Earned(bdg)) + Cardinality(Announcing(bdg)) <= TimesHeld(bdg)
        /\ IsFiniteSet(Announcing(bdg)) /\ Cardinality(Announcing(bdg)) \in Nat
        /\ TimesHeld(bdg) \in Nat
    BY <1>4, EarnedTyped DEF GamInv, AnnouncedOnce
  <2>2. Announcing(bdg) # {}
    BY <1>7 DEF Announcing
  <2>3. Cardinality(Announcing(bdg)) # 0
    BY <2>1, <2>2, FS_EmptySet
  <2> QED
    BY <1>4, <1>8, <2>1, <2>3
<1>10. /\ Earned(bdg)' = Earned(bdg) \cup {Len(events) + 1} /\ Len(events) + 1 \notin Earned(bdg)
       /\ \A b \in Badges \ {bdg} : Earned(b)' = Earned(b)
  BY <1>4, <1>5, EventsGrow DEF Earned, GamInv
<1>11. Cardinality(Earned(bdg)') = Cardinality(Earned(bdg)) + 1
  <2>1. IsFiniteSet(Earned(bdg)) /\ Len(events) + 1 \notin Earned(bdg)
    BY <1>4, <1>8, <1>10
  <2>2. Cardinality(Earned(bdg) \cup {Len(events) + 1}) = Cardinality(Earned(bdg)) + 1
    BY <2>1, FS_AddElement
  <2> QED
    BY <1>10, <2>2
<1>12. Told' = [Told EXCEPT ![bdg] = @ + 1]
  BY <1>4, <1>10, <1>11 DEF Told
<1>13. UNCHANGED <<ledger, Balances, awards, Times>>
  BY <1>6 DEF Balances, Balance, Times, TimesHeld
<1>14. Told[bdg] < Times[bdg]
  BY <1>4, <1>9 DEF Told, Times
<1> QED
  BY <1>4, <1>12, <1>13, <1>14 DEF Reward!Announce, Balances, Times, Told

\* Every statement gives one reward, or none.
LEMMA RewardStep == GamInv /\ [GamNext]_gamVars => [Reward!Next]_Given
<1> SUFFICES ASSUME GamInv, [GamNext]_gamVars PROVE Reward!Next \/ UNCHANGED Given
  OBVIOUS
<1>1. ASSUME NEW w \in Workers,
             \/ CheckCooldown(w) \/ Evaluate(w) \/ LockBalance(w) \/ NoAward(w)
             \/ Record(w) \/ Return(w) \/ StatementFails(w)
      PROVE  UNCHANGED Given
  <2>1. UNCHANGED <<events, ledger, balance, awards, revoked>>
    BY <1>1 DEF CheckCooldown, Evaluate, LockBalance, NoAward, Record, Return, StatementFails
  <2> QED
    BY <2>1, NothingGiven
<1>2. ASSUME NEW w \in Workers, AwardBadge(w) PROVE Reward!Next \/ UNCHANGED Given
  <2>1. stack[w] # <<>> /\ Top(w).todo # {} /\ EffectsLeft(w) /\ CurrentEffect(w).kind = "AwardBadge"
    BY <1>2 DEF AwardBadge, Working
  <2>2. CurrentEffect(w) = EffectOf(Top(w)) /\ Top(w) \in Frame
    BY <2>1, WorkingTop DEF CurrentEffect, CurrentRule, Current, EffectOf
  <2>3. CurrentEffect(w).code \in Badges
    BY <2>1, <2>2, EffectTyped DEF EffectsLeft, CurrentRule, Current
  <2>4. awards' = awards \cup {CurrentEffect(w).code} /\ UNCHANGED <<events, ledger, balance, revoked>>
    BY <1>2 DEF AwardBadge
  <2> QED
    BY <2>3, <2>4, AwardGives DEF Reward!Next
<1>3. ASSUME NEW w \in Workers, EmitBadgeEarned(w) PROVE Reward!Next
  BY <1>3, BadgeEarnedAnnounces DEF Reward!Next
<1>4. ASSUME NEW w \in Workers, ApplyTransaction(w) PROVE Reward!Next
  BY <1>4, WalletAwards DEF Reward!Next
<1>5. ASSUME NEW b \in Badges, AwardToUser(b) \/ Revoke(b) PROVE Reward!Next \/ UNCHANGED Given
  <2>1. AwardToUser(b) => awards' = awards \cup {b} /\ UNCHANGED <<events, ledger, balance, revoked>>
    BY DEF AwardToUser
  <2> QED
    BY <1>5, <2>1, AwardGives, RevokeTakesBack DEF Reward!Next
<1>6. CASE ServerDies \/ ClockTicks \/ UNCHANGED gamVars
  <2>1. UNCHANGED <<events, ledger, balance, awards, revoked>>
    BY <1>6 DEF ServerDies, ClockTicks, gamVars
  <2> QED
    BY <2>1, NothingGiven
<1>7. ASSUME NEW w \in Workers, Emit(w) PROVE UNCHANGED Given
  BY <1>7, EmitGivesNothing
<1> QED
  BY <1>1, <1>2, <1>3, <1>4, <1>5, <1>6, <1>7 DEF GamNext, WorkerStep

(***************************************************************************)
(* Emits that overlap, fail or die implement rewards given in one step:    *)
(* once for each event and rule, each announced once at most.              *)
(***************************************************************************)
THEOREM RewardsGiven == GamSpec => ImplementsRewards
<1>1. GamInit => Reward!Init
  <2> SUFFICES ASSUME GamInit PROVE Reward!Init
    OBVIOUS
  <2>1. /\ ledger = {} /\ awards = {} /\ DOMAIN balance = {} /\ DOMAIN events = {}
        /\ revoked = [b \in Badges |-> 0]
    BY DEF GamInit
  <2>2. \A c \in Currencies : Balance(c) = 0
    BY <2>1 DEF Balance
  <2>3. \A b \in Badges : TimesHeld(b) = 0
    BY <2>1 DEF TimesHeld
  <2>4. \A b \in Badges : Cardinality(Earned(b)) = 0
    <3>1. \A b : Earned(b) = {}
      BY <2>1 DEF Earned
    <3> QED
      BY <3>1, FS_EmptySet
  <2> QED
    BY <2>1, <2>2, <2>3, <2>4 DEF Reward!Init
<1>2. GamInv /\ [GamNext]_gamVars => [Reward!Next]_(Reward!rewardVars)
  BY RewardStep DEF Reward!rewardVars, Given, Balances, Times, Told
<1> QED
  BY <1>1, <1>2, GamInvariance, PTL DEF GamSpec, ImplementsRewards, Reward!Spec
================================================================================
