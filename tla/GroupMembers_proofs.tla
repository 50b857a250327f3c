------------------------- MODULE GroupMembers_proofs --------------------------
(***************************************************************************)
(* For any number of calls, students and teams, any group set and any      *)
(* bounds: types, the room in a team, one team per student, nobody left    *)
(* without a team, leaders, and what planEvenly plans.                     *)
(***************************************************************************)
EXTENDS GroupMembers, Integers, FiniteSetTheorems, WellFoundedInduction, TLAPS

-----------------------------------------------------------------------------
(* Numbers.                                                                *)

LEMMA Least ==
  ASSUME NEW S \in SUBSET Nat, S # {}
  PROVE  /\ Min(S) \in S /\ \A n \in S : Min(S) <= n
<1>1. PICK n \in S : \A m \in S : ~(<<m, n>> \in OpToRel(<, Nat))
  BY NatLessThanWellFounded, WFMin
<1>2. \A m \in S : ~(m < n)
  BY <1>1 DEF OpToRel
<1>3. \A m \in S : n <= m
  BY <1>2
<1> QED
  BY <1>3 DEF Min

LEMMA Greatest ==
  ASSUME NEW n \in Nat, NEW S \in SUBSET (1 .. n), S # {}
  PROVE  /\ Max(S) \in S /\ \A m \in S : Max(S) >= m
<1> DEFINE T == {n - m : m \in S}
<1>1. T \in SUBSET Nat /\ T # {}
  <2>1. \A m \in S : n - m \in Nat
    OBVIOUS
  <2> QED
    BY <2>1
<1>2. Min(T) \in T /\ \A k \in T : Min(T) <= k
  <2> HIDE DEF T
  <2> QED
    BY <1>1, Least
<1>3. PICK m \in S : Min(T) = n - m
  BY <1>2
<1>4. ASSUME NEW k \in S PROVE m >= k
  <2>1. n - k \in T
    OBVIOUS
  <2>2. n - m <= n - k
    BY <1>2, <1>3, <2>1
  <2>3. m \in Nat /\ k \in Nat
    OBVIOUS
  <2> QED
    BY <2>2, <2>3
<1> QED
  BY <1>4 DEF Max

\* What holds of 0 and passes from a number to the next holds up to the last.
LEMMA Upwards ==
  ASSUME NEW n \in Nat, NEW Good \in SUBSET (0 .. n), 0 \in Good,
         \A k \in 0 .. n : k < n /\ k \in Good => k + 1 \in Good
  PROVE  \A k \in 0 .. n : k \in Good
<1> DEFINE Bad == (0 .. n) \ Good
<1>1. SUFFICES ASSUME Bad # {} PROVE FALSE
  OBVIOUS
<1>2. Min(Bad) \in Bad /\ \A k \in Bad : Min(Bad) <= k
  <2>1. Bad \in SUBSET Nat
    OBVIOUS
  <2> HIDE DEF Bad
  <2> QED
    BY <1>1, <2>1, Least
<1>3. Min(Bad) \in 0 .. n /\ Min(Bad) # 0
  BY <1>2
<1>4. Min(Bad) - 1 \in 0 .. n /\ Min(Bad) - 1 \notin Bad
  BY <1>2, <1>3
<1>5. (Min(Bad) - 1) + 1 \in Good
  BY <1>3, <1>4
<1> QED
  BY <1>2, <1>3, <1>5

-----------------------------------------------------------------------------
(***************************************************************************)
(* planEvenly. FoldLeft takes the students one after the other.            *)
(***************************************************************************)
Placing(g, base, order, s) ==
  IF s = {} THEN base ELSE Place(g[s \ {Max(s)}], order[Max(s)])

Places(g, n, base, order) ==
  /\ g = [s \in SUBSET (1 .. n) |-> g[s]]
  /\ \A s \in SUBSET (1 .. n) : g[s] = Placing(g, base, order, s)

LEMMA PlacingExists ==
  ASSUME NEW n \in Nat, NEW base, NEW order
  PROVE  \E g : Places(g, n, base, order)
<1> DEFINE D == 1 .. n
           Upto(k) == \E g : /\ g = [s \in SUBSET D |-> g[s]]
                             /\ \A s \in SUBSET D : Cardinality(s) <= k => g[s] = Placing(g, base, order, s)
           Good == {k \in 0 .. n : Upto(k)}
<1>1. IsFiniteSet(D) /\ Cardinality(D) = n
  BY FS_Interval
<1>2. \A s \in SUBSET D : IsFiniteSet(s) /\ Cardinality(s) \in Nat /\ Cardinality(s) <= n
  BY <1>1, FS_Subset, FS_CardinalityType
<1>3. ASSUME NEW s \in SUBSET D, s # {}
      PROVE  /\ s \ {Max(s)} \in SUBSET D
             /\ Cardinality(s \ {Max(s)}) = Cardinality(s) - 1
  <2>1. Max(s) \in s
    BY <1>3, Greatest
  <2> QED
    BY <1>2, <2>1, FS_RemoveElement
<1>4. Upto(0)
  <2> DEFINE g == [s \in SUBSET D |-> base]
  <2>1. g = [s \in SUBSET D |-> g[s]]
    OBVIOUS
  <2>2. \A s \in SUBSET D : Cardinality(s) <= 0 => s = {}
    BY <1>2, FS_EmptySet
  <2>3. \A s \in SUBSET D : Cardinality(s) <= 0 => g[s] = Placing(g, base, order, s)
    BY <2>2 DEF Placing
  <2> HIDE DEF g
  <2> QED
    BY <2>1, <2>3
<1>5. ASSUME NEW k \in 0 .. n, Upto(k) PROVE Upto(k + 1)
  <2>1. PICK f : /\ f = [s \in SUBSET D |-> f[s]]
                 /\ \A s \in SUBSET D : Cardinality(s) <= k => f[s] = Placing(f, base, order, s)
    BY <1>5
  <2> DEFINE g == [s \in SUBSET D |-> Placing(f, base, order, s)]
  <2>2. g = [s \in SUBSET D |-> g[s]]
    OBVIOUS
  <2>3. ASSUME NEW s \in SUBSET D, Cardinality(s) <= k + 1
        PROVE  g[s] = Placing(g, base, order, s)
    <3>1. CASE s = {}
      BY <3>1 DEF Placing
    <3>2. CASE s # {}
      <4> DEFINE r == s \ {Max(s)}
      <4>1. r \in SUBSET D /\ Cardinality(r) <= k
        BY <1>2, <1>3, <2>3, <3>2
      <4>2. g[r] = f[r]
        BY <2>1, <4>1
      <4>3. g[s] = Place(f[r], order[Max(s)]) /\ Placing(g, base, order, s) = Place(g[r], order[Max(s)])
        BY <3>2 DEF Placing
      <4> QED
        BY <4>2, <4>3
    <3> QED
      BY <3>1, <3>2
  <2> HIDE DEF g
  <2> QED
    BY <2>2, <2>3
<1>6. \A k \in 0 .. n : k \in Good
  <2>1. Good \in SUBSET (0 .. n) /\ 0 \in Good
    <3>1. 0 \in 0 .. n
      OBVIOUS
    <3> HIDE DEF Upto
    <3> QED
      BY <1>4, <3>1
  <2>2. \A k \in 0 .. n : k < n /\ k \in Good => k + 1 \in Good
    <3> SUFFICES ASSUME NEW k \in 0 .. n, k < n, k \in Good PROVE k + 1 \in Good
      OBVIOUS
    <3>1. Upto(k + 1)
      <4>1. Upto(k)
        OBVIOUS
      <4> HIDE DEF Upto
      <4> QED
        BY <1>5, <4>1
    <3>2. k + 1 \in 0 .. n
      OBVIOUS
    <3> HIDE DEF Upto
    <3> QED
      BY <3>1, <3>2
  <2> HIDE DEF Good
  <2> QED
    BY <2>1, <2>2, Upwards
<1>7. Upto(n)
  <2> HIDE DEF Upto
  <2>1. n \in Good
    BY <1>6
  <2> QED
    BY <2>1
<1> QED
  BY <1>2, <1>7 DEF Places

\* After each student: what has been planned so far.
PlacedSo(g, n, base, order) ==
  /\ g[0] = base
  /\ \A k \in 0 .. n : k < n => g[k + 1] = Place(g[k], order[k + 1])
  /\ FoldLeft(Place, base, order) = g[n]

LEMMA PlacedOneByOne ==
  ASSUME NEW n \in Nat, NEW base, NEW order, DOMAIN order = 1 .. n
  PROVE  \E g : PlacedSo(g, n, base, order)
<1>0. \E g : Places(g, n, base, order)
  BY PlacingExists
<1> DEFINE F(g) == [s \in SUBSET (1 .. n) |-> Placing(g, base, order, s)]
           iter == CHOOSE g : g = F(g)
           g0 == [k \in 0 .. n |-> iter[1 .. k]]
<1>1. FoldLeft(Place, base, order) = iter[1 .. n]
  BY DEF FoldLeft, MapThenFoldSet, Placing
<1>2. iter = F(iter)
  <2>1. PICK g : /\ g = [s \in SUBSET (1 .. n) |-> g[s]]
                 /\ \A s \in SUBSET (1 .. n) : g[s] = Placing(g, base, order, s)
    BY <1>0 DEF Places
  <2>2. g = F(g)
    BY <2>1
  <2> HIDE DEF F
  <2> QED
    BY <2>2
<1>3. \A s \in SUBSET (1 .. n) : iter[s] = Placing(iter, base, order, s)
  <2>1. \A s \in SUBSET (1 .. n) : F(iter)[s] = Placing(iter, base, order, s)
    OBVIOUS
  <2> HIDE DEF F, iter
  <2> QED
    BY <1>2, <2>1
<1> HIDE DEF iter
<1>4. g0[0] = base
  <2>1. 1 .. 0 = {} /\ 0 \in 0 .. n
    OBVIOUS
  <2>2. g0[0] = iter[1 .. 0]
    BY <2>1
  <2>3. iter[{}] = base
    BY <1>3 DEF Placing
  <2> QED
    BY <2>1, <2>2, <2>3
<1>5. ASSUME NEW k \in 0 .. n, k < n PROVE g0[k + 1] = Place(g0[k], order[k + 1])
  <2> DEFINE s == 1 .. k + 1
  <2>1. s \in SUBSET (1 .. n) /\ s # {}
    BY <1>5
  <2>2. Max(s) \in s /\ \A m \in s : Max(s) >= m
    BY <2>1, Greatest
  <2>3. Max(s) = k + 1 /\ s \ {Max(s)} = 1 .. k
    BY <2>2
  <2>4. iter[s] = Place(iter[s \ {Max(s)}], order[Max(s)])
    <3> HIDE DEF s
    <3> QED
      BY <1>3, <2>1 DEF Placing
  <2>5. iter[s] = Place(iter[1 .. k], order[k + 1])
    BY <2>3, <2>4
  <2> QED
    BY <1>5, <2>5
<1>6. g0[n] = iter[1 .. n]
  OBVIOUS
<1> HIDE DEF g0
<1> QED
  BY <1>1, <1>4, <1>5, <1>6 DEF PlacedSo

\* What planEvenly keeps true while it puts the students of order in teams, of
\* whom it has seen k.
Planned(s, order, k) ==
  /\ s = [size |-> s.size, plan |-> s.plan]
  /\ s.size \in [Open -> Nat] /\ s.plan \in [Teams -> SUBSET Students]
  /\ \A t \in Open : s.size[t] = Cardinality(InTeam(t)) + Cardinality(s.plan[t])
  /\ \A t \in Teams : t \notin Open => s.plan[t] = {}
  /\ \A t \in Teams : \A u \in s.plan[t] : \E i \in 1 .. k : order[i] = u
  /\ \A t, o \in Teams : t # o => s.plan[t] \cap s.plan[o] = {}
  /\ \A t \in Open : s.plan[t] # {} =>
       /\ set.limit = 0 \/ s.size[t] <= set.limit
       /\ \A o \in Roomy(s.size) : s.size[t] <= s.size[o] + 1
  /\ Roomy(s.size) # {} => \A i \in 1 .. k : \E t \in Open : order[i] \in s.plan[t]

LEMMA SmallestRoomy ==
  ASSUME NEW size \in [Open -> Nat], Roomy(size) # {}
  PROVE  /\ Smallest(size) \in Roomy(size)
         /\ \A o \in Roomy(size) : size[Smallest(size)] <= size[o]
<1> DEFINE R == Roomy(size)
           S == {size[t] : t \in R}
           Best == {t \in R : \A o \in R : size[t] <= size[o]}
<1>1. R \subseteq Open /\ R # {} /\ Open \subseteq Teams
  BY DEF Roomy, Open
<1>2. \A t \in R : size[t] \in Nat
  BY <1>1
<1>3. \E t \in R : \A o \in R : size[t] <= size[o]
  <2>1. S \in SUBSET Nat /\ S # {}
    BY <1>1, <1>2
  <2>2. Min(S) \in S /\ \A n \in S : Min(S) <= n
    <3> HIDE DEF S
    <3> QED
      BY <2>1, Least
  <2>3. PICK t \in R : Min(S) = size[t]
    BY <2>2
  <2>4. \A o \in R : size[o] \in S
    OBVIOUS
  <2> HIDE DEF S, R
  <2> QED
    BY <2>2, <2>3, <2>4
<1>4. Best \in SUBSET Nat /\ Best # {}
  <2> HIDE DEF R
  <2> QED
    BY <1>1, <1>3, TeamsAssumption
<1>5. Min(Best) \in Best
  <2> HIDE DEF Best
  <2> QED
    BY <1>4, Least
<1>6. Smallest(size) = Min(Best)
  BY DEF Smallest
<1> QED
  BY <1>5, <1>6

LEMMA PlacePlanned ==
  ASSUME NEW n \in Nat, NEW order \in [1 .. n -> Students],
         \A i, j \in 1 .. n : i # j => order[i] # order[j],
         NEW k \in 0 .. n, k < n, NEW s, Planned(s, order, k), set.limit \in Nat,
         \A t \in Open : IsFiniteSet(InTeam(t))
  PROVE  Planned(Place(s, order[k + 1]), order, k + 1)
<1> DEFINE u == order[k + 1]
           z == Place(s, u)
           t0 == Smallest(s.size)
<1>0. k + 1 \in 1 .. n /\ u \in Students /\ Open \subseteq Teams
  BY DEF Open
<1>1. CASE Roomy(s.size) = {}
  <2>1. z = s
    BY <1>1 DEF Place
  <2>2. ASSUME NEW t \in Teams, NEW v \in s.plan[t] PROVE \E i \in 1 .. k + 1 : order[i] = v
    <3>1. PICK i \in 1 .. k : order[i] = v
      BY DEF Planned
    <3>2. i \in 1 .. k + 1
      OBVIOUS
    <3> QED
      BY <3>1, <3>2
  <2>3. Planned(s, order, k + 1)
    BY <1>1, <2>2 DEF Planned
  <2> QED
    BY <2>1, <2>3
<1>2. CASE Roomy(s.size) # {}
  <2>1. /\ t0 \in Open /\ t0 \in Roomy(s.size)
        /\ set.limit = 0 \/ s.size[t0] < set.limit
        /\ \A o \in Roomy(s.size) : s.size[t0] <= s.size[o]
    BY <1>2, SmallestRoomy DEF Planned, Roomy
  <2>2. /\ z = [size |-> z.size, plan |-> z.plan]
        /\ z.size = [s.size EXCEPT ![t0] = @ + 1]
        /\ z.plan = [s.plan EXCEPT ![t0] = @ \cup {u}]
    BY <1>2 DEF Place
  <2> HIDE DEF t0, z
  <2>3. /\ z.size \in [Open -> Nat] /\ z.plan \in [Teams -> SUBSET Students]
        /\ z.size[t0] = s.size[t0] + 1 /\ z.plan[t0] = s.plan[t0] \cup {u}
        /\ \A t \in Open : t # t0 => z.size[t] = s.size[t]
        /\ \A t \in Teams : t # t0 => z.plan[t] = s.plan[t]
    BY <1>0, <2>1, <2>2 DEF Planned
  <2>4. \A t \in Teams : u \notin s.plan[t]
    <3> SUFFICES ASSUME NEW t \in Teams, u \in s.plan[t] PROVE FALSE
      OBVIOUS
    <3>1. PICK i \in 1 .. k : order[i] = u
      BY DEF Planned
    <3>2. i \in 1 .. n /\ i # k + 1
      OBVIOUS
    <3> QED
      BY <1>0, <3>1, <3>2
  <2>5. ASSUME NEW t \in Open PROVE z.size[t] = Cardinality(InTeam(t)) + Cardinality(z.plan[t])
    <3>1. IsFiniteSet(s.plan[t]) /\ IsFiniteSet(InTeam(t))
      BY <1>0, StudentsAssumption, FS_Subset DEF Planned
    <3>2. Cardinality(InTeam(t)) \in Nat /\ Cardinality(s.plan[t]) \in Nat
      BY <3>1, FS_CardinalityType
    <3>3. Cardinality(s.plan[t] \cup {u}) = Cardinality(s.plan[t]) + 1
      BY <1>0, <2>4, <3>1, FS_AddElement
    <3>4. s.size[t] = Cardinality(InTeam(t)) + Cardinality(s.plan[t])
      BY DEF Planned
    <3>5. CASE t = t0
      <4>1. z.size[t] = s.size[t] + 1 /\ z.plan[t] = s.plan[t] \cup {u}
        BY <2>3, <3>5
      <4> HIDE DEF u
      <4>2. z.size[t] = (Cardinality(InTeam(t)) + Cardinality(s.plan[t])) + 1
        BY <3>4, <4>1
      <4>3. Cardinality(z.plan[t]) = Cardinality(s.plan[t]) + 1
        BY <3>3, <4>1
      <4> QED
        BY <3>2, <4>2, <4>3
    <3>6. CASE t # t0
      BY <1>0, <2>3, <3>4, <3>6
    <3> QED
      BY <3>5, <3>6
  <2>6. \A t \in Teams : t \notin Open => z.plan[t] = {}
    BY <2>1, <2>3 DEF Planned
  <2>7. \A t \in Teams : \A v \in z.plan[t] : \E i \in 1 .. k + 1 : order[i] = v
    <3> SUFFICES ASSUME NEW t \in Teams, NEW v \in z.plan[t] PROVE \E i \in 1 .. k + 1 : order[i] = v
      OBVIOUS
    <3>1. CASE v = u
      <4>1. k + 1 \in 1 .. k + 1
        OBVIOUS
      <4> QED
        BY <3>1, <4>1
    <3>2. CASE v \in s.plan[t]
      <4>1. PICK i \in 1 .. k : order[i] = v
        BY <3>2 DEF Planned
      <4>2. i \in 1 .. k + 1
        OBVIOUS
      <4> QED
        BY <4>1, <4>2
    <3>3. v = u \/ v \in s.plan[t]
      BY <2>3
    <3> QED
      BY <3>1, <3>2, <3>3
  <2>8. \A t, o \in Teams : t # o => z.plan[t] \cap z.plan[o] = {}
    <3> HIDE DEF u
    <3>1. \A t, o \in Teams : t # o => s.plan[t] \cap s.plan[o] = {}
      BY DEF Planned
    <3> QED
      BY <2>3, <2>4, <3>1
  <2>9. Roomy(z.size) \subseteq Roomy(s.size)
    <3>1. \A t \in Open : s.size[t] \in Nat
      BY DEF Planned
    <3>2. DOMAIN z.size = Open /\ DOMAIN s.size = Open
      BY <2>3 DEF Planned
    <3>3. \A t \in Open : set.limit = 0 \/ z.size[t] < set.limit => set.limit = 0 \/ s.size[t] < set.limit
      BY <2>3, <3>1
    <3> QED
      BY <3>2, <3>3 DEF Roomy
  <2>10. ASSUME NEW t \in Open, z.plan[t] # {}
         PROVE  /\ set.limit = 0 \/ z.size[t] <= set.limit
                /\ \A o \in Roomy(z.size) : z.size[t] <= z.size[o] + 1
    <3>1. \A o \in Roomy(z.size) : o \in Open /\ o \in Roomy(s.size) /\ s.size[o] \in Nat /\ z.size[o] >= s.size[o]
      <4>1. \A o \in Roomy(z.size) : o \in Open /\ s.size[o] \in Nat
        BY <2>3 DEF Planned, Roomy
      <4> QED
        BY <2>3, <2>9, <4>1
    <3>2. s.size[t] \in Nat /\ s.size[t0] \in Nat
      BY <2>1 DEF Planned
    <3>3. CASE t = t0
      <4>1. set.limit = 0 \/ z.size[t] <= set.limit
        BY <2>1, <2>3, <3>2, <3>3
      <4>2. \A o \in Roomy(z.size) : z.size[t] <= z.size[o] + 1
        <5> SUFFICES ASSUME NEW o \in Roomy(z.size) PROVE z.size[t] <= z.size[o] + 1
          OBVIOUS
        <5>1. s.size[t0] <= s.size[o]
          BY <2>1, <3>1
        <5>2. z.size[o] \in Nat
          BY <2>3, <3>1
        <5> QED
          BY <2>3, <3>1, <3>2, <3>3, <5>1, <5>2
      <4> QED
        BY <4>1, <4>2
    <3>4. CASE t # t0
      <4>1. s.plan[t] # {} /\ z.size[t] = s.size[t]
        BY <1>0, <2>3, <2>10, <3>4
      <4>2. (set.limit = 0 \/ s.size[t] <= set.limit) /\ \A o \in Roomy(s.size) : s.size[t] <= s.size[o] + 1
        BY <4>1 DEF Planned
      <4>3. \A o \in Roomy(z.size) : z.size[t] <= z.size[o] + 1
        <5> SUFFICES ASSUME NEW o \in Roomy(z.size) PROVE z.size[t] <= z.size[o] + 1
          OBVIOUS
        <5>1. s.size[t] <= s.size[o] + 1
          BY <3>1, <4>2
        <5>2. z.size[o] \in Nat
          BY <2>3, <3>1
        <5> QED
          BY <3>1, <3>2, <4>1, <5>1, <5>2
      <4> QED
        BY <4>1, <4>2, <4>3
    <3> QED
      BY <3>3, <3>4
  <2>11. \A i \in 1 .. k + 1 : \E t \in Open : order[i] \in z.plan[t]
    <3> SUFFICES ASSUME NEW i \in 1 .. k + 1 PROVE \E t \in Open : order[i] \in z.plan[t]
      OBVIOUS
    <3>1. CASE i = k + 1
      BY <2>1, <2>3, <3>1
    <3>2. CASE i # k + 1
      <4>1. i \in 1 .. k
        BY <3>2
      <4>2. PICK t \in Open : order[i] \in s.plan[t]
        BY <1>2, <4>1 DEF Planned
      <4>3. s.plan[t] \subseteq z.plan[t]
        BY <1>0, <2>3
      <4> QED
        BY <4>2, <4>3
    <3> QED
      BY <3>1, <3>2
  <2> HIDE DEF u
  <2> QED
    BY <2>2, <2>3, <2>5, <2>6, <2>7, <2>8, <2>10, <2>11 DEF Planned, z, u
<1> QED
  BY <1>1, <1>2

LEMMA PlanIsFair ==
  ASSUME NEW order \in SetToSeqs(Unassigned), set.limit \in Nat, \A t \in Teams : IsFiniteSet(InTeam(t))
  PROVE  /\ PlanEvenly(order) \in [Teams -> SUBSET Students]
         /\ \A t \in Teams : t \notin Open => PlanEvenly(order)[t] = {}
         /\ \A t \in Teams : PlanEvenly(order)[t] \subseteq Unassigned
         /\ Fair(PlanEvenly(order))
<1> DEFINE n == Cardinality(Unassigned)
           base == [size |-> [t \in Open |-> Cardinality(InTeam(t))], plan |-> Nowhere]
<1>1. IsFiniteSet(Unassigned) /\ n \in Nat /\ Unassigned \subseteq Students
  BY StudentsAssumption, FS_Subset, FS_CardinalityType DEF Unassigned
<1>2. /\ order \in [1 .. n -> Unassigned] /\ order \in [1 .. n -> Students]
      /\ \A i, j \in 1 .. n : i # j => order[i] # order[j]
  BY <1>1 DEF SetToSeqs
<1>3. \A u \in Unassigned : \E i \in 1 .. n : order[i] = u
  <2>1. order \in Injection(1 .. n, Unassigned)
    BY <1>2 DEF Injection, IsInjective
  <2>2. IsFiniteSet(1 .. n) /\ Cardinality(1 .. n) = n
    BY <1>1, FS_Interval
  <2>3. order \in Surjection(1 .. n, Unassigned)
    BY <1>1, <2>1, <2>2, FS_Injection
  <2> QED
    BY <2>3 DEF Surjection
<1> HIDE DEF n
<1>4. Planned(base, order, 0)
  <2>1. \A t \in Teams : Nowhere[t] = {}
    BY DEF Nowhere
  <2>2. Open \subseteq Teams /\ \A t \in Open : Cardinality(InTeam(t)) \in Nat
    BY FS_CardinalityType DEF Open
  <2>3. Nowhere \in [Teams -> SUBSET Students]
    BY DEF Nowhere
  <2>4. Cardinality({}) = 0
    BY FS_EmptySet
  <2>5. 1 .. 0 = {}
    OBVIOUS
  <2>6. base = [size |-> base.size, plan |-> base.plan] /\ base.size \in [Open -> Nat] /\ base.plan = Nowhere
    BY <2>2
  <2>7. \A t \in Open : base.size[t] = Cardinality(InTeam(t)) + Cardinality(base.plan[t])
    <3> SUFFICES ASSUME NEW t \in Open PROVE base.size[t] = Cardinality(InTeam(t)) + Cardinality(base.plan[t])
      OBVIOUS
    <3>1. base.size[t] = Cardinality(InTeam(t)) /\ base.plan[t] = {}
      BY <2>1, <2>2
    <3> HIDE DEF base
    <3> QED
      BY <2>2, <2>4, <3>1
  <2> HIDE DEF base
  <2> QED
    BY <2>1, <2>2, <2>3, <2>5, <2>6, <2>7 DEF Planned
<1>10. \E g : PlacedSo(g, n, base, order)
  <2>1. DOMAIN order = 1 .. n
    BY <1>2
  <2> HIDE DEF base
  <2> QED
    BY <1>1, <2>1, PlacedOneByOne
<1>5. PICK g : /\ g[0] = base
               /\ \A k \in 0 .. n : k < n => g[k + 1] = Place(g[k], order[k + 1])
               /\ FoldLeft(Place, base, order) = g[n]
  BY <1>10 DEF PlacedSo
<1>6. Planned(g[n], order, n)
  <2> DEFINE Good == {k \in 0 .. n : Planned(g[k], order, k)}
  <2>1. 0 \in Good
    <3> HIDE DEF base
    <3> QED
      BY <1>1, <1>4, <1>5
  <2>2. \A k \in 0 .. n : k < n /\ k \in Good => k + 1 \in Good
    <3> SUFFICES ASSUME NEW k \in 0 .. n, k < n, Planned(g[k], order, k) PROVE k + 1 \in Good
      OBVIOUS
    <3>1. Planned(Place(g[k], order[k + 1]), order, k + 1)
      BY <1>1, <1>2, PlacePlanned DEF Open
    <3>2. k + 1 \in 0 .. n /\ g[k + 1] = Place(g[k], order[k + 1])
      BY <1>1, <1>5
    <3> QED
      BY <3>1, <3>2
  <2>3. n \in 0 .. n /\ Good \in SUBSET (0 .. n)
    BY <1>1
  <2>4. n \in Good
    <3> HIDE DEF Good
    <3> QED
      BY <1>1, <2>1, <2>2, <2>3, Upwards
  <2> QED
    BY <2>4
<1> DEFINE plan == g[n].plan
           size == g[n].size
<1>7. PlanEvenly(order) = plan
  BY <1>5 DEF PlanEvenly
<1>8. /\ plan \in [Teams -> SUBSET Students]
      /\ \A t \in Teams : t \notin Open => plan[t] = {}
      /\ \A t \in Teams : plan[t] \subseteq Unassigned
  <2>1. ASSUME NEW t \in Teams, NEW u \in plan[t] PROVE u \in Unassigned
    <3>1. PICK i \in 1 .. n : order[i] = u
      BY <1>6 DEF Planned
    <3> QED
      BY <1>2, <3>1
  <2> QED
    BY <1>6, <2>1 DEF Planned
<1>9. Fair(plan)
  <2>0. Open \subseteq Teams
    BY DEF Open
  <2>1. /\ DOMAIN size = Open
        /\ \A t \in Open : size[t] = Cardinality(InTeam(t)) + Cardinality(plan[t])
    BY <1>6 DEF Planned
  <2>2. \A o \in Open : (set.limit = 0 \/ size[o] < set.limit) <=> o \in Roomy(size)
    BY <2>1 DEF Roomy
  <2>3. \A t \in Open : plan[t] # {} =>
          /\ set.limit = 0 \/ size[t] <= set.limit
          /\ \A o \in Open : set.limit = 0 \/ size[o] < set.limit => size[t] <= size[o] + 1
    BY <1>6, <2>2 DEF Planned
  <2>4. \A t, o \in Teams : t # o => plan[t] \cap plan[o] = {}
    BY <1>6 DEF Planned
  <2>5. CASE Roomy(size) = {}
    <3>1. \A t \in Open : ~(set.limit = 0 \/ size[t] < set.limit)
      BY <2>2, <2>5
    <3> HIDE DEF plan, size
    <3> QED
      BY <2>1, <2>3, <2>4, <3>1 DEF Fair
  <2>6. CASE Roomy(size) # {}
    <3>1. \A u \in Unassigned : \E t \in Open : u \in plan[t]
      <4> SUFFICES ASSUME NEW u \in Unassigned PROVE \E t \in Open : u \in plan[t]
        OBVIOUS
      <4>1. PICK i \in 1 .. n : order[i] = u
        BY <1>3
      <4> QED
        BY <1>6, <2>6, <4>1 DEF Planned
    <3>2. UNION {plan[t] : t \in Open} = Unassigned
      <4> HIDE DEF plan, size
      <4> QED
        BY <1>8, <2>0, <3>1
    <3> HIDE DEF plan, size
    <3> QED
      BY <2>1, <2>3, <2>4, <3>2 DEF Fair
  <2> QED
    BY <2>5, <2>6
<1> QED
  BY <1>7, <1>8, <1>9

-----------------------------------------------------------------------------
(***************************************************************************)
(* What a call under way knows, in its record r.                           *)
(***************************************************************************)
Joining(r) == r.at \in {"leaving", "seek", "leave", "create"} \/ r.after = "leaving"
Assigning(r) == r.after = "assign"
Held(r) == r.at \in {"leave", "save"}
HeldTeam(r) == IF r.at = "leave" THEN r.sync ELSE r.team

\* Where it stands, and what it is about there.
Moves(r) ==
  /\ r.at = "rest" => r = Rest
  /\ r.after = "leaving" => r.at \in {"leaving", "seek", "leave", "create", "check", "clear", "fill", "appoint"}
  /\ r.after = "assign" => r.at \in {"assign", "check", "clear", "fill", "appoint"}
  /\ r.at = "assign" => r.after = "assign" /\ r.plan # Nowhere
  /\ r.at \in {"seek", "leave", "check", "clear", "fill", "appoint", "reload"} => r.sync \in Teams
  /\ Joining(r) \/ r.at = "save" => r.team \in Teams /\ r.student \in Students
  /\ r.at \in {"lead", "store"} => r.team \in Teams

\* The row it is about to delete or save is, if it is there, of this student in
\* this team.
HoldsRow(r) == Held(r) =>
  /\ r.row \in 1 .. made
  /\ r.row \in DOMAIN member => member[r.row].student = r.student /\ member[r.row].team = HeldTeam(r)

\* The memberships it has seen leave room for what it is going to insert.
HasRoom(r) == set.limit > 0 =>
  /\ Joining(r) => Cardinality(r.saw \cap InTeam(r.team)) < set.limit
  /\ Assigning(r) => \A t \in Teams : r.plan[t] # {} =>
       Cardinality(r.saw \cap InTeam(t)) + Cardinality(r.plan[t]) <= set.limit

\* Among them, there is none of that student in another team.
Gone(r, u) == \A m \in r.saw \cap Of(u) \cap Accepted : team[member[m].team].deleted
HasLeft(r) ==
  /\ Assigning(r) => \A t, o \in Teams : t # o => r.plan[t] \cap r.plan[o] = {}
  /\ ~set.several /\ ~disorder.broken =>
       /\ r.at = "create" /\ ~r.lost => Gone(r, r.student)
       /\ Assigning(r) => \A t \in Teams : \A u \in r.plan[t] : Gone(r, u)

CallTrue(r) == Moves(r) /\ HoldsRow(r) /\ r.saw \subseteq 1 .. made /\ HasRoom(r) /\ HasLeft(r)

\* Two calls that hold one row agree on whose it is.
Agree == \A c, d \in Calls : Held(call[c]) /\ Held(call[d]) /\ call[c].row = call[d].row
           => call[c].student = call[d].student /\ HeldTeam(call[c]) = HeldTeam(call[d])

CallsTrue == (\A c \in Calls : CallTrue(call[c])) /\ Agree

-----------------------------------------------------------------------------
(* What a step leaves of what the calls know.                              *)

\* The memberships of S that are left are as they were.
Kept(S) ==
  /\ set' = set /\ made <= made' /\ (disorder.broken => disorder'.broken)
  /\ \A m \in S \cap DOMAIN member' :
       /\ m \in DOMAIN member /\ member'[m] = member[m]
       /\ team[member[m].team].deleted => team'[member[m].team].deleted

LEMMA FewerSeen ==
  ASSUME TeamTypeOK, NEW S \in SUBSET Nat, S \subseteq 1 .. made, NEW Z \in SUBSET S, Kept(Z), NEW t \in Teams
  PROVE  /\ Cardinality(Z \cap InTeam(t)') <= Cardinality(S \cap InTeam(t))
         /\ Cardinality(Z \cap InTeam(t)') \in Nat /\ Cardinality(S \cap InTeam(t)) \in Nat
<1>1. Z \cap InTeam(t)' \subseteq S \cap InTeam(t)
  BY DEF Kept, InTeam
<1>2. IsFiniteSet(1 .. made)
  BY FS_Interval, TeamBoundsAssumption DEF TeamTypeOK
<1>3. IsFiniteSet(S \cap InTeam(t))
  BY <1>2, FS_Subset
<1> QED
  BY <1>1, <1>3, FS_Subset, FS_CardinalityType

LEMMA StillGone ==
  ASSUME NEW r, NEW q, NEW u, q.saw \subseteq r.saw, Kept(q.saw), Gone(r, u)
  PROVE  Gone(q, u)'
<1> SUFFICES ASSUME NEW m \in q.saw, m \in Of(u)', m \in Accepted' PROVE team'[member'[m].team].deleted
  BY DEF Gone
<1>1. m \in DOMAIN member /\ member'[m] = member[m] /\ m \in r.saw
  BY DEF Kept, Of
<1>2. m \in Of(u) /\ m \in Accepted
  BY <1>1 DEF Of, Accepted
<1> QED
  BY <1>1, <1>2 DEF Gone, Kept, Of

\* A call goes on from r to q, or stays, without being about anything else.
LEMMA GoesOn ==
  ASSUME TeamTypeOK, NEW r \in Call, CallTrue(r), NEW q \in Call, Moves(q), HoldsRow(q)',
         q.saw \subseteq r.saw, Kept(q.saw), made' \in Nat,
         Joining(q) => Joining(r) /\ q.team = r.team,
         Assigning(q) => Assigning(r) /\ q.plan = r.plan,
         q.at = "create" => \/ r.at = "create" /\ q.student = r.student /\ q.lost = r.lost
                            \/ q.lost \/ disorder'.broken \/ Gone(q, q.student)'
  PROVE  CallTrue(q)'
<1>1. Moves(q)'
  BY DEF Moves
<1>2. q.saw \subseteq 1 .. made'
  BY DEF CallTrue, Kept, TeamTypeOK
<1>3. set' = set /\ r.saw \in SUBSET Nat /\ r.saw \subseteq 1 .. made /\ q.saw \in SUBSET r.saw /\ set.limit \in Nat
  BY SetsAssumption DEF Kept, CallTrue, Call, TeamTypeOK, GroupSet
<1>4. HasRoom(q)'
  <2>1. ASSUME set.limit > 0, Joining(q) PROVE Cardinality(q.saw \cap InTeam(q.team)') < set.limit
    <3>1. Cardinality(r.saw \cap InTeam(r.team)) < set.limit
      BY <2>1 DEF CallTrue, HasRoom
    <3>2. q.team \in Teams /\ q.team = r.team
      BY <2>1 DEF Moves
    <3>3. PICK t \in Teams : t = q.team /\ t = r.team
      BY <3>2
    <3>4. /\ Cardinality(q.saw \cap InTeam(t)') <= Cardinality(r.saw \cap InTeam(t))
          /\ Cardinality(q.saw \cap InTeam(t)') \in Nat /\ Cardinality(r.saw \cap InTeam(t)) \in Nat
      BY <1>3, FewerSeen
    <3>5. Cardinality(q.saw \cap InTeam(t)') < set.limit
      BY <1>3, <3>1, <3>3, <3>4
    <3> QED
      BY <3>3, <3>5
  <2>2. ASSUME set.limit > 0, Assigning(q), NEW t \in Teams, q.plan[t] # {}
        PROVE  Cardinality(q.saw \cap InTeam(t)') + Cardinality(q.plan[t]) <= set.limit
    <3>1. Cardinality(r.saw \cap InTeam(t)) + Cardinality(q.plan[t]) <= set.limit
      BY <2>2 DEF CallTrue, HasRoom
    <3>2. Cardinality(q.plan[t]) \in Nat
      BY StudentsAssumption, FS_Subset, FS_CardinalityType DEF Call
    <3>3. /\ Cardinality(q.saw \cap InTeam(t)') <= Cardinality(r.saw \cap InTeam(t))
          /\ Cardinality(q.saw \cap InTeam(t)') \in Nat /\ Cardinality(r.saw \cap InTeam(t)) \in Nat
      BY <1>3, FewerSeen
    <3> QED
      BY <1>3, <3>1, <3>2, <3>3
  <2> QED
    BY <1>3, <2>1, <2>2 DEF HasRoom, Joining, Assigning
<1>5. HasLeft(q)'
  <2>1. Assigning(q) => \A t, o \in Teams : t # o => q.plan[t] \cap q.plan[o] = {}
    BY DEF CallTrue, HasLeft
  <2>2. ASSUME ~set'.several, ~disorder'.broken, q.at = "create", ~q.lost PROVE Gone(q, q.student)'
    <3>1. CASE r.at = "create" /\ q.student = r.student /\ ~r.lost
      <4>1. Gone(r, q.student)
        BY <1>3, <2>2, <3>1 DEF CallTrue, HasLeft, Kept
      <4> QED
        BY <4>1, StillGone
    <3> QED
      BY <2>2, <3>1
  <2>3. ASSUME ~set'.several, ~disorder'.broken, Assigning(q), NEW t \in Teams, NEW u \in q.plan[t]
        PROVE  Gone(q, u)'
    <3>1. Gone(r, u)
      BY <1>3, <2>3 DEF CallTrue, HasLeft, Kept
    <3> QED
      BY <3>1, StillGone
  <2> QED
    BY <2>1, <2>2, <2>3 DEF HasLeft, Assigning
<1> QED
  BY <1>1, <1>2, <1>4, <1>5 DEF CallTrue

\* A row that is there after a step was there, or some call has just put it back.
RowsAs ==
  \A m \in DOMAIN member' : m \in 1 .. made =>
    \/ m \in DOMAIN member /\ member'[m].student = member[m].student /\ member'[m].team = member[m].team
    \/ \E e \in Calls : /\ Held(call[e]) /\ call[e].row = m
                        /\ member'[m].student = call[e].student /\ member'[m].team = HeldTeam(call[e])

LEMMA StillHolds ==
  ASSUME CallsTrue, RowsAs, NEW c \in Calls, NEW q, made \in Nat, made' \in Nat, made <= made',
         Held(q) => /\ Held(call[c]) /\ q.row = call[c].row
                    /\ q.student = call[c].student /\ HeldTeam(q) = HeldTeam(call[c])
  PROVE  HoldsRow(q)'
<1> SUFFICES ASSUME Held(q) PROVE HoldsRow(q)'
  BY DEF HoldsRow, Held
<1>1. /\ Held(call[c]) /\ q.row = call[c].row /\ HoldsRow(call[c])
      /\ q.student = call[c].student /\ HeldTeam(q) = HeldTeam(call[c])
  BY DEF CallsTrue, CallTrue
<1>2. q.row \in 1 .. made
  BY <1>1 DEF HoldsRow
<1>3. ASSUME q.row \in DOMAIN member'
      PROVE  member'[q.row].student = q.student /\ member'[q.row].team = HeldTeam(q)
  <2>1. CASE /\ q.row \in DOMAIN member /\ member'[q.row].student = member[q.row].student
             /\ member'[q.row].team = member[q.row].team
    BY <1>1, <2>1 DEF HoldsRow
  <2>2. CASE \E e \in Calls : /\ Held(call[e]) /\ call[e].row = q.row
                              /\ member'[q.row].student = call[e].student
                              /\ member'[q.row].team = HeldTeam(call[e])
    BY <1>1, <2>2 DEF CallsTrue, Agree
  <2> QED
    BY <1>2, <1>3, <2>1, <2>2 DEF RowsAs
<1>4. q.row \in 1 .. made'
  BY <1>2
<1> QED
  BY <1>3, <1>4 DEF HoldsRow, HeldTeam

\* One call goes from r to q, and of the others the step keeps what they know.
Others(c) == \A d \in Calls \ {c} :
  call'[d] = [call[d] EXCEPT !.saw = call'[d].saw] /\ call'[d].saw \subseteq call[d].saw /\ Kept(call'[d].saw)

LEMMA CallsKept ==
  ASSUME TeamTypeOK, CallsTrue, RowsAs, NEW c \in Calls, NEW q \in Call, CallTrue(q)',
         call' = [d \in Calls |-> call'[d]], call'[c] = q, Others(c), made' \in Nat, made <= made',
         Held(q) => \/ /\ Held(call[c]) /\ q.row = call[c].row
                       /\ q.student = call[c].student /\ HeldTeam(q) = HeldTeam(call[c])
                    \/ /\ q.row \in DOMAIN member /\ q.row \in DOMAIN member' /\ member'[q.row] = member[q.row]
  PROVE  call' \in [Calls -> Call] /\ CallsTrue'
<1>0. made \in Nat /\ call \in [Calls -> Call]
  BY DEF TeamTypeOK
<1>1. ASSUME NEW d \in Calls \ {c}
      PROVE  /\ call'[d] \in Call /\ CallTrue(call[d])'
             /\ (Held(call'[d]) <=> Held(call[d])) /\ call'[d].row = call[d].row
             /\ call'[d].student = call[d].student /\ HeldTeam(call'[d]) = HeldTeam(call[d])
  <2>1. PICK r \in Call : r = call[d]
    BY <1>0
  <2>2. PICK z : z = call'[d]
    OBVIOUS
  <2>3. z = [r EXCEPT !.saw = z.saw] /\ z.saw \subseteq r.saw /\ Kept(z.saw)
    BY <2>1, <2>2 DEF Others
  <2>4. z.saw \in SUBSET Nat
    BY <2>3 DEF Call
  <2>5. /\ z.at = r.at /\ z.team = r.team /\ z.student = r.student /\ z.state = r.state /\ z.row = r.row
        /\ z.deleted = r.deleted /\ z.leaders = r.leaders /\ z.pick = r.pick /\ z.plan = r.plan
        /\ z.sync = r.sync /\ z.after = r.after /\ z.lost = r.lost
    BY <2>3 DEF Call
  <2>6. z \in Call
    <3>1. [r EXCEPT !.saw = z.saw] \in Call
      BY <2>4, Zenon DEF Call
    <3> QED
      BY <2>3, <3>1
  <2>7. CallTrue(r)
    BY <2>1 DEF CallsTrue
  <2>8. Moves(z)
    <3>1. r.at = "rest" => z = Rest
      <4> SUFFICES ASSUME r.at = "rest" PROVE z = Rest
        OBVIOUS
      <4>1. r = Rest
        BY <2>7 DEF CallTrue, Moves
      <4>2. z.saw = Rest.saw
        BY <2>3, <4>1 DEF Rest
      <4>3. z = [Rest EXCEPT !.saw = Rest.saw]
        BY <2>3, <4>1, <4>2
      <4>4. [Rest EXCEPT !.saw = Rest.saw] = Rest
        BY DEF Rest
      <4> QED
        BY <4>3, <4>4
    <3> QED
      BY <2>5, <2>7, <3>1 DEF CallTrue, Moves, Joining
  <2>9. HoldsRow(z)'
    BY <1>0, <2>1, <2>5, StillHolds DEF Held, HeldTeam
  <2>10. CallTrue(z)'
    BY <2>3, <2>5, <2>6, <2>7, <2>8, <2>9, GoesOn DEF Joining, Assigning
  <2>11. CallTrue(call[d])'
    BY <2>2, <2>10
  <2> QED
    BY <2>1, <2>2, <2>5, <2>6, <2>11 DEF Held, HeldTeam
<1>2. \A d \in Calls : call'[d] \in Call /\ CallTrue(call[d])'
  BY <1>1
<1>3. Agree'
  <2> SUFFICES ASSUME NEW d \in Calls, NEW e \in Calls, Held(call'[d]), Held(call'[e]), call'[d].row = call'[e].row
      PROVE  call'[d].student = call'[e].student /\ HeldTeam(call'[d]) = HeldTeam(call'[e])
    BY DEF Agree, Held, HeldTeam
  <2>1. CASE q.row \in DOMAIN member'
    <3>1. \A x \in Calls : Held(call'[x]) /\ call'[x].row \in DOMAIN member' =>
            /\ member'[call'[x].row].student = call'[x].student
            /\ member'[call'[x].row].team = HeldTeam(call'[x])
      BY <1>2 DEF CallTrue, HoldsRow, Held, HeldTeam
    <3>2. CASE d = c \/ e = c
      BY <2>1, <3>1, <3>2
    <3>3. CASE d # c /\ e # c
      BY <1>1, <3>3 DEF CallsTrue, Agree
    <3> QED
      BY <3>2, <3>3
  <2>2. CASE q.row \notin DOMAIN member'
    <3>1. \A x \in Calls : Held(call'[x]) => /\ Held(call[x]) /\ call'[x].row = call[x].row
                                             /\ call'[x].student = call[x].student
                                             /\ HeldTeam(call'[x]) = HeldTeam(call[x])
      BY <1>1, <2>2
    <3> QED
      BY <3>1 DEF CallsTrue, Agree
  <2> QED
    BY <2>1, <2>2
<1> QED
  BY <1>2, <1>3 DEF CallsTrue

-----------------------------------------------------------------------------
(* Leaders, as long as calls have not overlapped and none has broken off.  *)

Orderly == ~disorder.overlapped /\ ~disorder.broken
LedByMember(t) == team[t].leader # Nobody => IsMember(t, team[t].leader)
Mends(r, t) == r.at \in {"check", "clear", "reload"} /\ r.sync = t

\* What a call has read, and the choice it has made, still hold.
Sound(r) ==
  /\ r.at \in {"seek", "leave"} => r.leaders[r.sync] = team[r.sync].leader
  /\ r.at = "check" => r.leaders[r.sync] = team[r.sync].leader \/ LedByMember(r.sync)
  /\ r.at = "appoint" => IsMember(r.sync, r.pick)
  /\ r.at \in {"lead", "store"} => r.student = Nobody \/ IsMember(r.team, r.student)
LeadersInv ==
  Orderly =>
    /\ \A c, d \in Calls : ~Resting(c) /\ ~Resting(d) => c = d
    /\ \A c \in Calls : Sound(call[c])
    /\ \A t \in Teams : LedByMember(t) \/ \E c \in Calls : Mends(call[c], t)

TeamInv == TeamTypeOK /\ CallsTrue /\ NobodyStranded /\ LeadersInv

\* What a call that goes to q keeps of it.
Leads(c, q) ==
  Orderly' =>
    /\ Orderly /\ \A d \in Calls \ {c} : Resting(d)
    /\ Sound(q)'
    /\ \A t \in Teams : LedByMember(t) \/ Mends(call[c], t) => LedByMember(t)' \/ Mends(q, t)

LEMMA LeadersKept ==
  ASSUME TeamInv, NEW c \in Calls, NEW q, call'[c] = q, Leads(c, q),
         \A d \in Calls \ {c} : call'[d].at = call[d].at
  PROVE  LeadersInv'
<1> SUFFICES ASSUME Orderly' PROVE LeadersInv'
  BY DEF LeadersInv, Orderly
<1>1. /\ Orderly /\ \A d \in Calls \ {c} : call[d].at = "rest" /\ call'[d].at = "rest"
      /\ Sound(q)'
      /\ \A t \in Teams : LedByMember(t) \/ Mends(call[c], t) => LedByMember(t)' \/ Mends(q, t)
  BY DEF Leads, Resting
<1>2. \A d, e \in Calls : ~Resting(d)' /\ ~Resting(e)' => d = e
  BY <1>1 DEF Resting
<1>3. \A d \in Calls : Sound(call[d])'
  <2> SUFFICES ASSUME NEW d \in Calls PROVE Sound(call[d])'
    OBVIOUS
  <2>1. CASE d = c
    BY <1>1, <2>1 DEF Sound, LedByMember, IsMember, Rows, InTeam, Of, Accepted
  <2>2. CASE d # c
    BY <1>1, <2>2 DEF Sound
  <2> QED
    BY <2>1, <2>2
<1>4. \A t \in Teams : LedByMember(t)' \/ \E d \in Calls : Mends(call[d], t)'
  <2> SUFFICES ASSUME NEW t \in Teams, ~LedByMember(t)' PROVE Mends(call[c], t)'
    OBVIOUS
  <2>1. LedByMember(t) \/ Mends(call[c], t)
    BY <1>1 DEF TeamInv, LeadersInv, Mends
  <2>2. Mends(q, t)
    BY <1>1, <2>1
  <2> QED
    BY <2>2 DEF Mends
<1> QED
  BY <1>2, <1>3, <1>4 DEF LeadersInv

\* Nobody is left behind by a step in which a call goes to q.
Holds(c, q) ==
  \A u \in owed' :
    \/ Of(u)' # {}
    \/ Joining(q) /\ q.student = u
    \/ u \in owed /\ Of(u) = {} /\ ~(Joining(call[c]) /\ call[c].student = u)

LEMMA NobodyLeft ==
  ASSUME NobodyStranded, NEW c \in Calls, NEW q, call'[c] = q, Holds(c, q),
         \A d \in Calls \ {c} : /\ call'[d].at = call[d].at /\ call'[d].after = call[d].after
                                /\ call'[d].student = call[d].student
  PROVE  NobodyStranded'
<1> SUFFICES ASSUME NEW u \in owed', Of(u)' = {} PROVE BetweenTeams(u)'
  BY DEF NobodyStranded
<1>1. CASE Joining(q) /\ q.student = u
  BY <1>1 DEF BetweenTeams, Joining
<1>2. CASE u \in owed /\ Of(u) = {} /\ ~(Joining(call[c]) /\ call[c].student = u)
  <2>1. BetweenTeams(u)
    BY <1>2 DEF NobodyStranded
  <2>2. PICK d \in Calls : Joining(call[d]) /\ call[d].student = u
    BY <2>1 DEF BetweenTeams, Joining
  <2>3. d \in Calls \ {c}
    BY <1>2, <2>2
  <2> QED
    BY <2>2, <2>3 DEF BetweenTeams, Joining
<1> QED
  BY <1>1, <1>2 DEF Holds

\* A step of one call that leaves the memberships alone.
LEMMA QuietStep ==
  ASSUME TeamInv, NEW c \in Calls, NEW q \in Call, call' = [call EXCEPT ![c] = q], CallTrue(q)',
         UNCHANGED <<set, member, made>>, owed' \subseteq owed, team' \in [Teams -> Team],
         \A t \in Teams : team[t].deleted => team'[t].deleted,
         disorder' \in [acts : 0 .. MaxActs, overlapped : BOOLEAN, broken : BOOLEAN],
         disorder.broken => disorder'.broken,
         Held(q) => \/ /\ Held(call[c]) /\ q.row = call[c].row
                       /\ q.student = call[c].student /\ HeldTeam(q) = HeldTeam(call[c])
                    \/ q.row \in DOMAIN member,
         \A u \in owed' : Joining(call[c]) /\ call[c].student = u =>
                            Of(u) # {} \/ (Joining(q) /\ q.student = u),
         Leads(c, q)
  PROVE  TeamInv'
<1>0. TeamTypeOK /\ CallsTrue /\ call \in [Calls -> Call] /\ made \in Nat /\ made' = made /\ member' = member
  BY TeamBoundsAssumption DEF TeamInv, TeamTypeOK
<1>1. call'[c] = q /\ \A d \in Calls \ {c} : call'[d] = call[d]
  BY <1>0
<1>2. call' = [d \in Calls |-> call'[d]]
  BY <1>0
<1>3. \A d \in Calls : Kept(call[d].saw)
  <2> SUFFICES ASSUME NEW d \in Calls PROVE Kept(call[d].saw)
    OBVIOUS
  <2>1. \A m \in DOMAIN member : member[m].team \in Teams
    BY <1>0 DEF TeamTypeOK, Member
  <2> QED
    BY <1>0, <2>1 DEF Kept
<1>4. Others(c)
  <2> SUFFICES ASSUME NEW d \in Calls \ {c}
               PROVE  call[d] = [call[d] EXCEPT !.saw = call[d].saw] /\ Kept(call[d].saw)
    BY <1>1 DEF Others
  <2>1. call[d] \in Call
    BY <1>0
  <2>2. call[d] = [call[d] EXCEPT !.saw = call[d].saw]
    BY <2>1 DEF Call
  <2> QED
    BY <1>3, <2>2
<1>5. RowsAs
  BY <1>0 DEF RowsAs
<1>6. call' \in [Calls -> Call] /\ CallsTrue'
  <2>1. Held(q) => \/ /\ Held(call[c]) /\ q.row = call[c].row
                      /\ q.student = call[c].student /\ HeldTeam(q) = HeldTeam(call[c])
                   \/ q.row \in DOMAIN member /\ q.row \in DOMAIN member' /\ member'[q.row] = member[q.row]
    BY <1>0
  <2>2. made' \in Nat /\ made <= made'
    BY <1>0
  <2> QED
    BY <1>0, <1>1, <1>2, <1>4, <1>5, <2>1, <2>2, CallsKept
<1>7. TeamTypeOK'
  BY <1>0, <1>6 DEF TeamTypeOK, Rows, InTeam, Of
<1>8. NobodyStranded'
  <2>1. \A u : Of(u)' = Of(u)
    BY <1>0 DEF Of
  <2>2. Holds(c, q)
    BY <2>1 DEF Holds
  <2> QED
    BY <1>1, <2>2, NobodyLeft DEF TeamInv
<1>9. LeadersInv'
  BY <1>1, LeadersKept
<1> QED
  BY <1>6, <1>7, <1>8, <1>9 DEF TeamInv

\* A call that begins.
LEMMA Started ==
  ASSUME TeamInv, NEW c \in Calls, NEW z, NEW acts \in Nat, Start(c, z, acts)
  PROVE  /\ call[c] = Rest
         /\ call' = [call EXCEPT ![c] = [z EXCEPT !.saw = DOMAIN member]]
         /\ disorder' \in [acts : 0 .. MaxActs, overlapped : BOOLEAN, broken : BOOLEAN]
         /\ disorder'.broken = disorder.broken
         /\ Orderly' => Orderly /\ \A d \in Calls \ {c} : Resting(d)
<1>1. call[c] = Rest
  BY DEF Start, Resting, TeamInv, CallsTrue, CallTrue, Moves
<1>2. /\ disorder \in [acts : 0 .. MaxActs, overlapped : BOOLEAN, broken : BOOLEAN]
      /\ MaxActs \in Nat
  BY TeamBoundsAssumption DEF TeamInv, TeamTypeOK
<1> DEFINE more == \E d \in Calls \ {c} : ~Resting(d)
<1>3. disorder' = [disorder EXCEPT !.acts = @ + acts, !.overlapped = @ \/ more]
  BY DEF Start
<1>4. disorder.acts + acts <= MaxActs
  BY DEF Start
<1> HIDE DEF more
<1>5. /\ disorder'.broken = disorder.broken /\ disorder'.acts = disorder.acts + acts
      /\ disorder'.overlapped = (disorder.overlapped \/ more)
  BY <1>2, <1>3
<1>6. disorder.acts + acts \in 0 .. MaxActs /\ (disorder.overlapped \/ more) \in BOOLEAN
  BY <1>2, <1>4
<1>7. disorder' \in [acts : 0 .. MaxActs, overlapped : BOOLEAN, broken : BOOLEAN]
  BY <1>2, <1>3, <1>6, Zenon
<1>8. Orderly' => Orderly /\ ~more
  BY <1>5 DEF Orderly
<1>9. Orderly' => Orderly /\ \A d \in Calls \ {c} : Resting(d)
  BY <1>8 DEF more
<1> QED
  BY <1>1, <1>5, <1>7, <1>9 DEF Start, To

\* A call under way is the only one, as long as calls have not overlapped.
LEMMA Alone ==
  ASSUME TeamInv, NEW c \in Calls, ~Resting(c), disorder' = disorder
  PROVE  Orderly' => Orderly /\ \A d \in Calls \ {c} : Resting(d)
BY DEF TeamInv, LeadersInv, Orderly

\* What a call knows as it begins.
LEMMA RowsNow ==
  ASSUME TeamTypeOK
  PROVE  /\ DOMAIN member \in SUBSET Nat /\ DOMAIN member \subseteq 1 .. made
         /\ made \in Nat /\ set.limit \in Nat /\ call \in [Calls -> Call]
         /\ \A t \in Teams : IsFiniteSet(InTeam(t)) /\ InTeam(t) \subseteq DOMAIN member
         /\ \A m \in DOMAIN member : /\ member[m].team \in Teams /\ member[m].student \in Students
                                     /\ member[m].state \in {"accepted", "invited"}
<1>0. made \in Nat
  BY TeamBoundsAssumption DEF TeamTypeOK
<1>1. made \in Nat /\ set.limit \in Nat
  BY <1>0, SetsAssumption DEF TeamTypeOK, GroupSet
<1>2. IsFiniteSet(1 .. made)
  BY <1>1, FS_Interval
<1>3. \A t \in Teams : InTeam(t) \subseteq DOMAIN member /\ InTeam(t) \subseteq 1 .. made
  BY DEF InTeam, TeamTypeOK
<1>4. \A t \in Teams : IsFiniteSet(InTeam(t))
  BY <1>2, <1>3, FS_Subset
<1> QED
  BY <1>1, <1>3, <1>4 DEF TeamTypeOK, Member

-----------------------------------------------------------------------------
(* The calls that only begin, one after the other.                         *)

LEMMA AddMemberKept ==
  ASSUME TeamInv, NEW c \in Calls, NEW t \in Teams, NEW u \in Students,
         NEW state \in {"accepted", "invited"}, AddMember(c, t, u, state)
  PROVE  TeamInv'
<1> DEFINE z == [Rest EXCEPT !.at = IF AllowsMultipleMemberships THEN "create" ELSE "leaving",
                             !.team = t, !.student = u, !.state = state,
                             !.leaders[t] = team[t].leader]
           acts == IF state = "accepted" THEN 0 ELSE 1
<1>1. PICK q : q = [z EXCEPT !.saw = DOMAIN member]
  OBVIOUS
<1>2. /\ call[c] = Rest /\ call' = [call EXCEPT ![c] = q]
      /\ disorder' \in [acts : 0 .. MaxActs, overlapped : BOOLEAN, broken : BOOLEAN]
      /\ disorder'.broken = disorder.broken
      /\ Orderly' => Orderly /\ \A d \in Calls \ {c} : Resting(d)
  <2>1. acts \in Nat /\ Start(c, z, acts)
    BY DEF AddMember
  <2> HIDE DEF z, acts
  <2> QED
    BY <1>1, <2>1, Started
<1>3. /\ q.at \in {"leaving", "create"} /\ (q.at = "create" => set.several)
      /\ q.team = t /\ q.student = u /\ q.after = "rest" /\ q.saw = DOMAIN member
  BY <1>1 DEF Rest, AllowsMultipleMemberships
<1>4. UNCHANGED <<set, team, member, made, owed>> /\ ~Full(t)
  BY DEF AddMember
<1>5. TeamTypeOK
  BY DEF TeamInv
<1>6. q \in Call
  <2>1. team[t].leader \in StudentOrNobody
    BY <1>5 DEF TeamTypeOK, Team
  <2>2. [x \in Teams |-> Nobody] \in [Teams -> StudentOrNobody]
    BY DEF StudentOrNobody
  <2>3. Rest.leaders = [x \in Teams |-> Nobody] /\ Rest.plan = Nowhere /\ Nowhere \in [Teams -> SUBSET Students]
    BY DEF Rest, Nowhere
  <2>4. [Rest.leaders EXCEPT ![t] = team[t].leader] \in [Teams -> StudentOrNobody]
    BY <2>1, <2>2, <2>3
  <2>5. DOMAIN member \in SUBSET Nat
    BY <1>5, RowsNow
  <2>6. Nobody \in StudentOrNobody /\ u \in StudentOrNobody
    BY DEF StudentOrNobody
  <2>7. q = [at |-> IF AllowsMultipleMemberships THEN "create" ELSE "leaving",
             team |-> t, student |-> u, state |-> state, row |-> 0, deleted |-> FALSE,
             leaders |-> [Rest.leaders EXCEPT ![t] = team[t].leader], pick |-> Nobody,
             plan |-> Nowhere, sync |-> 0, after |-> "rest", saw |-> DOMAIN member, lost |-> FALSE]
    BY <1>1 DEF Rest
  <2> QED
    BY <2>3, <2>4, <2>5, <2>6, <2>7 DEF Call
<1>7. CallTrue(q)'
  <2>1. Moves(q)'
    BY <1>3 DEF Moves, Joining
  <2>2. HoldsRow(q)'
    BY <1>3 DEF HoldsRow, Held
  <2>3. q.saw \subseteq 1 .. made'
    BY <1>3, <1>4, <1>5 DEF TeamTypeOK
  <2>4. HasRoom(q)'
    <3>1. ASSUME set.limit > 0 PROVE Cardinality(DOMAIN member \cap InTeam(t)) < set.limit
      <4>1. DOMAIN member \cap InTeam(t) = InTeam(t)
        BY DEF InTeam
      <4>2. Cardinality(InTeam(t)) \in Nat /\ set.limit \in Nat
        BY <1>5, RowsNow, FS_CardinalityType
      <4> QED
        BY <1>4, <3>1, <4>1, <4>2 DEF Full
    <3>2. set' = set /\ InTeam(t)' = InTeam(t)
      BY <1>4 DEF InTeam
    <3> QED
      BY <1>3, <3>1, <3>2 DEF HasRoom, Assigning
  <2>5. HasLeft(q)'
    BY <1>3, <1>4 DEF HasLeft, Assigning
  <2> QED
    BY <2>1, <2>2, <2>3, <2>4, <2>5 DEF CallTrue
<1>8. Leads(c, q)
  <2>1. Sound(q)'
    BY <1>3 DEF Sound
  <2>2. \A x \in Teams : ~Mends(call[c], x) /\ LedByMember(x)' = LedByMember(x)
    BY <1>2, <1>4 DEF Mends, Rest, LedByMember, IsMember, Rows, InTeam, Of, Accepted
  <2> QED
    BY <1>2, <2>1, <2>2 DEF Leads
<1>9. ~Held(q) /\ ~Joining(call[c])
  BY <1>2, <1>3 DEF Held, Joining, Rest
<1>10. team' \in [Teams -> Team] /\ team' = team
  BY <1>4, <1>5 DEF TeamTypeOK
<1> QED
  BY <1>2, <1>4, <1>6, <1>7, <1>8, <1>9, <1>10, QuietStep

\* What the plan of an assignment is when it begins.
LEMMA AssignmentBegins ==
  ASSUME TeamTypeOK, NEW order \in SetToSeqs(Unassigned)
  PROVE  /\ PlanEvenly(order) \in [Teams -> SUBSET Students] /\ Fair(PlanEvenly(order))
         /\ \A t \in Teams : t \notin Open => PlanEvenly(order)[t] = {}
         /\ \A t \in Teams : PlanEvenly(order)[t] \subseteq Unassigned
BY RowsNow, PlanIsFair

LEMMA AssignUnassignedKept ==
  ASSUME TeamInv, NEW c \in Calls, AssignUnassigned(c)
  PROVE  TeamInv'
<1>0. TeamTypeOK
  BY DEF TeamInv
<1>1. PICK order \in SetToSeqs(Unassigned) :
        /\ PlanEvenly(order) # Nowhere
        /\ Act(c, [Rest EXCEPT !.at = "assign", !.after = "assign", !.plan = PlanEvenly(order),
                     !.leaders = [t \in Teams |-> IF t \in Open THEN team[t].leader ELSE Nobody]])
  BY DEF AssignUnassigned
<1>2. PICK plan : plan = PlanEvenly(order)
  OBVIOUS
<1>3. /\ plan \in [Teams -> SUBSET Students] /\ Fair(plan) /\ plan # Nowhere
      /\ \A t \in Teams : t \notin Open => plan[t] = {}
      /\ \A t \in Teams : plan[t] \subseteq Unassigned
  BY <1>0, <1>1, <1>2, AssignmentBegins
<1> DEFINE z == [Rest EXCEPT !.at = "assign", !.after = "assign", !.plan = plan,
                   !.leaders = [t \in Teams |-> IF t \in Open THEN team[t].leader ELSE Nobody]]
<1>4. PICK q : q = [z EXCEPT !.saw = DOMAIN member]
  OBVIOUS
<1>5. /\ call[c] = Rest /\ call' = [call EXCEPT ![c] = q]
      /\ disorder' \in [acts : 0 .. MaxActs, overlapped : BOOLEAN, broken : BOOLEAN]
      /\ disorder'.broken = disorder.broken
      /\ Orderly' => Orderly /\ \A d \in Calls \ {c} : Resting(d)
  <2>1. Start(c, z, 1)
    BY <1>1, <1>2 DEF Act
  <2> HIDE DEF z
  <2> QED
    BY <1>4, <2>1, Started
<1>6. q.at = "assign" /\ q.after = "assign" /\ q.plan = plan /\ q.saw = DOMAIN member
  BY <1>4 DEF Rest
<1>7. UNCHANGED <<set, team, member, made, owed>>
  BY DEF AssignUnassigned
<1>8. q \in Call
  <2>1. [t \in Teams |-> IF t \in Open THEN team[t].leader ELSE Nobody] \in [Teams -> StudentOrNobody]
    BY <1>0 DEF TeamTypeOK, Team, StudentOrNobody
  <2>2. DOMAIN member \in SUBSET Nat
    BY <1>0, RowsNow
  <2>3. Nobody \in StudentOrNobody
    BY DEF StudentOrNobody
  <2>4. q = [at |-> "assign", team |-> 0, student |-> Nobody, state |-> "accepted", row |-> 0, deleted |-> FALSE,
             leaders |-> [t \in Teams |-> IF t \in Open THEN team[t].leader ELSE Nobody], pick |-> Nobody,
             plan |-> plan, sync |-> 0, after |-> "assign", saw |-> DOMAIN member, lost |-> FALSE]
    BY <1>4 DEF Rest
  <2> QED
    BY <1>3, <2>1, <2>2, <2>3, <2>4 DEF Call
<1>9. CallTrue(q)'
  <2>1. Moves(q)'
    BY <1>3, <1>6 DEF Moves, Joining
  <2>2. HoldsRow(q)'
    BY <1>6 DEF HoldsRow, Held
  <2>3. q.saw \subseteq 1 .. made'
    BY <1>0, <1>6, <1>7 DEF TeamTypeOK
  <2>4. HasRoom(q)'
    <3>1. ASSUME set.limit > 0, NEW t \in Teams, plan[t] # {}
          PROVE  Cardinality(DOMAIN member \cap InTeam(t)) + Cardinality(plan[t]) <= set.limit
      <4>1. DOMAIN member \cap InTeam(t) = InTeam(t)
        BY DEF InTeam
      <4>2. t \in Open
        BY <1>3, <3>1
      <4>3. set.limit \in Nat
        BY <1>0, RowsNow
      <4> QED
        BY <1>3, <3>1, <4>1, <4>2, <4>3 DEF Fair
    <3>2. set' = set /\ \A t \in Teams : InTeam(t)' = InTeam(t)
      BY <1>7 DEF InTeam
    <3> QED
      BY <1>6, <3>1, <3>2 DEF HasRoom, Joining
  <2>5. HasLeft(q)'
    <3>1. \A t, o \in Teams : t # o => plan[t] \cap plan[o] = {}
      BY <1>3 DEF Fair
    <3>2. ASSUME NEW t \in Teams, NEW u \in plan[t] PROVE Gone(q, u)'
      <4>1. TeamsOf(u) = {}
        BY <1>3, <3>2 DEF Unassigned
      <4>2. ASSUME NEW m \in Of(u) \cap Accepted PROVE team[member[m].team].deleted
        <5>1. m \in DOMAIN member /\ member[m].team \in Teams
          BY <1>0, RowsNow DEF Of
        <5>2. m \in Rows(member[m].team, u) \cap Accepted
          BY <4>2, <5>1 DEF Rows, InTeam
        <5> QED
          BY <4>1, <5>1, <5>2 DEF TeamsOf, Open
      <4> QED
        BY <1>7, <4>2 DEF Gone, Of, Accepted
    <3> QED
      BY <1>6, <3>1, <3>2 DEF HasLeft
  <2> QED
    BY <2>1, <2>2, <2>3, <2>4, <2>5 DEF CallTrue
<1>10. Leads(c, q)
  <2>1. Sound(q)'
    BY <1>6 DEF Sound
  <2>2. \A x \in Teams : ~Mends(call[c], x) /\ LedByMember(x)' = LedByMember(x)
    BY <1>5, <1>7 DEF Mends, Rest, LedByMember, IsMember, Rows, InTeam, Of, Accepted
  <2> QED
    BY <1>5, <2>1, <2>2 DEF Leads
<1>11. ~Held(q) /\ ~Joining(call[c])
  BY <1>5, <1>6 DEF Held, Joining, Rest
<1>12. team' \in [Teams -> Team] /\ team' = team
  BY <1>0, <1>7 DEF TeamTypeOK
<1> QED
  BY <1>5, <1>7, <1>8, <1>9, <1>10, <1>11, <1>12, QuietStep

\* The calls that begin without a plan or a team to join.
LEMMA BegunOnce ==
  ASSUME TeamInv, NEW c \in Calls, NEW z, Act(c, z), UNCHANGED <<set, team, member, made, owed>>,
         NEW q, q = [z EXCEPT !.saw = DOMAIN member], q \in Call, q.saw = DOMAIN member,
         q.at \in {"save", "store", "lead"}, q.after = "rest", q.team \in Teams,
         q.at = "save" => /\ q.student \in Students /\ q.row \in DOMAIN member
                          /\ member[q.row].student = q.student /\ member[q.row].team = q.team,
         q.at # "save" /\ LedByMember(q.team) => q.student = Nobody \/ IsMember(q.team, q.student)
  PROVE  TeamInv'
<1>0. TeamTypeOK
  BY DEF TeamInv
<1>1. /\ call[c] = Rest /\ call' = [call EXCEPT ![c] = q]
      /\ disorder' \in [acts : 0 .. MaxActs, overlapped : BOOLEAN, broken : BOOLEAN]
      /\ disorder'.broken = disorder.broken
      /\ Orderly' => Orderly /\ \A d \in Calls \ {c} : Resting(d)
  BY Started DEF Act
<1>2. CallTrue(q)'
  <2>1. Moves(q)'
    BY DEF Moves, Joining
  <2>2. HoldsRow(q)'
    BY <1>0, RowsNow DEF HoldsRow, Held, HeldTeam
  <2>3. q.saw \subseteq 1 .. made'
    BY <1>0 DEF TeamTypeOK
  <2>4. HasRoom(q)' /\ HasLeft(q)'
    BY DEF HasRoom, HasLeft, Joining, Assigning
  <2> QED
    BY <2>1, <2>2, <2>3, <2>4 DEF CallTrue
<1>3. Leads(c, q)
  <2>1. \A x \in Teams : ~Mends(call[c], x) /\ LedByMember(x)' = LedByMember(x)
    BY <1>1 DEF Mends, Rest, LedByMember, IsMember, Rows, InTeam, Of, Accepted
  <2>2. ASSUME Orderly' PROVE Sound(q)'
    <3>1. LedByMember(q.team)
      <4>1. Orderly /\ \A d \in Calls : call[d] = Rest
        BY <1>1, <2>2 DEF Resting, TeamInv, CallsTrue, CallTrue, Moves
      <4>2. \A d \in Calls : ~Mends(call[d], q.team)
        BY <4>1 DEF Mends, Rest
      <4> QED
        BY <4>1, <4>2 DEF TeamInv, LeadersInv
    <3>2. q.at # "save" => q.student = Nobody \/ IsMember(q.team, q.student)
      BY <3>1
    <3> QED
      BY <3>2 DEF Sound, IsMember, Rows, InTeam, Of, Accepted
  <2> QED
    BY <1>1, <2>1, <2>2 DEF Leads
<1>4. ~Joining(call[c]) /\ (Held(q) => q.row \in DOMAIN member)
  BY <1>1 DEF Held, Joining, Rest
<1>5. team' \in [Teams -> Team]
  BY <1>0 DEF TeamTypeOK
<1> QED
  BY <1>1, <1>2, <1>3, <1>4, <1>5, QuietStep

LEMMA UpdateMembershipFindKept ==
  ASSUME TeamInv, NEW c \in Calls, NEW m \in DOMAIN member, UpdateMembershipFind(c, m)
  PROVE  TeamInv'
<1>0. TeamTypeOK
  BY DEF TeamInv
<1>1. PICK state \in {"accepted", "invited"} \ {member[m].state} :
        Act(c, [Rest EXCEPT !.at = "save", !.row = m, !.team = member[m].team,
                              !.student = member[m].student, !.state = state])
  BY DEF UpdateMembershipFind
<1> DEFINE z == [Rest EXCEPT !.at = "save", !.row = m, !.team = member[m].team,
                               !.student = member[m].student, !.state = state]
<1>2. PICK q : q = [z EXCEPT !.saw = DOMAIN member]
  OBVIOUS
<1>3. q = [at |-> "save", team |-> member[m].team, student |-> member[m].student, state |-> state, row |-> m,
           deleted |-> FALSE, leaders |-> [t \in Teams |-> Nobody], pick |-> Nobody,
           plan |-> Nowhere, sync |-> 0, after |-> "rest", saw |-> DOMAIN member, lost |-> FALSE]
  BY <1>2 DEF Rest
<1>4. /\ m \in Nat /\ DOMAIN member \in SUBSET Nat
      /\ member[m].team \in Teams /\ member[m].student \in Students
  BY <1>0, RowsNow
<1>5. q \in Call
  <2>1. /\ [t \in Teams |-> Nobody] \in [Teams -> StudentOrNobody] /\ Nobody \in StudentOrNobody
        /\ Nowhere \in [Teams -> SUBSET Students] /\ member[m].student \in StudentOrNobody
    BY <1>4 DEF StudentOrNobody, Nowhere
  <2> QED
    BY <1>3, <1>4, <2>1 DEF Call
<1>6. UNCHANGED <<set, team, member, made, owed>>
  BY DEF UpdateMembershipFind
<1>7. /\ q.at = "save" /\ q.after = "rest" /\ q.team = member[m].team /\ q.student = member[m].student
      /\ q.row = m /\ q.saw = DOMAIN member
  BY <1>3
<1> HIDE DEF z
<1>8. Act(c, z)
  BY <1>1 DEF z
<1> QED
  BY <1>2, <1>4, <1>5, <1>6, <1>7, <1>8, BegunOnce

\* The two ways to edit a group.
LEMMA EditedKept ==
  ASSUME TeamInv, NEW c \in Calls, NEW t \in Teams, NEW u \in StudentOrNobody, NEW at \in {"store", "lead"},
         Act(c, [Rest EXCEPT !.at = at, !.team = t, !.student = u, !.deleted = team[t].deleted]),
         UNCHANGED <<set, team, member, made, owed>>,
         LedByMember(t) => u = Nobody \/ IsMember(t, u)
  PROVE  TeamInv'
<1>0. TeamTypeOK
  BY DEF TeamInv
<1> DEFINE z == [Rest EXCEPT !.at = at, !.team = t, !.student = u, !.deleted = team[t].deleted]
<1>2. PICK q : q = [z EXCEPT !.saw = DOMAIN member]
  OBVIOUS
<1>3. q = [at |-> at, team |-> t, student |-> u, state |-> "accepted", row |-> 0,
           deleted |-> team[t].deleted, leaders |-> [x \in Teams |-> Nobody], pick |-> Nobody,
           plan |-> Nowhere, sync |-> 0, after |-> "rest", saw |-> DOMAIN member, lost |-> FALSE]
  BY <1>2 DEF Rest
<1>5. q \in Call
  <2>1. /\ [x \in Teams |-> Nobody] \in [Teams -> StudentOrNobody] /\ Nobody \in StudentOrNobody
        /\ Nowhere \in [Teams -> SUBSET Students] /\ team[t].deleted \in BOOLEAN
    BY <1>0 DEF StudentOrNobody, Nowhere, TeamTypeOK, Team
  <2>2. DOMAIN member \in SUBSET Nat
    BY <1>0, RowsNow
  <2> QED
    BY <1>3, <2>1, <2>2, Zenon DEF Call
<1>7. /\ q.at = at /\ q.after = "rest" /\ q.team = t /\ q.student = u /\ q.saw = DOMAIN member
  BY <1>3
<1> HIDE DEF z
<1>8. Act(c, z)
  BY DEF z
<1> QED
  BY <1>2, <1>5, <1>7, <1>8, BegunOnce

LEMMA EditGroupKept ==
  ASSUME TeamInv, NEW c \in Calls, NEW t \in Teams, EditGroup(c, t)
  PROVE  TeamInv'
<1>1. team[t].leader \in StudentOrNobody
  BY DEF TeamInv, TeamTypeOK, Team
<1> QED
  BY <1>1, EditedKept DEF EditGroup, LedByMember

LEMMA SetLeaderKept ==
  ASSUME TeamInv, NEW c \in Calls, NEW t \in Teams, NEW u \in StudentOrNobody, SetLeader(c, t, u)
  PROVE  TeamInv'
BY EditedKept DEF SetLeader

-----------------------------------------------------------------------------
(* A call that sees to a leader.                                           *)

Seeing == {"check", "clear", "fill", "appoint", "reload"}

\* It goes from r to q.
Syncing(r, q) ==
  /\ q \in Call /\ Moves(q) /\ q.saw \subseteq r.saw
  /\ q.at \in {"rest", "leaving", "assign", "clear", "fill", "appoint"}
  /\ Joining(q) <=> Joining(r)
  /\ Joining(q) => q.team = r.team /\ q.student = r.student
  /\ Assigning(q) => Assigning(r) /\ q.plan = r.plan

\* With a leader for a team in its copy, a new stand, and a student to appoint.
Sees(r, t, u, at, pick) == [r EXCEPT !.leaders[t] = u, !.at = at, !.pick = pick]

LEMMA GoesOnward ==
  ASSUME NEW r \in Call, Moves(r), r.at \in Seeing,
         NEW t \in Teams, NEW u \in StudentOrNobody, NEW at \in Seeing, NEW pick \in StudentOrNobody,
         NEW z, z = Sees(r, t, u, at, pick), NEW q, q = Onward(z)
  PROVE  Syncing(r, q) /\ q.at \in {"rest", "leaving", "assign"}
<1>1. /\ z.after = r.after /\ z.plan = r.plan /\ z.team = r.team /\ z.student = r.student /\ z.saw = r.saw
      /\ r.after \in {"rest", "leaving", "assign"}
  BY DEF Call, Sees
<1>2. Nobody \in StudentOrNobody /\ Rest.saw = {} /\ Rest.at = "rest" /\ Rest.after = "rest"
  BY DEF StudentOrNobody, Rest
<1>3. CASE r.after = "rest" \/ (r.after = "assign" /\ r.plan = Nowhere)
  <2>1. q = Rest
    BY <1>1, <1>3 DEF Onward
  <2>2. Rest \in Call
    BY DEF Rest, Call, StudentOrNobody, Nowhere
  <2>3. ~Joining(r)
    BY <1>3 DEF Joining, Seeing
  <2>4. Syncing(r, q) /\ q.at \in {"rest", "leaving", "assign"}
    <3> QED
      BY <1>2, <2>1, <2>2, <2>3 DEF Syncing, Moves, Joining, Assigning
  <2> QED
    BY <2>4
<1>4. CASE ~(r.after = "rest" \/ (r.after = "assign" /\ r.plan = Nowhere))
  <2>1. q = [z EXCEPT !.at = z.after, !.pick = Nobody]
    BY <1>1, <1>4 DEF Onward
  <2>2. q = [r EXCEPT !.leaders = [r.leaders EXCEPT ![t] = u], !.at = r.after, !.pick = Nobody]
    BY <2>1 DEF Call, Sees
  <2>3. [r.leaders EXCEPT ![t] = u] \in [Teams -> StudentOrNobody]
    BY DEF Call, Sees
  <2>4. r.after \in {"leaving", "assign"}
    BY <1>1, <1>4
  <2>5. [r EXCEPT !.leaders = [r.leaders EXCEPT ![t] = u], !.at = r.after, !.pick = Nobody] \in Call
    <3> DEFINE l == [r.leaders EXCEPT ![t] = u]
    <3>1. r.after \in {"rest", "leaving", "seek", "leave", "create", "assign", "save", "lead", "store",
                       "reload", "check", "clear", "fill", "appoint"} /\ l \in [Teams -> StudentOrNobody]
      BY <2>3, <2>4
    <3> HIDE DEF l
    <3>2. [r EXCEPT !.leaders = l, !.at = r.after, !.pick = Nobody] \in Call
      BY <1>2, <3>1, Zenon DEF Call
    <3> QED
      BY <3>2 DEF l
  <2>6. /\ q.at = r.after /\ q.after = r.after /\ q.plan = r.plan /\ q.team = r.team /\ q.student = r.student
        /\ q.saw = r.saw
    BY <2>2 DEF Call
  <2>7. q \in Call
    BY <2>2, <2>5
  <2>8. Syncing(r, q) /\ q.at \in {"rest", "leaving", "assign"}
    <3>1. Moves(q)
      BY <1>4, <2>4, <2>6 DEF Moves, Joining, Seeing
    <3> QED
      BY <2>4, <2>6, <2>7, <3>1 DEF Syncing, Joining, Assigning, Seeing
  <2> QED
    BY <2>8
<1> QED
  BY <1>3, <1>4

LEMMA StaysSeeing ==
  ASSUME NEW r \in Call, Moves(r), r.at \in Seeing,
         NEW t \in Teams, NEW u \in StudentOrNobody, NEW at \in {"clear", "fill", "appoint"},
         NEW pick \in StudentOrNobody, NEW q, q = Sees(r, t, u, at, pick)
  PROVE  Syncing(r, q) /\ q.at = at /\ q.sync = r.sync /\ q.pick = pick
<1>1. /\ q.at = at /\ q.after = r.after /\ q.plan = r.plan /\ q.team = r.team /\ q.student = r.student
      /\ q.saw = r.saw /\ q.sync = r.sync /\ q.pick = pick
  BY DEF Call, Sees
<1>2. q \in Call
  <2> DEFINE l == [r.leaders EXCEPT ![t] = u]
  <2>1. l \in [Teams -> StudentOrNobody]
    BY DEF Call, Sees
  <2>2. q = [r EXCEPT !.leaders = l, !.at = at, !.pick = pick]
    BY DEF Call, Sees
  <2>3. at \in {"rest", "leaving", "seek", "leave", "create", "assign", "save", "lead", "store",
                "reload", "check", "clear", "fill", "appoint"}
    OBVIOUS
  <2> HIDE DEF l
  <2>4. [r EXCEPT !.leaders = l, !.at = at, !.pick = pick] \in Call
    BY <2>1, <2>3, Zenon DEF Call
  <2> QED
    BY <2>2, <2>4
<1>3. at \notin {"rest", "leaving", "seek", "leave", "create", "assign", "save", "lead", "store"}
      /\ r.at \notin {"rest", "leaving", "seek", "leave", "create", "assign", "save", "lead", "store"}
  BY DEF Seeing
<1>4. Syncing(r, q)
  <2>1. Moves(q)
    BY <1>1, <1>3 DEF Moves, Joining, Seeing
  <2> QED
    BY <1>1, <1>2, <1>3, <2>1 DEF Syncing, Joining, Assigning
<1> QED
  BY <1>1, <1>4

\* The step then keeps the invariant, if what it does to the leader is right.
LEMMA Synced ==
  ASSUME TeamInv, NEW c \in Calls, call[c].at \in Seeing, NEW q, Syncing(call[c], q),
         call' = [call EXCEPT ![c] = q], UNCHANGED <<set, member, made, owed, disorder>>,
         team' \in [Teams -> Team], \A t \in Teams : team'[t].deleted = team[t].deleted,
         Orderly => /\ q.at = "appoint" => IsMember(q.sync, q.pick)
                    /\ \A t \in Teams : LedByMember(t) \/ Mends(call[c], t) => LedByMember(t)' \/ Mends(q, t)
  PROVE  TeamInv'
<1>1. /\ TeamTypeOK /\ CallsTrue /\ call[c] \in Call /\ CallTrue(call[c]) /\ made \in Nat
      /\ \A m \in DOMAIN member : member[m].team \in Teams
  BY RowsNow DEF TeamInv, CallsTrue
<1>2. PICK r \in Call : r = call[c]
  BY <1>1
<1>3. q \in Call /\ Moves(q) /\ q.saw \subseteq r.saw
  BY <1>2 DEF Syncing
<1>4. Kept(q.saw)
  BY <1>1 DEF Kept
<1>5. ~Held(q) /\ HoldsRow(q)' /\ q.at \notin {"create", "seek", "leave", "check", "lead", "store"}
  BY DEF Syncing, Held, HoldsRow
<1>6. CallTrue(q)'
  <2>1. CallTrue(r) /\ made' \in Nat
    BY <1>1, <1>2
  <2>2. /\ Joining(q) => Joining(r) /\ q.team = r.team
        /\ Assigning(q) => Assigning(r) /\ q.plan = r.plan
    BY <1>2 DEF Syncing
  <2> QED
    BY <1>1, <1>3, <1>4, <1>5, <2>1, <2>2, GoesOn
<1>7. Leads(c, q)
  <2>1. ~Resting(c)
    BY DEF Resting, Seeing
  <2>2. Orderly' => Orderly /\ \A d \in Calls \ {c} : Resting(d)
    BY <2>1, Alone
  <2>3. Orderly => Sound(q)'
    BY <1>5 DEF Sound, IsMember, Rows, InTeam, Of, Accepted
  <2> QED
    BY <2>2, <2>3 DEF Leads
<1>8. \A u \in owed' : Joining(call[c]) /\ call[c].student = u => Joining(q) /\ q.student = u
  BY DEF Syncing
<1>9. disorder' \in [acts : 0 .. MaxActs, overlapped : BOOLEAN, broken : BOOLEAN]
  BY <1>1 DEF TeamTypeOK
<1> QED
  BY <1>3, <1>5, <1>6, <1>7, <1>8, <1>9, QuietStep

LEMMA Seen ==
  ASSUME TeamInv, NEW c \in Calls, call[c].at \in {"check", "reload"}, NEW leader \in StudentOrNobody
  PROVE  LET q == See(c, leader)
         IN  /\ Syncing(call[c], q) /\ q.at # "appoint" /\ call[c].sync \in Teams
             /\ Mends(q, call[c].sync) \/ leader = Nobody \/ IsMember(call[c].sync, leader)
<1>1. PICK r \in Call : r = call[c]
  BY RowsNow DEF TeamInv
<1>2. Moves(r) /\ r.at \in Seeing /\ r.sync \in Teams
  BY <1>1 DEF TeamInv, CallsTrue, CallTrue, Moves, Seeing
<1> DEFINE t == r.sync
<1>7. PICK next : next = [r EXCEPT !.leaders[t] = leader]
  OBVIOUS
<1>8. PICK q : q = See(c, leader)
  OBVIOUS
<1>3. r.pick \in StudentOrNobody /\ r.at \in Seeing
  BY <1>2 DEF Call
<1>4. CASE leader # Nobody /\ ~IsMember(t, leader)
  <2>1. q = Sees(r, t, leader, "clear", r.pick)
    BY <1>1, <1>8, <1>4 DEF See, Call, Sees
  <2>2. Syncing(r, q) /\ q.at = "clear" /\ q.sync = t
    BY <1>2, <1>3, <2>1, StaysSeeing
  <2>3. Mends(q, t)
    BY <2>2 DEF Mends
  <2> QED
    BY <1>1, <1>2, <1>8, <2>2, <2>3
<1>5. CASE ~(leader # Nobody /\ ~IsMember(t, leader)) /\ (leader # Nobody \/ set.auto = "")
  <2>1. q = Onward(next)
    BY <1>1, <1>7, <1>8, <1>5 DEF See
  <2>2. next = Sees(r, t, leader, r.at, r.pick)
    BY <1>7 DEF Call, Sees
  <2>3. Syncing(r, q) /\ q.at \in {"rest", "leaving", "assign"}
    BY <1>2, <1>3, <2>1, <2>2, GoesOnward
  <2> QED
    BY <1>1, <1>2, <1>8, <1>5, <2>3
<1>6. CASE ~(leader # Nobody /\ ~IsMember(t, leader)) /\ ~(leader # Nobody \/ set.auto = "")
  <2>1. q = Sees(r, t, leader, "fill", r.pick)
    BY <1>1, <1>8, <1>6 DEF See, Call, Sees
  <2>2. Syncing(r, q) /\ q.at = "fill"
    BY <1>2, <1>3, <2>1, StaysSeeing
  <2> QED
    BY <1>1, <1>2, <1>8, <1>6, <2>2
<1> QED
  BY <1>4, <1>5, <1>6

\* The rows of a team and its leader are as they were.
LEMMA LedAsBefore ==
  ASSUME UNCHANGED member, NEW t, team'[t].leader = team[t].leader
  PROVE  LedByMember(t)' = LedByMember(t)
BY DEF LedByMember, IsMember, Rows, InTeam, Of, Accepted

LEMMA SeenKept ==
  ASSUME TeamInv, NEW c \in Calls, call[c].at \in {"check", "reload"}, NEW leader \in StudentOrNobody,
         call' = [call EXCEPT ![c] = See(c, leader)], UNCHANGED <<set, team, member, made, owed, disorder>>,
         Orderly => leader = team[call[c].sync].leader \/ LedByMember(call[c].sync)
  PROVE  TeamInv'
<1>1. PICK q : q = See(c, leader)
  OBVIOUS
<1>2. /\ Syncing(call[c], q) /\ q.at # "appoint" /\ call[c].sync \in Teams
      /\ Mends(q, call[c].sync) \/ leader = Nobody \/ IsMember(call[c].sync, leader)
  BY <1>1, Seen
<1>3. team' \in [Teams -> Team]
  BY DEF TeamInv, TeamTypeOK
<1>4. ASSUME Orderly, NEW t \in Teams, LedByMember(t) \/ Mends(call[c], t)
      PROVE  LedByMember(t)' \/ Mends(q, t)
  <2>1. LedByMember(t)' = LedByMember(t)
    BY LedAsBefore
  <2>2. CASE t = call[c].sync
    <3>1. leader = Nobody \/ IsMember(t, leader) => LedByMember(t)
      BY <1>4, <2>2 DEF LedByMember
    <3> QED
      BY <1>2, <2>1, <2>2, <3>1
  <2>3. CASE t # call[c].sync
    BY <1>4, <2>1, <2>3 DEF Mends
  <2> QED
    BY <2>2, <2>3
<1>5. call[c].at \in Seeing
  BY DEF Seeing
<1> QED
  BY <1>1, <1>2, <1>3, <1>4, <1>5, Synced

LEMMA SyncCheckKept ==
  ASSUME TeamInv, NEW c \in Calls, SyncCheck(c)
  PROVE  TeamInv'
<1>1. call[c].at = "check" /\ call[c].sync \in Teams /\ call[c] \in Call
  BY RowsNow DEF SyncCheck, Standing, TeamInv, CallsTrue, CallTrue, Moves
<1>2. call[c].leaders[call[c].sync] \in StudentOrNobody
  BY <1>1 DEF Call
<1>3. Orderly => call[c].leaders[call[c].sync] = team[call[c].sync].leader \/ LedByMember(call[c].sync)
  BY <1>1 DEF TeamInv, LeadersInv, Sound
<1> QED
  BY <1>1, <1>2, <1>3, SeenKept DEF SyncCheck, To

LEMMA ReloadKept ==
  ASSUME TeamInv, NEW c \in Calls, Reload(c)
  PROVE  TeamInv'
<1>1. call[c].at = "reload" /\ call[c].sync \in Teams
  BY DEF Reload, Standing, TeamInv, CallsTrue, CallTrue, Moves
<1>2. team[call[c].sync].leader \in StudentOrNobody
  BY <1>1 DEF TeamInv, TeamTypeOK, Team
<1> QED
  BY <1>1, <1>2, SeenKept DEF Reload, To

\* A team's leader is set.
LEMMA LeadTyped ==
  ASSUME TeamTypeOK, NEW t \in Teams, NEW u \in StudentOrNobody, Lead(t, u)
  PROVE  /\ team' \in [Teams -> Team] /\ team'[t].leader = u
         /\ \A o \in Teams : team'[o].deleted = team[o].deleted /\ (o # t => team'[o].leader = team[o].leader)
<1>1. team \in [Teams -> Team] /\ team[t] \in Team
  BY DEF TeamTypeOK
<1>2. [team[t] EXCEPT !.leader = u] \in Team
  BY <1>1, Zenon DEF Team
<1>3. team' = [team EXCEPT ![t] = [team[t] EXCEPT !.leader = u]]
  BY <1>1 DEF Lead
<1>4. [team[t] EXCEPT !.leader = u].deleted = team[t].deleted /\ [team[t] EXCEPT !.leader = u].leader = u
  BY <1>1 DEF Team
<1>5. PICK row \in Team : row = [team[t] EXCEPT !.leader = u]
  BY <1>2
<1> QED
  BY <1>1, <1>3, <1>4, <1>5

LEMMA SyncClearKept ==
  ASSUME TeamInv, NEW c \in Calls, SyncClear(c)
  PROVE  TeamInv'
<1>1. PICK r \in Call : r = call[c]
  BY RowsNow DEF TeamInv
<1>2. Moves(r) /\ r.at = "clear" /\ r.at \in Seeing /\ r.sync \in Teams
  BY <1>1 DEF TeamInv, CallsTrue, CallTrue, Moves, Seeing, SyncClear, Standing
<1> DEFINE t == r.sync
           next == [r EXCEPT !.leaders[t] = Nobody]
<1>3. r.pick \in StudentOrNobody /\ Nobody \in StudentOrNobody
  BY DEF Call, StudentOrNobody
<1>4. PICK q : q = IF set.auto = "" THEN Onward(next) ELSE [next EXCEPT !.at = "fill"]
  OBVIOUS
<1>5. Syncing(r, q) /\ q.at # "appoint"
  <2>1. CASE set.auto = ""
    <3>1. PICK z : z = next
      OBVIOUS
    <3>2. z = Sees(r, t, Nobody, r.at, r.pick) /\ q = Onward(z)
      BY <1>4, <2>1, <3>1 DEF Call, Sees
    <3>3. Syncing(r, q) /\ q.at \in {"rest", "leaving", "assign"}
      <4> HIDE DEF t, next
      <4>1. t \in Teams
        BY <1>2 DEF t
      <4> QED
        BY <1>2, <1>3, <3>2, <4>1, GoesOnward
    <3> QED
      BY <3>3
  <2>2. CASE set.auto # ""
    <3>1. q = Sees(r, t, Nobody, "fill", r.pick)
      BY <1>4, <2>2 DEF Call, Sees
    <3> QED
      BY <1>2, <1>3, <3>1, StaysSeeing
  <2> QED
    BY <2>1, <2>2
<1>6. /\ Lead(t, Nobody) /\ call' = [call EXCEPT ![c] = q]
      /\ UNCHANGED <<set, member, made, owed, disorder>>
  BY <1>1, <1>4 DEF SyncClear, To
<1>7. /\ team' \in [Teams -> Team] /\ team'[t].leader = Nobody
      /\ \A o \in Teams : team'[o].deleted = team[o].deleted /\ (o # t => team'[o].leader = team[o].leader)
  BY <1>2, <1>3, <1>6, LeadTyped DEF TeamInv
<1>8. ASSUME NEW o \in Teams, LedByMember(o) \/ Mends(call[c], o) PROVE LedByMember(o)'
  <2>1. CASE o = t
    BY <1>7, <2>1 DEF LedByMember
  <2>2. CASE o # t
    <3>1. LedByMember(o)' = LedByMember(o)
      BY <1>6, <1>7, <2>2, LedAsBefore
    <3> QED
      BY <1>1, <1>8, <2>2, <3>1 DEF Mends
  <2> QED
    BY <2>1, <2>2
<1> QED
  BY <1>1, <1>2, <1>5, <1>6, <1>7, <1>8, Synced

LEMMA SyncFillKept ==
  ASSUME TeamInv, NEW c \in Calls, SyncFill(c)
  PROVE  TeamInv'
<1>1. PICK r \in Call : r = call[c]
  BY RowsNow DEF TeamInv
<1>2. Moves(r) /\ r.at = "fill" /\ r.at \in Seeing /\ r.sync \in Teams
  BY <1>1 DEF TeamInv, CallsTrue, CallTrue, Moves, Seeing, SyncFill, Standing
<1>3. UNCHANGED <<set, team, member, made, owed, disorder>>
  BY DEF SyncFill
<1>4. /\ team' \in [Teams -> Team] /\ \A t \in Teams : team'[t].deleted = team[t].deleted
      /\ r.pick \in StudentOrNobody /\ r.leaders[r.sync] \in StudentOrNobody
  BY <1>2, <1>3 DEF Call, TeamInv, TeamTypeOK
<1>5. \A t \in Teams : LedByMember(t) \/ Mends(call[c], t) => LedByMember(t)'
  BY <1>1, <1>2, <1>3, LedAsBefore DEF Mends
<1> DEFINE candidates == InTeam(r.sync) \cap Accepted
<1>6. CASE candidates = {}
  <2>1. PICK q : q = Onward(r)
    OBVIOUS
  <2>2. r = Sees(r, r.sync, r.leaders[r.sync], r.at, r.pick)
    BY DEF Call, Sees
  <2>3. Syncing(r, q) /\ q.at # "appoint"
    BY <1>2, <1>4, <2>1, <2>2, GoesOnward
  <2>4. call' = [call EXCEPT ![c] = q]
    BY <1>1, <1>6, <2>1 DEF SyncFill, To
  <2> QED
    BY <1>1, <1>2, <1>3, <1>4, <1>5, <2>3, <2>4, Synced
<1>7. CASE candidates # {}
  <2>1. PICK m \in IF set.auto = "first" THEN {Min(candidates)} ELSE candidates :
          call' = [call EXCEPT ![c] = [r EXCEPT !.at = "appoint", !.pick = member[m].student]]
    BY <1>1, <1>7 DEF SyncFill, To
  <2>2. candidates \in SUBSET Nat
    BY <1>2, RowsNow DEF TeamInv
  <2>3. Min(candidates) \in candidates
    <3> HIDE DEF candidates
    <3> QED
      BY <1>7, <2>2, Least
  <2>4. m \in candidates
    BY <2>1, <2>3
  <2>5. m \in DOMAIN member /\ member[m].student \in Students /\ IsMember(r.sync, member[m].student)
    BY <2>4, RowsNow DEF TeamInv, InTeam, IsMember, Rows, Of
  <2>6. PICK q : q = [r EXCEPT !.at = "appoint", !.pick = member[m].student]
    OBVIOUS
  <2>7. Syncing(r, q) /\ q.sync = r.sync /\ q.pick = member[m].student
    <3>1. q = Sees(r, r.sync, r.leaders[r.sync], "appoint", member[m].student)
      BY <2>6 DEF Call, Sees
    <3>2. member[m].student \in StudentOrNobody
      BY <2>5 DEF StudentOrNobody
    <3> QED
      BY <1>2, <1>4, <3>1, <3>2, StaysSeeing
  <2>8. call' = [call EXCEPT ![c] = q]
    BY <2>1, <2>6
  <2>9. IsMember(q.sync, q.pick)
    BY <2>5, <2>7
  <2> QED
    BY <1>1, <1>2, <1>3, <1>4, <1>5, <2>7, <2>8, <2>9, Synced
<1> QED
  BY <1>6, <1>7

LEMMA SyncAppointKept ==
  ASSUME TeamInv, NEW c \in Calls, SyncAppoint(c)
  PROVE  TeamInv'
<1>1. PICK r \in Call : r = call[c]
  BY RowsNow DEF TeamInv
<1>2. Moves(r) /\ r.at = "appoint" /\ r.at \in Seeing /\ r.sync \in Teams
  BY <1>1 DEF TeamInv, CallsTrue, CallTrue, Moves, Seeing, SyncAppoint, Standing
<1> DEFINE t == r.sync
           next == [r EXCEPT !.leaders[t] = r.pick]
<1>3. r.pick \in StudentOrNobody
  BY DEF Call
<1>4. PICK q : q = Onward(next)
  OBVIOUS
<1>5. Syncing(r, q) /\ q.at # "appoint"
  <2>1. next = Sees(r, t, r.pick, r.at, r.pick)
    BY DEF Call, Sees
  <2> QED
    BY <1>2, <1>3, <1>4, <2>1, GoesOnward
<1>6. /\ Lead(t, r.pick) /\ call' = [call EXCEPT ![c] = q]
      /\ UNCHANGED <<set, member, made, owed, disorder>>
  BY <1>1, <1>4 DEF SyncAppoint, To
<1>7. /\ team' \in [Teams -> Team] /\ team'[t].leader = r.pick
      /\ \A o \in Teams : team'[o].deleted = team[o].deleted /\ (o # t => team'[o].leader = team[o].leader)
  BY <1>2, <1>3, <1>6, LeadTyped DEF TeamInv
<1>8. ASSUME Orderly, NEW o \in Teams, LedByMember(o) \/ Mends(call[c], o) PROVE LedByMember(o)'
  <2>1. CASE o = t
    <3>1. IsMember(t, r.pick)
      BY <1>1, <1>2, <1>8 DEF TeamInv, LeadersInv, Sound
    <3>2. IsMember(t, r.pick)'
      BY <1>6, <3>1 DEF IsMember, Rows, InTeam, Of, Accepted
    <3> QED
      BY <1>7, <2>1, <3>2 DEF LedByMember, IsMember, Rows, InTeam, Of, Accepted
  <2>2. CASE o # t
    <3>1. LedByMember(o)' = LedByMember(o)
      BY <1>6, <1>7, <2>2, LedAsBefore
    <3> QED
      BY <1>1, <1>2, <1>8, <3>1 DEF Mends
  <2> QED
    BY <2>1, <2>2
<1> QED
  BY <1>1, <1>2, <1>5, <1>6, <1>7, <1>8, Synced

-----------------------------------------------------------------------------
(* The other steps that leave the memberships alone.                       *)

\* A joining call looks for the student's other teams.
LEMMA LooksFurther ==
  ASSUME TeamInv, NEW c \in Calls, NEW r \in Call, r = call[c], r.at \in {"leaving", "seek"},
         NEW q \in Call, q.at \in {"create", "seek", "leave"}, q.saw \subseteq r.saw,
         q.team = r.team, q.student = r.student, q.after = r.after, q.plan = r.plan,
         call' = [call EXCEPT ![c] = q], UNCHANGED <<set, team, member, made, owed, disorder>>,
         q.at = "create" => q.lost \/ Gone(q, r.student),
         q.at # "create" => /\ q.sync \in Teams
                            /\ Orderly => q.leaders[q.sync] = team[q.sync].leader,
         q.at = "leave" => /\ q.row \in DOMAIN member
                           /\ member[q.row].student = r.student /\ member[q.row].team = q.sync
  PROVE  TeamInv'
<1>1. /\ TeamTypeOK /\ CallTrue(r) /\ made \in Nat /\ DOMAIN member \subseteq 1 .. made
      /\ \A m \in DOMAIN member : member[m].team \in Teams
  BY RowsNow DEF TeamInv, CallsTrue
<1>2. Kept(q.saw)
  BY <1>1 DEF Kept
<1>3. Moves(q)
  BY <1>1 DEF CallTrue, Moves, Joining
<1>4. HoldsRow(q)'
  BY <1>1 DEF HoldsRow, Held, HeldTeam
<1>5. CallTrue(q)'
  <2>1. Joining(r) /\ made' \in Nat
    BY <1>1 DEF Joining
  <2>2. Assigning(q) => Assigning(r)
    BY DEF Assigning
  <2>3. q.at = "create" => q.lost \/ Gone(q, q.student)'
    BY DEF Gone, Of, Accepted
  <2> QED
    BY <1>1, <1>2, <1>3, <1>4, <2>1, <2>2, <2>3, GoesOn
<1>6. Leads(c, q)
  <2>1. Orderly' => Orderly /\ \A d \in Calls \ {c} : Resting(d)
    BY Alone DEF Resting
  <2>2. Orderly => Sound(q)'
    BY DEF Sound
  <2>3. \A t \in Teams : ~Mends(call[c], t) /\ LedByMember(t)' = LedByMember(t)
    BY LedAsBefore DEF Mends
  <2> QED
    BY <2>1, <2>2, <2>3 DEF Leads
<1>7. /\ Joining(q) /\ (Held(q) => q.row \in DOMAIN member)
      /\ disorder' \in [acts : 0 .. MaxActs, overlapped : BOOLEAN, broken : BOOLEAN]
      /\ team' \in [Teams -> Team]
  BY <1>1 DEF Joining, Held, TeamTypeOK
<1> QED
  BY <1>5, <1>6, <1>7, QuietStep

\* It finds that another call has moved the student.
LEMMA LosesKept ==
  ASSUME TeamInv, NEW c \in Calls, NEW r \in Call, r = call[c], r.at \in {"leaving", "seek"}, Lose(c),
         UNCHANGED <<set, team, member, made, owed, disorder>>
  PROVE  TeamInv'
<1>1. PICK q : q = [r EXCEPT !.at = "create", !.lost = TRUE]
  OBVIOUS
<1>2. q \in Call
  <2>1. TRUE \in BOOLEAN
    OBVIOUS
  <2> QED
    BY <1>1, <2>1, Zenon DEF Call
<1>3. /\ q.at = "create" /\ q.saw = r.saw /\ q.team = r.team /\ q.student = r.student
      /\ q.after = r.after /\ q.plan = r.plan /\ q.lost
  BY <1>1 DEF Call
<1>4. call' = [call EXCEPT ![c] = q]
  BY <1>1 DEF Lose, To
<1> QED
  BY <1>2, <1>3, <1>4, LooksFurther

LEMMA LeaveFindKept ==
  ASSUME TeamInv, NEW c \in Calls, LeaveFind(c)
  PROVE  TeamInv'
<1>1. PICK r \in Call : r = call[c]
  BY RowsNow DEF TeamInv
<1>2. /\ r.at = "leaving" /\ UNCHANGED <<set, team, member, made, owed, disorder>> /\ TeamTypeOK
      /\ r.student \in Students
  BY <1>1 DEF LeaveFind, Standing, TeamInv, CallsTrue, CallTrue, Moves, Joining
<1> DEFINE u == r.student
<1>3. CASE TeamsOf(u) = {}
  <2>1. PICK q : q = [r EXCEPT !.at = "create"]
    OBVIOUS
  <2>2. q \in Call
    BY <2>1, Zenon DEF Call
  <2>3. /\ q.at = "create" /\ q.saw = r.saw /\ q.team = r.team /\ q.student = r.student
        /\ q.after = r.after /\ q.plan = r.plan
    BY <2>1 DEF Call
  <2>4. Gone(q, u)
    <3> SUFFICES ASSUME NEW m \in Of(u) \cap Accepted PROVE team[member[m].team].deleted
      BY DEF Gone
    <3>1. m \in DOMAIN member /\ member[m].team \in Teams
      BY <1>2, RowsNow DEF Of
    <3>2. m \in Rows(member[m].team, u) \cap Accepted
      BY <3>1 DEF Rows, InTeam
    <3> QED
      BY <1>3, <3>1, <3>2 DEF TeamsOf, Open
  <2>5. call' = [call EXCEPT ![c] = q]
    BY <1>1, <1>3, <2>1 DEF LeaveFind, GoTo, To
  <2> QED
    BY <1>1, <1>2, <2>2, <2>3, <2>4, <2>5, LooksFurther
<1>4. CASE TeamsOf(u) # {} /\ Min(TeamsOf(u)) = r.team
  <2>1. Lose(c)
    BY <1>1, <1>4 DEF LeaveFind
  <2> QED
    BY <1>1, <1>2, <2>1, LosesKept
<1>5. CASE TeamsOf(u) # {} /\ Min(TeamsOf(u)) # r.team
  <2>1. PICK t \in Teams : t = Min(TeamsOf(u)) /\ Copy(c, t)
    <3>1. \A t \in TeamsOf(u) : t \in Nat /\ t \in Teams
      BY TeamsAssumption DEF TeamsOf, Open
    <3>2. Min(TeamsOf(u)) \in TeamsOf(u)
      BY <1>5, <3>1, Least
    <3> QED
      BY <1>1, <1>5, <3>1, <3>2 DEF LeaveFind
  <2> DEFINE l == [r.leaders EXCEPT ![t] = team[t].leader]
  <2>2. PICK q : q = [r EXCEPT !.at = "seek", !.sync = t, !.leaders[t] = team[t].leader]
    OBVIOUS
  <2>3. q = [r EXCEPT !.at = "seek", !.sync = t, !.leaders = l]
    BY <2>2 DEF Call
  <2>4. l \in [Teams -> StudentOrNobody] /\ l[t] = team[t].leader /\ t \in Teams \cup {0}
    BY <1>2 DEF Call, TeamTypeOK, Team
  <2> HIDE DEF l
  <2>5. q \in Call
    BY <2>3, <2>4, Zenon DEF Call
  <2>6. /\ q.at = "seek" /\ q.saw = r.saw /\ q.team = r.team /\ q.student = r.student
        /\ q.after = r.after /\ q.plan = r.plan /\ q.sync = t /\ q.leaders = l
    BY <2>3 DEF Call
  <2>7. call' = [call EXCEPT ![c] = q]
    BY <1>1, <2>1, <2>2 DEF Copy, To
  <2>8. q.sync \in Teams /\ q.leaders[q.sync] = team[q.sync].leader
    BY <2>4, <2>6
  <2> QED
    BY <1>1, <1>2, <2>5, <2>6, <2>7, <2>8, LooksFurther
<1> QED
  BY <1>3, <1>4, <1>5

LEMMA LeaveSeekKept ==
  ASSUME TeamInv, NEW c \in Calls, LeaveSeek(c)
  PROVE  TeamInv'
<1>1. PICK r \in Call : r = call[c]
  BY RowsNow DEF TeamInv
<1>2. /\ r.at = "seek" /\ UNCHANGED <<set, team, member, made, owed, disorder>> /\ TeamTypeOK
      /\ r.sync \in Teams
  BY <1>1 DEF LeaveSeek, Standing, TeamInv, CallsTrue, CallTrue, Moves
<1>3. CASE Lose(c)
  BY <1>1, <1>2, <1>3, LosesKept
<1>4. CASE \E m \in Rows(r.sync, r.student) : To(c, [call[c] EXCEPT !.at = "leave", !.row = m])
  <2>1. PICK m \in Rows(r.sync, r.student) : call' = [call EXCEPT ![c] = [r EXCEPT !.at = "leave", !.row = m]]
    BY <1>1, <1>4 DEF To
  <2>2. m \in DOMAIN member /\ m \in Nat /\ member[m].student = r.student /\ member[m].team = r.sync
    BY <1>2, RowsNow DEF Rows, InTeam, Of
  <2>3. PICK q : q = [r EXCEPT !.at = "leave", !.row = m]
    OBVIOUS
  <2>4. q \in Call
    BY <2>2, <2>3, Zenon DEF Call
  <2>5. /\ q.at = "leave" /\ q.saw = r.saw /\ q.team = r.team /\ q.student = r.student
        /\ q.after = r.after /\ q.plan = r.plan /\ q.sync = r.sync /\ q.row = m /\ q.leaders = r.leaders
    BY <2>3 DEF Call
  <2>6. Orderly => q.leaders[q.sync] = team[q.sync].leader
    BY <1>1, <1>2, <2>5 DEF TeamInv, LeadersInv, Sound
  <2>7. call' = [call EXCEPT ![c] = q]
    BY <2>1, <2>3
  <2> QED
    BY <1>1, <1>2, <2>2, <2>4, <2>5, <2>6, <2>7, LooksFurther
<1> QED
  BY <1>1, <1>3, <1>4 DEF LeaveSeek

LEMMA SetLeaderSaveKept ==
  ASSUME TeamInv, NEW c \in Calls, SetLeaderSave(c)
  PROVE  TeamInv'
<1>1. PICK r \in Call : r = call[c]
  BY RowsNow DEF TeamInv
<1>2. /\ r.at = "lead" /\ r.team \in Teams /\ r.student \in StudentOrNobody /\ CallTrue(r) /\ TeamTypeOK
      /\ made \in Nat /\ \A m \in DOMAIN member : member[m].team \in Teams
  BY <1>1, RowsNow DEF SetLeaderSave, Standing, TeamInv, CallsTrue, CallTrue, Moves, Call
<1>3. PICK q : q = [r EXCEPT !.at = "store"]
  OBVIOUS
<1>4. q \in Call
  BY <1>3, Zenon DEF Call
<1>5. /\ q.at = "store" /\ q.saw = r.saw /\ q.team = r.team /\ q.student = r.student /\ q.after = r.after
      /\ q.plan = r.plan
  BY <1>3 DEF Call
<1>6. /\ Lead(r.team, r.student) /\ call' = [call EXCEPT ![c] = q]
      /\ UNCHANGED <<set, member, made, owed, disorder>>
  BY <1>1, <1>3 DEF SetLeaderSave, GoTo, To
<1>7. /\ team' \in [Teams -> Team] /\ team'[r.team].leader = r.student
      /\ \A o \in Teams : team'[o].deleted = team[o].deleted /\ (o # r.team => team'[o].leader = team[o].leader)
  BY <1>2, <1>6, LeadTyped
<1>8. ~Joining(r) /\ ~Assigning(r) /\ ~Joining(q) /\ ~Assigning(q) /\ ~Held(q) /\ HoldsRow(q)'
  BY <1>2, <1>5 DEF CallTrue, Moves, Joining, Assigning, Held, HoldsRow
<1>9. CallTrue(q)'
  <2>1. Moves(q)
    BY <1>2, <1>5, <1>8 DEF CallTrue, Moves, Assigning, Joining
  <2>2. Kept(q.saw)
    BY <1>2, <1>6, <1>7 DEF Kept
  <2>3. made' \in Nat
    BY <1>2, <1>6
  <2> QED
    BY <1>2, <1>4, <1>5, <1>8, <2>1, <2>2, <2>3, GoesOn
<1>10. Leads(c, q)
  <2>1. Orderly' => Orderly /\ \A d \in Calls \ {c} : Resting(d)
    BY <1>1, <1>2, <1>6, Alone DEF Resting
  <2>2. ASSUME Orderly PROVE r.student = Nobody \/ IsMember(r.team, r.student)'
    <3>1. r.student = Nobody \/ IsMember(r.team, r.student)
      BY <1>1, <1>2, <2>2 DEF TeamInv, LeadersInv, Sound
    <3> QED
      BY <1>6, <3>1 DEF IsMember, Rows, InTeam, Of, Accepted
  <2>3. Orderly => Sound(q)'
    BY <1>5, <2>2 DEF Sound, IsMember, Rows, InTeam, Of, Accepted
  <2>4. ASSUME Orderly, NEW t \in Teams, LedByMember(t) \/ Mends(call[c], t) PROVE LedByMember(t)'
    <3>1. CASE t = r.team
      BY <1>7, <2>2, <2>4, <3>1 DEF LedByMember, IsMember, Rows, InTeam, Of, Accepted
    <3>2. CASE t # r.team
      <4>1. LedByMember(t)' = LedByMember(t)
        BY <1>6, <1>7, <3>2, LedAsBefore
      <4> QED
        BY <1>1, <1>2, <2>4, <4>1 DEF Mends
    <3> QED
      BY <3>1, <3>2
  <2> QED
    BY <2>1, <2>3, <2>4 DEF Leads
<1>11. disorder' \in [acts : 0 .. MaxActs, overlapped : BOOLEAN, broken : BOOLEAN]
  BY <1>2, <1>6 DEF TeamTypeOK
<1> QED
  BY <1>1, <1>4, <1>6, <1>7, <1>8, <1>9, <1>10, <1>11, QuietStep

LEMMA BreaksOffKept ==
  ASSUME TeamInv, NEW c \in Calls, BreaksOff(c)
  PROVE  TeamInv'
<1>1. PICK r \in Call : r = call[c]
  BY RowsNow DEF TeamInv
<1>2. /\ CallTrue(r) /\ TeamTypeOK /\ made \in Nat /\ MaxActs \in Nat
      /\ \A m \in DOMAIN member : member[m].team \in Teams
  BY <1>1, RowsNow, TeamBoundsAssumption DEF TeamInv, CallsTrue
<1>3. /\ UNCHANGED <<set, team, member, made>> /\ owed' = owed \ {r.student} /\ owed' \subseteq owed
      /\ disorder' = [disorder EXCEPT !.acts = @ + 1, !.broken = TRUE] /\ disorder.acts < MaxActs
  BY <1>1 DEF BreaksOff
<1>4. /\ disorder' \in [acts : 0 .. MaxActs, overlapped : BOOLEAN, broken : BOOLEAN]
      /\ disorder'.broken = TRUE
  <2>1. disorder \in [acts : 0 .. MaxActs, overlapped : BOOLEAN, broken : BOOLEAN]
    BY <1>2 DEF TeamTypeOK
  <2>2. disorder.acts + 1 \in 0 .. MaxActs /\ TRUE \in BOOLEAN
    BY <1>2, <1>3, <2>1
  <2>3. disorder'.broken = TRUE
    BY <1>3, <2>1
  <2> QED
    BY <1>3, <2>1, <2>2, <2>3, Zenon
<1>5. PICK q : /\ q = Rest \/ (r.at \in {"leaving", "seek"} /\ q = [r EXCEPT !.at = "create"])
               /\ call' = [call EXCEPT ![c] = q]
  BY <1>1 DEF BreaksOff, To, GoTo, Standing
<1>6. /\ q \in Call /\ CallTrue(q)' /\ ~Held(q)
  <2>1. CASE q = Rest
    <3>1. q \in Call
      BY <2>1 DEF Rest, Call, StudentOrNobody, Nowhere
    <3>2. q.at = "rest" /\ q.after = "rest" /\ q.saw = {}
      BY <2>1 DEF Rest
    <3>3. Moves(q) /\ ~Held(q) /\ HoldsRow(q)' /\ ~Joining(q) /\ ~Assigning(q)
      BY <2>1, <3>2 DEF Moves, Held, HoldsRow, Joining, Assigning
    <3>4. CallTrue(q)'
      BY <3>2, <3>3 DEF CallTrue, HasRoom, HasLeft, Moves, Joining, Assigning
    <3> QED
      BY <3>1, <3>3, <3>4
  <2>2. CASE r.at \in {"leaving", "seek"} /\ q = [r EXCEPT !.at = "create"]
    <3>1. q \in Call
      BY <2>2, Zenon DEF Call
    <3>2. /\ q.at = "create" /\ q.saw = r.saw /\ q.team = r.team /\ q.student = r.student
          /\ q.after = r.after /\ q.plan = r.plan
      BY <2>2 DEF Call
    <3>3. Moves(q) /\ ~Held(q) /\ HoldsRow(q)'
      BY <1>2, <2>2, <3>2 DEF CallTrue, Moves, Joining, Held, HoldsRow
    <3>4. Kept(q.saw)
      BY <1>2, <1>3, <1>4 DEF Kept
    <3>5. Joining(r) /\ (Assigning(q) => Assigning(r)) /\ made' \in Nat
      BY <1>2, <1>3, <2>2, <3>2 DEF Joining, Assigning
    <3>6. CallTrue(q)'
      BY <1>2, <1>4, <3>1, <3>2, <3>3, <3>4, <3>5, GoesOn
    <3> QED
      BY <3>1, <3>3, <3>6
  <2> QED
    BY <1>5, <2>1, <2>2
<1>7. Leads(c, q)
  BY <1>4 DEF Leads, Orderly
<1>8. team' \in [Teams -> Team]
  BY <1>2, <1>3 DEF TeamTypeOK
<1> QED
  BY <1>1, <1>3, <1>4, <1>5, <1>6, <1>7, <1>8, QuietStep

LEMMA DeleteGroupKept ==
  ASSUME TeamInv, NEW t \in Teams, DeleteGroup(t)
  PROVE  TeamInv'
<1>1. /\ UNCHANGED <<set, member, made, call, owed>> /\ team' = [team EXCEPT ![t].deleted = TRUE]
      /\ disorder' = [disorder EXCEPT !.acts = @ + 1] /\ disorder.acts < MaxActs
  BY DEF DeleteGroup
<1>2. /\ TeamTypeOK /\ CallsTrue /\ made \in Nat /\ MaxActs \in Nat /\ call \in [Calls -> Call]
      /\ \A m \in DOMAIN member : member[m].team \in Teams
  BY RowsNow, TeamBoundsAssumption DEF TeamInv
<1>3. /\ team' \in [Teams -> Team]
      /\ \A o \in Teams : /\ team'[o].leader = team[o].leader
                          /\ team[o].deleted => team'[o].deleted
  <2>1. team \in [Teams -> Team] /\ team[t] \in Team
    BY <1>2 DEF TeamTypeOK
  <2>2. PICK row : row = [team[t] EXCEPT !.deleted = TRUE]
    OBVIOUS
  <2>3. row \in Team
    BY <2>1, <2>2, Zenon DEF Team
  <2>4. row.leader = team[t].leader /\ row.deleted = TRUE
    BY <2>1, <2>2 DEF Team
  <2>5. team' = [team EXCEPT ![t] = row]
    BY <1>1, <2>1, <2>2
  <2> QED
    BY <2>1, <2>3, <2>4, <2>5
<1>4. /\ disorder' \in [acts : 0 .. MaxActs, overlapped : BOOLEAN, broken : BOOLEAN]
      /\ disorder'.broken = disorder.broken /\ disorder'.overlapped = disorder.overlapped
  <2>1. disorder \in [acts : 0 .. MaxActs, overlapped : BOOLEAN, broken : BOOLEAN]
    BY <1>2 DEF TeamTypeOK
  <2>2. disorder.acts + 1 \in 0 .. MaxActs
    BY <1>1, <1>2, <2>1
  <2>3. disorder'.broken = disorder.broken /\ disorder'.overlapped = disorder.overlapped
    BY <1>1, <2>1
  <2> QED
    BY <1>1, <2>1, <2>2, <2>3, Zenon
<1>5. TeamTypeOK'
  BY <1>1, <1>2, <1>3, <1>4 DEF TeamTypeOK, Rows, InTeam, Of
<1>6. ASSUME NEW c \in Calls PROVE CallTrue(call[c])'
  <2>1. PICK r \in Call : r = call[c]
    BY <1>2
  <2>2. CallTrue(r) /\ Moves(r) /\ HoldsRow(r)'
    BY <1>1, <1>2, <2>1 DEF CallsTrue, CallTrue, HoldsRow
  <2>3. Kept(r.saw) /\ made' \in Nat
    BY <1>1, <1>2, <1>3, <1>4 DEF Kept
  <2>4. CallTrue(r)'
    BY <1>2, <2>2, <2>3, GoesOn
  <2> QED
    BY <1>1, <2>1, <2>4
<1>7. CallsTrue'
  BY <1>1, <1>2, <1>6 DEF CallsTrue, Agree, Held, HeldTeam
<1>8. NobodyStranded'
  BY <1>1 DEF TeamInv, NobodyStranded, BetweenTeams, Of
<1>9. LeadersInv'
  <2> SUFFICES ASSUME Orderly' PROVE LeadersInv'
    BY DEF LeadersInv, Orderly
  <2>1. Orderly
    BY <1>4 DEF Orderly
  <2>2. \A o \in Teams : LedByMember(o)' = LedByMember(o)
    BY <1>1, <1>3, LedAsBefore
  <2>3. ASSUME NEW c \in Calls PROVE Sound(call[c])'
    <3>1. PICK r \in Call : r = call[c]
      BY <1>2
    <3>2. Sound(r) /\ Moves(r)
      BY <1>2, <2>1, <3>1 DEF TeamInv, LeadersInv, CallsTrue, CallTrue
    <3>3. r.at \in {"seek", "leave", "check"} =>
            LedByMember(r.sync)' = LedByMember(r.sync) /\ team'[r.sync].leader = team[r.sync].leader
      BY <1>3, <2>2, <3>2 DEF Moves
    <3>4. Sound(r)'
      BY <1>1, <3>2, <3>3 DEF Sound, IsMember, Rows, InTeam, Of, Accepted
    <3> QED
      BY <1>1, <3>1, <3>4
  <2> QED
    BY <1>1, <2>1, <2>2, <2>3 DEF TeamInv, LeadersInv, Resting, Mends
<1> QED
  BY <1>5, <1>7, <1>8, <1>9 DEF TeamInv

-----------------------------------------------------------------------------
(* The steps that change memberships.                                      *)

LEMMA AtMostOne ==
  ASSUME NEW S, IsFiniteSet(S)
  PROVE  Cardinality(S) <= 1 <=> \A m, n \in S : m = n
<1>1. ASSUME Cardinality(S) <= 1, NEW m \in S, NEW n \in S PROVE m = n
  <2>1. Cardinality(S) \in Nat /\ Cardinality(S) # 0
    BY FS_CardinalityType, FS_EmptySet
  <2>2. Cardinality(S) = 1
    BY <1>1, <2>1
  <2> QED
    BY <2>2, FS_Singleton
<1>2. ASSUME \A m, n \in S : m = n PROVE Cardinality(S) <= 1
  <2>1. CASE S = {}
    BY <2>1, FS_EmptySet
  <2>2. CASE S # {}
    <3>1. PICK m : m \in S
      BY <2>2
    <3>2. S = {m}
      BY <1>2, <3>1
    <3> QED
      BY <3>2, FS_Singleton
  <2> QED
    BY <2>1, <2>2
<1> QED
  BY <1>1, <1>2

\* The rows, and by idx_group_user one for a student in a team.
RowsTyped ==
  /\ DOMAIN member \subseteq 1 .. made
  /\ \A m \in DOMAIN member : member[m] \in Member
  /\ \A m, n \in DOMAIN member : member[m].team = member[n].team /\ member[m].student = member[n].student
                                   => m = n

RowsIn(f, t, u) == {m \in DOMAIN f : f[m].team = t /\ f[m].student = u}

LEMMA OneRowEach ==
  ASSUME NEW k \in Nat, NEW f, DOMAIN f \subseteq 1 .. k, \A m \in DOMAIN f : f[m] \in Member
  PROVE  (\A t \in Teams, u \in Students : Cardinality(RowsIn(f, t, u)) <= 1)
           <=> \A m, n \in DOMAIN f : f[m].team = f[n].team /\ f[m].student = f[n].student => m = n
<1>1. IsFiniteSet(1 .. k)
  BY FS_Interval
<1>2. ASSUME NEW t \in Teams, NEW u \in Students
      PROVE  Cardinality(RowsIn(f, t, u)) <= 1 <=> \A m, n \in RowsIn(f, t, u) : m = n
  <2>1. RowsIn(f, t, u) \subseteq 1 .. k
    BY DEF RowsIn
  <2> QED
    BY <1>1, <2>1, FS_Subset, AtMostOne
<1>3. \A m \in DOMAIN f : f[m].team \in Teams /\ f[m].student \in Students
  BY DEF Member
<1>4. ASSUME \A t \in Teams, u \in Students : \A m, n \in RowsIn(f, t, u) : m = n,
             NEW m \in DOMAIN f, NEW n \in DOMAIN f, f[m].team = f[n].team, f[m].student = f[n].student
      PROVE  m = n
  <2>1. m \in RowsIn(f, f[m].team, f[m].student) /\ n \in RowsIn(f, f[m].team, f[m].student)
    BY <1>4 DEF RowsIn
  <2> QED
    BY <1>3, <1>4, <2>1
<1>5. ASSUME \A m, n \in DOMAIN f : f[m].team = f[n].team /\ f[m].student = f[n].student => m = n,
             NEW t \in Teams, NEW u \in Students, NEW m \in RowsIn(f, t, u), NEW n \in RowsIn(f, t, u)
      PROVE  m = n
  BY <1>5 DEF RowsIn
<1> QED
  BY <1>2, <1>4, <1>5

LEMMA RowsTypedNow ==
  ASSUME TeamTypeOK
  PROVE  RowsTyped
<1>1. made \in Nat /\ DOMAIN member \subseteq 1 .. made /\ \A m \in DOMAIN member : member[m] \in Member
  BY RowsNow DEF TeamTypeOK
<1>2. \A t \in Teams, u \in Students : Cardinality(RowsIn(member, t, u)) <= 1
  <2>1. \A t, u : Rows(t, u) = RowsIn(member, t, u)
    BY DEF Rows, InTeam, Of, RowsIn
  <2> QED
    BY <2>1 DEF TeamTypeOK
<1> QED
  BY <1>1, <1>2, OneRowEach DEF RowsTyped

\* A step of one call.
LEMMA MovingStep ==
  ASSUME TeamInv, NEW c \in Calls, NEW q \in Call, call' = [d \in Calls |-> call'[d]], call'[c] = q,
         CallTrue(q)', Others(c), RowsAs, set' = set, made <= made', made' \in 0 .. MaxRows, RowsTyped',
         team' \in [Teams -> Team], owed' \subseteq Students,
         disorder' \in [acts : 0 .. MaxActs, overlapped : BOOLEAN, broken : BOOLEAN],
         ~Held(q), Holds(c, q), Leads(c, q)
  PROVE  TeamInv'
<1>1. TeamTypeOK /\ CallsTrue /\ made' \in Nat
  BY DEF TeamInv
<1>2. call' \in [Calls -> Call] /\ CallsTrue'
  BY <1>1, CallsKept
<1>3. \A t \in Teams, u \in Students : Cardinality(Rows(t, u)') <= 1
  <2>1. \A t, u : Rows(t, u)' = RowsIn(member', t, u)
    BY DEF Rows, InTeam, Of, RowsIn
  <2>2. \A t \in Teams, u \in Students : Cardinality(RowsIn(member', t, u)) <= 1
    BY <1>1, OneRowEach DEF RowsTyped
  <2> QED
    BY <2>1, <2>2
<1>4. TeamTypeOK'
  BY <1>1, <1>2, <1>3 DEF TeamTypeOK, RowsTyped
<1>5. \A d \in Calls \ {c} : /\ call'[d].at = call[d].at /\ call'[d].after = call[d].after
                             /\ call'[d].student = call[d].student
  <2> SUFFICES ASSUME NEW d \in Calls \ {c}
               PROVE  /\ call'[d].at = call[d].at /\ call'[d].after = call[d].after
                      /\ call'[d].student = call[d].student
    OBVIOUS
  <2>1. call[d] \in Call /\ call'[d] = [call[d] EXCEPT !.saw = call'[d].saw]
    BY <1>1 DEF TeamTypeOK, Others
  <2> QED
    BY <2>1 DEF Call
<1>6. NobodyStranded' /\ LeadersInv'
  BY <1>5, NobodyLeft, LeadersKept DEF TeamInv
<1> QED
  BY <1>2, <1>4, <1>6 DEF TeamInv

\* All but one call stay as they are.
LEMMA OthersStay ==
  ASSUME TeamTypeOK, NEW c \in Calls, NEW q, call' = [call EXCEPT ![c] = q],
         \A d \in Calls : Kept(call[d].saw)
  PROVE  call' = [d \in Calls |-> call'[d]] /\ call'[c] = q /\ Others(c)
<1>1. call \in [Calls -> Call]
  BY DEF TeamTypeOK
<1>2. \A d \in Calls \ {c} : call[d] = [call[d] EXCEPT !.saw = call[d].saw]
  BY <1>1 DEF Call
<1> QED
  BY <1>1, <1>2 DEF Others

LEMMA RowRemoved ==
  ASSUME TeamTypeOK, NEW m, member' = Without(m), UNCHANGED <<set, team, made>>,
         disorder.broken => disorder'.broken
  PROVE  /\ RowsTyped' /\ RowsAs /\ \A S : Kept(S)
         /\ \A u : m \notin Of(u) => Of(u)' = Of(u)
         /\ \A t : m \notin InTeam(t) => LedByMember(t)' = LedByMember(t)
<1>1. RowsTyped /\ made \in Nat /\ \A n \in DOMAIN member : member[n].team \in Teams
  BY RowsTypedNow, RowsNow
<1>2. DOMAIN member' = DOMAIN member \ {m} /\ \A n \in DOMAIN member' : member'[n] = member[n]
  BY DEF Without
<1>3. RowsTyped'
  BY <1>1, <1>2 DEF RowsTyped
<1>4. RowsAs
  BY <1>2 DEF RowsAs
<1>5. \A S : Kept(S)
  BY <1>1, <1>2 DEF Kept
<1>6. \A u : m \notin Of(u) => Of(u)' = Of(u)
  BY <1>2 DEF Of
<1>7. ASSUME NEW t, m \notin InTeam(t) PROVE LedByMember(t)' = LedByMember(t)
  <2>1. ASSUME NEW u PROVE Rows(t, u)' = Rows(t, u) /\ (Rows(t, u) \cap Accepted)' = Rows(t, u) \cap Accepted
    BY <1>2, <1>7 DEF Rows, InTeam, Of, Accepted
  <2> QED
    BY <2>1 DEF LedByMember, IsMember
<1> QED
  BY <1>3, <1>4, <1>5, <1>6, <1>7

LEMMA LeaveDeleteKept ==
  ASSUME TeamInv, NEW c \in Calls, LeaveDelete(c)
  PROVE  TeamInv'
<1>1. PICK r \in Call : r = call[c]
  BY RowsNow DEF TeamInv
<1>2. /\ TeamTypeOK /\ CallTrue(r) /\ made \in Nat
      /\ r.at = "leave" /\ r.sync \in Teams /\ Joining(r) /\ HoldsRow(r)
  BY <1>1, RowsNow DEF TeamInv, CallsTrue, CallTrue, Moves, Joining, LeaveDelete, Standing
<1>3. PICK q : q = SeeTo(r, r.sync, "leaving")
  OBVIOUS
<1>4. /\ member' = Without(r.row) /\ UNCHANGED <<set, team, made, owed, disorder>>
      /\ call' = [call EXCEPT ![c] = q]
  BY <1>1, <1>3 DEF LeaveDelete, To
<1>5. q \in Call
  BY <1>2, <1>3, Zenon DEF Call, SeeTo
<1>6. /\ q.at = "check" /\ q.sync = r.sync /\ q.after = "leaving" /\ q.team = r.team /\ q.student = r.student
      /\ q.saw = r.saw /\ q.leaders = r.leaders
  BY <1>3 DEF SeeTo, Call
<1>7. /\ RowsTyped' /\ RowsAs /\ \A S : Kept(S)
      /\ \A u : r.row \notin Of(u) => Of(u)' = Of(u)
      /\ \A t : r.row \notin InTeam(t) => LedByMember(t)' = LedByMember(t)
  BY <1>2, <1>4, RowRemoved
<1>8. r.row \in DOMAIN member => member[r.row].student = r.student /\ member[r.row].team = r.sync
  BY <1>2 DEF HoldsRow, Held, HeldTeam
<1>9. CallTrue(q)' /\ ~Held(q)
  <2>1. Moves(q) /\ ~Held(q) /\ HoldsRow(q)' /\ ~Assigning(q)
    BY <1>2, <1>6 DEF CallTrue, Moves, Joining, Held, HoldsRow, Assigning
  <2>2. made' \in Nat
    BY <1>2, <1>4
  <2> QED
    BY <1>2, <1>5, <1>6, <1>7, <2>1, <2>2, GoesOn
<1>10. Holds(c, q)
  <2> SUFFICES ASSUME NEW u \in owed, Of(u)' = {}, u # r.student PROVE Of(u) = {}
    BY <1>1, <1>4, <1>6 DEF Holds, Joining
  <2>1. r.row \notin Of(u)
    BY <1>8 DEF Of
  <2> QED
    BY <1>7, <2>1
<1>11. Leads(c, q)
  <2>1. Orderly' => Orderly /\ \A d \in Calls \ {c} : Resting(d)
    BY <1>1, <1>2, <1>4, Alone DEF Resting
  <2>2. Orderly => Sound(q)'
    <3>1. Orderly => r.leaders[r.sync] = team[r.sync].leader
      BY <1>1, <1>2 DEF TeamInv, LeadersInv, Sound
    <3> QED
      BY <1>4, <1>6, <3>1 DEF Sound
  <2>3. ASSUME NEW t \in Teams, LedByMember(t) \/ Mends(call[c], t) PROVE LedByMember(t)' \/ Mends(q, t)
    <3>1. CASE t = r.sync
      BY <1>6, <3>1 DEF Mends
    <3>2. CASE t # r.sync
      <4>1. r.row \notin InTeam(t)
        BY <1>8, <3>2 DEF InTeam
      <4> QED
        BY <1>1, <1>2, <1>7, <2>3, <4>1 DEF Mends
    <3> QED
      BY <3>1, <3>2
  <2> QED
    BY <2>1, <2>2, <2>3 DEF Leads
<1>12. call' = [d \in Calls |-> call'[d]] /\ call'[c] = q /\ Others(c)
  BY <1>2, <1>4, <1>7, OthersStay
<1>13. /\ set' = set /\ made <= made' /\ made' \in 0 .. MaxRows
       /\ team' \in [Teams -> Team] /\ owed' \subseteq Students
       /\ disorder' \in [acts : 0 .. MaxActs, overlapped : BOOLEAN, broken : BOOLEAN]
  BY <1>2, <1>4 DEF TeamTypeOK
<1> QED
  BY <1>5, <1>7, <1>9, <1>10, <1>11, <1>12, <1>13, MovingStep

LEMMA RemoveMemberKept ==
  ASSUME TeamInv, NEW c \in Calls, NEW m \in DOMAIN member, RemoveMember(c, m)
  PROVE  TeamInv'
<1>1. TeamTypeOK /\ made \in Nat /\ member[m].team \in Teams
  BY RowsNow DEF TeamInv
<1>2. PICK t \in Teams : t = member[m].team
  BY <1>1
<1> DEFINE z == [Rest EXCEPT !.at = "reload", !.sync = t]
<1>3. PICK q : q = [z EXCEPT !.saw = DOMAIN member]
  OBVIOUS
<1>4. /\ call[c] = Rest /\ call' = [call EXCEPT ![c] = q]
      /\ disorder' \in [acts : 0 .. MaxActs, overlapped : BOOLEAN, broken : BOOLEAN]
      /\ disorder'.broken = disorder.broken
      /\ Orderly' => Orderly /\ \A d \in Calls \ {c} : Resting(d)
  <2>1. Start(c, z, 1)
    BY <1>2 DEF RemoveMember, Act
  <2> HIDE DEF z
  <2> QED
    BY <1>3, <2>1, Started
<1>5. q \in Call
  <2>1. DOMAIN member \in SUBSET Nat
    BY <1>1, RowsNow
  <2>2. q = [at |-> "reload", team |-> 0, student |-> Nobody, state |-> "accepted", row |-> 0,
             deleted |-> FALSE, leaders |-> [x \in Teams |-> Nobody], pick |-> Nobody,
             plan |-> Nowhere, sync |-> t, after |-> "rest", saw |-> DOMAIN member, lost |-> FALSE]
    BY <1>3 DEF Rest
  <2>3. /\ [x \in Teams |-> Nobody] \in [Teams -> StudentOrNobody] /\ Nobody \in StudentOrNobody
        /\ Nowhere \in [Teams -> SUBSET Students]
    BY DEF StudentOrNobody, Nowhere
  <2> QED
    BY <2>1, <2>2, <2>3 DEF Call
<1>6. q.at = "reload" /\ q.sync = t /\ q.after = "rest" /\ q.saw = DOMAIN member
  BY <1>3 DEF Rest
<1>7. /\ member' = Without(m) /\ owed' = owed \ {member[m].student} /\ UNCHANGED <<set, team, made>>
  BY DEF RemoveMember
<1>8. /\ RowsTyped' /\ RowsAs /\ \A S : Kept(S)
      /\ \A u : m \notin Of(u) => Of(u)' = Of(u)
      /\ \A o : m \notin InTeam(o) => LedByMember(o)' = LedByMember(o)
  BY <1>1, <1>4, <1>7, RowRemoved
<1>9. CallTrue(q)' /\ ~Held(q)
  <2>1. Moves(q)' /\ ~Held(q) /\ HoldsRow(q)' /\ ~Assigning(q) /\ ~Joining(q)
    BY <1>6 DEF Moves, Joining, Held, HoldsRow, Assigning
  <2>2. q.saw \subseteq 1 .. made'
    BY <1>1, <1>6, <1>7 DEF TeamTypeOK
  <2> QED
    BY <1>6, <2>1, <2>2 DEF CallTrue, HasRoom, HasLeft, Joining, Assigning
<1>10. Holds(c, q)
  <2> SUFFICES ASSUME NEW u \in owed, u # member[m].student, Of(u)' = {}
               PROVE  Of(u) = {} /\ ~Joining(call[c])
    BY <1>7 DEF Holds
  <2>1. m \notin Of(u)
    BY DEF Of
  <2> QED
    BY <1>4, <1>8, <2>1 DEF Joining, Rest
<1>11. Leads(c, q)
  <2>1. Sound(q)'
    BY <1>6 DEF Sound
  <2>2. ASSUME NEW o \in Teams, LedByMember(o) \/ Mends(call[c], o) PROVE LedByMember(o)' \/ Mends(q, o)
    <3>1. CASE o = t
      BY <1>6, <3>1 DEF Mends
    <3>2. CASE o # t
      <4>1. m \notin InTeam(o)
        BY <1>2, <3>2 DEF InTeam
      <4> QED
        BY <1>4, <1>8, <2>2, <4>1 DEF Mends, Rest
    <3> QED
      BY <3>1, <3>2
  <2> QED
    BY <1>4, <2>1, <2>2 DEF Leads
<1>12. call' = [d \in Calls |-> call'[d]] /\ call'[c] = q /\ Others(c)
  BY <1>1, <1>4, <1>8, OthersStay
<1>13. /\ set' = set /\ made <= made' /\ made' \in 0 .. MaxRows
       /\ team' \in [Teams -> Team] /\ owed' \subseteq Students
  BY <1>1, <1>7 DEF TeamTypeOK
<1> QED
  BY <1>4, <1>5, <1>8, <1>9, <1>10, <1>11, <1>12, <1>13, MovingStep

LEMMA RestTrue ==
  /\ Rest \in Call /\ ~Held(Rest) /\ ~Joining(Rest) /\ CallTrue(Rest)' /\ Sound(Rest)'
  /\ \A t : ~Mends(Rest, t)
<1>1. Rest \in Call
  BY DEF Rest, Call, StudentOrNobody, Nowhere
<1>2. Rest.at = "rest" /\ Rest.after = "rest" /\ Rest.saw = {}
  BY DEF Rest
<1>3. Moves(Rest)' /\ ~Held(Rest) /\ HoldsRow(Rest)' /\ ~Joining(Rest) /\ ~Assigning(Rest)
  BY <1>2 DEF Moves, Held, HoldsRow, Joining, Assigning
<1>4. CallTrue(Rest)'
  BY <1>2, <1>3 DEF CallTrue, HasRoom, HasLeft, Joining, Assigning
<1> QED
  BY <1>1, <1>2, <1>3, <1>4 DEF Sound, Mends

\* A call whose insert or save is refused.
LEMMA GivesUp ==
  ASSUME TeamInv, NEW c \in Calls, call[c].at \in {"create", "assign", "save"},
         call' = [call EXCEPT ![c] = Rest], UNCHANGED <<set, team, member, made, owed, disorder>>,
         Joining(call[c]) => Of(call[c].student) # {}
  PROVE  TeamInv'
<1>1. Leads(c, Rest)
  <2>1. Orderly' => Orderly /\ \A d \in Calls \ {c} : Resting(d)
    BY Alone DEF Resting
  <2>2. \A t \in Teams : ~Mends(call[c], t) /\ LedByMember(t)' = LedByMember(t)
    BY LedAsBefore DEF Mends
  <2> QED
    BY <2>1, <2>2, RestTrue DEF Leads
<1>2. /\ team' \in [Teams -> Team]
      /\ disorder' \in [acts : 0 .. MaxActs, overlapped : BOOLEAN, broken : BOOLEAN]
  BY DEF TeamInv, TeamTypeOK
<1> QED
  BY <1>1, <1>2, RestTrue, QuietStep

LEMMA RowAdded ==
  ASSUME TeamTypeOK, NEW t \in Teams, NEW u \in Students, NEW state \in {"accepted", "invited"},
         NEW c, Joins(c, t, u, state), Rows(t, u) = {}, UNCHANGED <<set, team, disorder>>
  PROVE  /\ DOMAIN member' = DOMAIN member \cup {made + 1}
         /\ \A m \in DOMAIN member : member'[m] = member[m]
         /\ member'[made + 1] = [team |-> t, student |-> u, state |-> state]
         /\ made' = made + 1 /\ made' \in 0 .. MaxRows /\ made <= made'
         /\ RowsTyped' /\ RowsAs /\ \A S \in SUBSET (1 .. made) : Kept(S)
         /\ \A v : Of(v) # {} => Of(v)' # {}
         /\ Of(u)' # {} /\ owed' = owed \cup {u} /\ owed' \subseteq Students
         /\ \A o \in Teams : LedByMember(o) => LedByMember(o)'
<1>1. /\ RowsTyped /\ made \in Nat /\ \A n \in DOMAIN member : member[n].team \in Teams
      /\ DOMAIN member \subseteq 1 .. made /\ MaxRows \in Nat
  BY RowsTypedNow, RowsNow, TeamBoundsAssumption
<1>2. made + 1 \notin DOMAIN member
  BY <1>1
<1>3. /\ DOMAIN member' = DOMAIN member \cup {made + 1}
      /\ \A m \in DOMAIN member : member'[m] = member[m]
      /\ member'[made + 1] = [team |-> t, student |-> u, state |-> state]
  BY <1>2 DEF Joins, With
<1>4. made' = made + 1 /\ made' \in 0 .. MaxRows /\ made <= made'
  BY <1>1 DEF Joins
<1>5. /\ member'[made + 1].team = t /\ member'[made + 1].student = u /\ member'[made + 1] \in Member
  BY <1>3 DEF Member
<1>6. RowsTyped'
  <2>1. \A n \in DOMAIN member : ~(member[n].team = t /\ member[n].student = u)
    BY DEF Rows, InTeam, Of
  <2>2. DOMAIN member' \subseteq 1 .. made'
    BY <1>1, <1>3, <1>4
  <2>3. \A m \in DOMAIN member' : member'[m] \in Member
    BY <1>1, <1>3, <1>5 DEF RowsTyped
  <2>4. \A m, n \in DOMAIN member' : member'[m].team = member'[n].team /\ member'[m].student = member'[n].student
                                       => m = n
    BY <1>1, <1>3, <1>5, <2>1 DEF RowsTyped
  <2> QED
    BY <2>2, <2>3, <2>4 DEF RowsTyped
<1>7. RowsAs
  BY <1>1, <1>3 DEF RowsAs
<1>8. ASSUME NEW S \in SUBSET (1 .. made) PROVE Kept(S)
  <2>1. S \cap DOMAIN member' \subseteq DOMAIN member
    BY <1>1, <1>3
  <2> QED
    BY <1>1, <1>3, <1>4, <2>1 DEF Kept
<1>9. \A v : Of(v) # {} => Of(v)' # {}
  BY <1>3 DEF Of
<1>10. made + 1 \in Of(u)'
  BY <1>3, <1>5 DEF Of
<1>11. owed' = owed \cup {u} /\ owed' \subseteq Students
  BY DEF Joins, TeamTypeOK
<1>12. ASSUME NEW o \in Teams, LedByMember(o) PROVE LedByMember(o)'
  <2>1. \A v : IsMember(o, v) => IsMember(o, v)'
    BY <1>3 DEF IsMember, Rows, InTeam, Of, Accepted
  <2>2. team' = team
    OBVIOUS
  <2>3. \A v : IsMember(o, v)' = (Rows(o, v) \cap Accepted # {})'
    BY DEF IsMember
  <2> QED
    BY <1>12, <2>1, <2>2 DEF LedByMember, IsMember, Rows, InTeam, Of, Accepted
<1> QED
  BY <1>3, <1>4, <1>6, <1>7, <1>8, <1>9, <1>10, <1>11, <1>12

LEMMA CreateKept ==
  ASSUME TeamInv, NEW c \in Calls, Create(c)
  PROVE  TeamInv'
<1>1. PICK r \in Call : r = call[c]
  BY RowsNow DEF TeamInv
<1>2. /\ TeamTypeOK /\ CallTrue(r) /\ made \in Nat /\ call \in [Calls -> Call]
      /\ r.at = "create" /\ r.team \in Teams /\ r.student \in Students /\ r.state \in {"accepted", "invited"}
  BY <1>1, RowsNow DEF TeamInv, CallsTrue, CallTrue, Moves, Joining, Create, Standing, Call
<1>5. PICK t \in Teams : t = r.team
  BY <1>2
<1>6. PICK u \in Students : u = r.student
  BY <1>2
<1>7. PICK state \in {"accepted", "invited"} : state = r.state
  BY <1>2
<1>3. CASE Refused(t, u)
  <2>1. call' = [call EXCEPT ![c] = Rest] /\ UNCHANGED <<set, team, member, made, owed, disorder>>
    BY <1>1, <1>3, <1>5, <1>6 DEF Create, To
  <2>2. Of(u) # {}
    BY <1>3 DEF Refused, Rows
  <2> QED
    BY <1>1, <1>2, <1>6, <2>1, <2>2, GivesUp
<1>4. CASE ~Refused(t, u)
  <2>1. PICK q : q = SeeTo(r, t, "rest")
    OBVIOUS
  <2>2. /\ Joins(c, t, u, state) /\ call' = [call EXCEPT ![c] = q] /\ UNCHANGED <<set, team, disorder>>
        /\ Rows(t, u) = {}
    BY <1>1, <1>4, <1>5, <1>6, <1>7, <2>1 DEF Create, To, Refused
  <2>3. /\ made' = made + 1 /\ made' \in 0 .. MaxRows /\ made <= made'
        /\ RowsTyped' /\ RowsAs /\ \A S \in SUBSET (1 .. made) : Kept(S)
        /\ \A v : Of(v) # {} => Of(v)' # {}
        /\ Of(u)' # {} /\ owed' = owed \cup {u} /\ owed' \subseteq Students
        /\ \A o \in Teams : LedByMember(o) => LedByMember(o)'
    BY <1>2, <2>2, RowAdded
  <2>4. q \in Call
    BY <1>2, <2>1, Zenon DEF Call, SeeTo
  <2>5. q.at = "check" /\ q.sync = t /\ q.after = "rest" /\ q.saw = r.saw
    BY <2>1 DEF SeeTo, Call
  <2>6. CallTrue(q)' /\ ~Held(q) /\ ~Joining(q)
    <3>1. Moves(q) /\ ~Held(q) /\ HoldsRow(q)' /\ ~Assigning(q) /\ ~Joining(q)
      BY <1>2, <2>5 DEF Moves, Joining, Held, HoldsRow, Assigning
    <3>2. made' \in Nat /\ Kept(q.saw)
      BY <1>2, <2>3, <2>5 DEF CallTrue
    <3> QED
      BY <1>2, <2>4, <2>5, <3>1, <3>2, GoesOn
  <2>7. Holds(c, q)
    BY <1>1, <1>6, <2>3 DEF Holds, Joining
  <2>8. Leads(c, q)
    <3>1. Orderly' => Orderly /\ \A d \in Calls \ {c} : Resting(d)
      BY <1>1, <1>2, <2>2, Alone DEF Resting
    <3>2. \A o \in Teams : ~Mends(call[c], o)
      BY <1>1, <1>2 DEF Mends
    <3>3. Orderly => LedByMember(t)
      <4>1. ASSUME Orderly, NEW d \in Calls PROVE ~Mends(call[d], t)
        BY <1>1, <1>2, <3>1, <2>2, <4>1 DEF Mends, Resting, Orderly
      <4> QED
        BY <1>2, <4>1 DEF TeamInv, LeadersInv
    <3>4. Orderly => Sound(q)'
      BY <1>2, <2>3, <2>5, <3>3 DEF Sound, LedByMember, IsMember, Rows, InTeam, Of, Accepted
    <3> QED
      BY <2>3, <3>1, <3>2, <3>4 DEF Leads
  <2>9. call' = [d \in Calls |-> call'[d]] /\ call'[c] = q /\ Others(c)
    <3>1. \A d \in Calls : Kept(call[d].saw)
      BY <2>3 DEF TeamInv, CallsTrue, CallTrue
    <3> QED
      BY <1>2, <2>2, <3>1, OthersStay
  <2>10. /\ team' \in [Teams -> Team]
         /\ disorder' \in [acts : 0 .. MaxActs, overlapped : BOOLEAN, broken : BOOLEAN]
    BY <1>2, <2>2 DEF TeamTypeOK
  <2> QED
    BY <2>2, <2>3, <2>4, <2>6, <2>7, <2>8, <2>9, <2>10, MovingStep
<1> QED
  BY <1>3, <1>4

\* The next student of an assignment's plan.
LEMMA PlannedNext ==
  ASSUME TeamInv, NEW c \in Calls, call[c].at = "assign"
  PROVE  LET t == Min({s \in Teams : call[c].plan[s] # {}})
         IN  t \in Teams /\ call[c].plan[t] # {} /\ call[c].plan[t] \subseteq Students
<1> DEFINE S == {s \in Teams : call[c].plan[s] # {}}
<1>1. call[c].plan \in [Teams -> SUBSET Students] /\ call[c].plan # Nowhere
  BY RowsNow DEF TeamInv, CallsTrue, CallTrue, Moves, Call
<1>2. S \in SUBSET Nat /\ S # {}
  <2>1. S # {}
    BY <1>1 DEF Nowhere
  <2> QED
    BY <2>1, TeamsAssumption
<1>3. Min(S) \in S
  <2> HIDE DEF S
  <2> QED
    BY <1>2, Least
<1> QED
  BY <1>1, <1>3

LEMMA AssignCreateKept ==
  ASSUME TeamInv, NEW c \in Calls, AssignCreate(c)
  PROVE  TeamInv'
<1>1. PICK r \in Call : r = call[c]
  BY RowsNow DEF TeamInv
<1>2. /\ TeamTypeOK /\ CallTrue(r) /\ made \in Nat /\ r.at = "assign" /\ r.after = "assign"
      /\ ~Joining(r) /\ r.plan \in [Teams -> SUBSET Students] /\ r.saw \subseteq 1 .. made
  BY <1>1, RowsNow DEF TeamInv, CallsTrue, CallTrue, Moves, Joining, AssignCreate, Standing, Call
<1>3. PICK t \in Teams : t = Min({s \in Teams : r.plan[s] # {}}) /\ r.plan[t] # {}
  BY <1>1, <1>2, PlannedNext
<1>4. PICK u \in r.plan[t] :
        IF Refused(t, u)
          THEN To(c, Rest) /\ UNCHANGED <<member, made, owed>>
          ELSE /\ Joins(c, t, u, "accepted")
               /\ LET next == [r EXCEPT !.plan[t] = @ \ {u}, !.saw = @ \cup {made + 1}]
                  IN  To(c, IF next.plan[t] # {} THEN next ELSE SeeTo(next, t, "assign"))
  BY <1>1, <1>3 DEF AssignCreate
<1>5. UNCHANGED <<set, team, disorder>> /\ u \in Students
  BY <1>2 DEF AssignCreate
<1>6. CASE Refused(t, u)
  BY <1>1, <1>2, <1>4, <1>5, <1>6, GivesUp DEF To
<1>7. CASE ~Refused(t, u)
  <2> DEFINE plan == [r.plan EXCEPT ![t] = @ \ {u}]
             saw == r.saw \cup {made + 1}
  <2>1. PICK next : next = [r EXCEPT !.plan = plan, !.saw = saw]
    OBVIOUS
  <2>2. next = [r EXCEPT !.plan[t] = @ \ {u}, !.saw = @ \cup {made + 1}]
    BY <2>1 DEF Call
  <2>3. /\ plan \in [Teams -> SUBSET Students] /\ plan[t] = r.plan[t] \ {u}
        /\ \A o \in Teams : o # t => plan[o] = r.plan[o]
        /\ saw \in SUBSET Nat
    BY <1>2 DEF Call
  <2>4. PICK p : p = plan
    OBVIOUS
  <2>5. PICK seen : seen = saw
    OBVIOUS
  <2>6. /\ next \in Call /\ next.plan = p /\ next.saw = seen /\ next.at = "assign" /\ next.after = "assign"
        /\ next.team = r.team /\ next.student = r.student
    <3> HIDE DEF plan, saw
    <3>1. next \in Call
      BY <2>1, <2>3, Zenon DEF Call
    <3> QED
      BY <1>2, <2>1, <2>4, <2>5, <3>1 DEF Call
  <2>7. PICK q : q = IF next.plan[t] # {} THEN next ELSE SeeTo(next, t, "assign")
    OBVIOUS
  <2>8. /\ Joins(c, t, u, "accepted") /\ call' = [call EXCEPT ![c] = q] /\ Rows(t, u) = {}
    BY <1>4, <1>7, <2>2, <2>7 DEF To, Refused
  <2>9. /\ DOMAIN member' = DOMAIN member \cup {made + 1}
        /\ \A m \in DOMAIN member : member'[m] = member[m]
        /\ member'[made + 1] = [team |-> t, student |-> u, state |-> "accepted"]
        /\ made' = made + 1 /\ made' \in 0 .. MaxRows /\ made <= made'
        /\ RowsTyped' /\ RowsAs /\ \A S \in SUBSET (1 .. made) : Kept(S)
        /\ \A v : Of(v) # {} => Of(v)' # {}
        /\ Of(u)' # {} /\ owed' = owed \cup {u} /\ owed' \subseteq Students
        /\ \A o \in Teams : LedByMember(o) => LedByMember(o)'
    BY <1>2, <1>5, <2>8, RowAdded
  <2>10. /\ q \in Call /\ q.plan = p /\ q.saw = seen /\ q.after = "assign"
         /\ (q.at = "assign" /\ p # Nowhere) \/ (q.at = "check" /\ q.sync = t)
    <3>1. CASE p[t] # {}
      <4>1. Nowhere[t] = {}
        BY DEF Nowhere
      <4>2. q = next
        BY <2>6, <2>7, <3>1
      <4> QED
        BY <2>6, <3>1, <4>1, <4>2
    <3>2. CASE p[t] = {}
      <4>1. q = [next EXCEPT !.at = "check", !.sync = t, !.after = "assign"]
        BY <2>6, <2>7, <3>2 DEF SeeTo
      <4>2. q \in Call
        BY <2>6, <4>1, Zenon DEF Call
      <4> QED
        BY <2>6, <4>1, <4>2 DEF Call
    <3> QED
      BY <3>1, <3>2
  <2>11. /\ p \in [Teams -> SUBSET Students] /\ p[t] = r.plan[t] \ {u}
         /\ \A o \in Teams : o # t => p[o] = r.plan[o]
         /\ seen = r.saw \cup {made + 1}
    BY <2>3, <2>4, <2>5
  <2> HIDE DEF plan, saw
  <2>12. ~Held(q) /\ HoldsRow(q)' /\ ~Joining(q)
    BY <2>10 DEF Held, HoldsRow, Joining
  <2>13. Moves(q)'
    BY <2>10, <2>12 DEF Moves, Joining
  <2>14. q.saw \subseteq 1 .. made'
    BY <1>2, <2>9, <2>10, <2>11
  <2>15. ASSUME NEW o \in Teams, o # t PROVE seen \cap InTeam(o)' = r.saw \cap InTeam(o)
    BY <1>2, <2>9, <2>11, <2>15 DEF InTeam, TeamTypeOK
  <2>16. seen \cap InTeam(t)' = (r.saw \cap InTeam(t)) \cup {made + 1} /\ made + 1 \notin r.saw
    BY <1>2, <2>9, <2>11 DEF InTeam, TeamTypeOK
  <2>17. ASSUME set.limit > 0, NEW o \in Teams, p[o] # {}
         PROVE  Cardinality(seen \cap InTeam(o)') + Cardinality(p[o]) <= set.limit
    <3>1. r.plan[o] # {}
      BY <2>11, <2>17
    <3>2. Cardinality(r.saw \cap InTeam(o)) + Cardinality(r.plan[o]) <= set.limit
      BY <1>2, <2>17, <3>1 DEF CallTrue, HasRoom, Assigning
    <3>3. CASE o # t
      BY <2>11, <2>15, <3>2, <3>3
    <3>4. CASE o = t
      <4>1. IsFiniteSet(r.plan[t]) /\ IsFiniteSet(r.saw \cap InTeam(t))
        <5>1. IsFiniteSet(1 .. made)
          BY <1>2, FS_Interval
        <5>2. r.plan[t] \subseteq Students /\ r.saw \cap InTeam(t) \subseteq 1 .. made
          BY <1>2
        <5> QED
          BY <5>1, <5>2, StudentsAssumption, FS_Subset
      <4>2. Cardinality(r.plan[t]) \in Nat /\ Cardinality(r.saw \cap InTeam(t)) \in Nat
        BY <4>1, FS_CardinalityType
      <4>3. Cardinality(p[t]) = Cardinality(r.plan[t]) - 1
        <5>1. Cardinality(r.plan[t] \ {u}) = Cardinality(r.plan[t]) - 1
          BY <4>1, FS_RemoveElement
        <5> QED
          BY <2>11, <5>1
      <4>4. Cardinality(seen \cap InTeam(t)') = Cardinality(r.saw \cap InTeam(t)) + 1
        BY <2>16, <4>1, FS_AddElement
      <4>5. Cardinality(seen \cap InTeam(t)') + Cardinality(p[t])
              = Cardinality(r.saw \cap InTeam(t)) + Cardinality(r.plan[t])
        BY <4>2, <4>3, <4>4
      <4> QED
        BY <3>2, <3>4, <4>5
    <3> QED
      BY <3>3, <3>4
  <2>18. HasRoom(q)'
    BY <1>5, <2>10, <2>12, <2>17 DEF HasRoom, Joining
  <2>19. HasLeft(q)'
    <3>1. \A o, x \in Teams : o # x => r.plan[o] \cap r.plan[x] = {}
      BY <1>2 DEF CallTrue, HasLeft, Assigning
    <3>2. \A o \in Teams : p[o] \subseteq r.plan[o]
      BY <2>11
    <3>3. \A o, x \in Teams : o # x => p[o] \cap p[x] = {}
      BY <3>1, <3>2
    <3>4. ASSUME ~set.several, ~disorder.broken, NEW o \in Teams, NEW v \in p[o] PROVE Gone(q, v)'
      <4>1. Gone(r, v)
        BY <1>2, <3>2, <3>4 DEF CallTrue, HasLeft, Assigning
      <4>2. v # u
        <5>1. CASE o = t
          BY <2>11, <3>4, <5>1
        <5>2. CASE o # t
          BY <3>1, <3>2, <3>4, <5>2
        <5> QED
          BY <5>1, <5>2
      <4> SUFFICES ASSUME NEW m \in seen, m \in Of(v)', m \in Accepted' PROVE team'[member'[m].team].deleted
        BY <2>10 DEF Gone
      <4>3. m # made + 1
        BY <2>9, <4>2 DEF Of
      <4>4. m \in r.saw /\ m \in DOMAIN member /\ member'[m] = member[m]
        BY <2>9, <2>11, <4>3 DEF Of
      <4>5. m \in Of(v) /\ m \in Accepted
        BY <4>4 DEF Of, Accepted
      <4> QED
        BY <1>5, <4>1, <4>4, <4>5 DEF Gone
    <3> QED
      BY <1>5, <2>10, <3>3, <3>4 DEF HasLeft
  <2>20. CallTrue(q)'
    BY <2>12, <2>13, <2>14, <2>18, <2>19 DEF CallTrue
  <2>21. Holds(c, q)
    BY <1>1, <1>2, <2>9 DEF Holds
  <2>22. Leads(c, q)
    <3>1. Orderly' => Orderly /\ \A d \in Calls \ {c} : Resting(d)
      BY <1>1, <1>2, <1>5, Alone DEF Resting
    <3>2. \A o \in Teams : ~Mends(call[c], o)
      BY <1>1, <1>2 DEF Mends
    <3>3. Orderly => LedByMember(t)
      <4>1. ASSUME Orderly, NEW d \in Calls PROVE ~Mends(call[d], t)
        BY <1>1, <1>2, <1>5, <3>1, <4>1 DEF Mends, Resting, Orderly
      <4> QED
        BY <4>1 DEF TeamInv, LeadersInv
    <3>4. Orderly => Sound(q)'
      <4>1. Orderly => LedByMember(t)'
        BY <2>9, <3>3
      <4> QED
        BY <2>10, <4>1 DEF Sound, LedByMember, IsMember, Rows, InTeam, Of, Accepted
    <3> QED
      BY <2>9, <3>1, <3>2, <3>4 DEF Leads
  <2>23. call' = [d \in Calls |-> call'[d]] /\ call'[c] = q /\ Others(c)
    <3>1. \A d \in Calls : Kept(call[d].saw)
      BY <2>9 DEF TeamInv, CallsTrue, CallTrue
    <3> QED
      BY <1>2, <2>8, <3>1, OthersStay
  <2>24. /\ team' \in [Teams -> Team] /\ set' = set
         /\ disorder' \in [acts : 0 .. MaxActs, overlapped : BOOLEAN, broken : BOOLEAN]
    BY <1>2, <1>5 DEF TeamTypeOK
  <2> QED
    BY <2>9, <2>10, <2>12, <2>20, <2>21, <2>22, <2>23, <2>24, MovingStep
<1> QED
  BY <1>6, <1>7

\* A saved row comes back, with its student and its team.
LEMMA UpdateMembershipSaveKept ==
  ASSUME TeamInv, NEW c \in Calls, UpdateMembershipSave(c)
  PROVE  TeamInv'
<1>1. PICK r \in Call : r = call[c]
  BY RowsNow DEF TeamInv
<1>2. /\ TeamTypeOK /\ CallTrue(r) /\ made \in Nat /\ r.at = "save" /\ ~Joining(r) /\ r.after = "rest"
      /\ Held(r) /\ HoldsRow(r) /\ call \in [Calls -> Call]
      /\ DOMAIN member \subseteq 1 .. made /\ \A m \in DOMAIN member : member[m].team \in Teams
  BY <1>1, RowsNow DEF TeamInv, CallsTrue, CallTrue, Moves, Joining, UpdateMembershipSave, Standing, Call, Held
<1>3. PICK t \in Teams, u \in Students, m \in 1 .. made, state \in {"accepted", "invited"} :
        t = r.team /\ u = r.student /\ m = r.row /\ state = r.state
  BY <1>2 DEF CallTrue, Moves, HoldsRow, Call
<1>4. UNCHANGED <<set, team, made, owed, disorder>>
  BY DEF UpdateMembershipSave
<1>5. CASE ~(Rows(t, u) \subseteq {m})
  BY <1>1, <1>2, <1>3, <1>4, <1>5, GivesUp DEF UpdateMembershipSave, To
<1>6. CASE Rows(t, u) \subseteq {m}
  <2>1. /\ member' = With(m, [team |-> t, student |-> u, state |-> state])
        /\ call' = [[d \in Calls |-> [call[d] EXCEPT !.saw = @ \ {m}]] EXCEPT ![c].at = "reload", ![c].sync = t]
    BY <1>1, <1>3, <1>6 DEF UpdateMembershipSave
  <2>2. /\ DOMAIN member' = DOMAIN member \cup {m} /\ \A n \in DOMAIN member : n # m => member'[n] = member[n]
        /\ member'[m].team = t /\ member'[m].student = u /\ member'[m] \in Member
    BY <2>1 DEF With, Member
  <2>3. m \in DOMAIN member => member[m].student = u /\ member[m].team = t
    BY <1>2, <1>3 DEF HoldsRow, HeldTeam
  <2>4. PICK q : q = [r EXCEPT !.saw = r.saw \ {m}, !.at = "reload", !.sync = t]
    OBVIOUS
  <2>5. /\ call' = [d \in Calls |-> call'[d]] /\ call'[c] = q
        /\ \A d \in Calls \ {c} : call'[d] = [call[d] EXCEPT !.saw = call[d].saw \ {m}]
    BY <1>1, <1>2, <2>1, <2>4
  <2>6. /\ q.at = "reload" /\ q.sync = t /\ q.after = "rest" /\ q.saw = r.saw \ {m}
    BY <1>2, <2>4 DEF Call
  <2>7. q \in Call
    <3>1. r.saw \ {m} \in SUBSET Nat
      BY DEF Call
    <3> QED
      BY <2>4, <3>1, Zenon DEF Call
  <2>8. ASSUME NEW S, m \notin S PROVE Kept(S)
    BY <1>2, <1>4, <2>2, <2>8 DEF Kept
  <2>9. RowsTyped'
    <3>1. RowsTyped
      BY <1>2, RowsTypedNow
    <3>2. \A n \in DOMAIN member : n # m => ~(member[n].team = t /\ member[n].student = u)
      BY <1>6 DEF Rows, InTeam, Of
    <3>3. DOMAIN member' \subseteq 1 .. made'
      BY <1>2, <1>4, <2>2
    <3>4. \A n \in DOMAIN member' : member'[n] \in Member
      BY <2>2, <3>1 DEF RowsTyped
    <3>5. \A n, k \in DOMAIN member' : member'[n].team = member'[k].team /\ member'[n].student = member'[k].student
                                         => n = k
      BY <2>2, <3>1, <3>2 DEF RowsTyped
    <3> QED
      BY <3>3, <3>4, <3>5 DEF RowsTyped
  <2>10. RowsAs
    BY <1>1, <1>2, <1>3, <2>2 DEF RowsAs, HeldTeam
  <2>11. CallTrue(q)' /\ ~Held(q)
    <3>1. Moves(q) /\ ~Held(q) /\ HoldsRow(q)' /\ ~Assigning(q) /\ ~Joining(q)
      BY <2>6 DEF Moves, Joining, Held, HoldsRow, Assigning
    <3>2. made' \in Nat /\ Kept(q.saw) /\ q.saw \subseteq r.saw
      BY <1>2, <1>4, <2>6, <2>8
    <3> QED
      BY <1>2, <2>6, <2>7, <3>1, <3>2, GoesOn
  <2>12. Holds(c, q)
    <3> SUFFICES ASSUME NEW v, Of(v) # {} PROVE Of(v)' # {}
      BY <1>1, <1>2, <1>4 DEF Holds
    <3>1. PICK n : n \in Of(v)
      OBVIOUS
    <3>2. n \in Of(v)'
      BY <2>2, <2>3, <3>1 DEF Of
    <3> QED
      BY <3>2
  <2>13. Leads(c, q)
    <3>1. Orderly' => Orderly /\ \A d \in Calls \ {c} : Resting(d)
      BY <1>1, <1>2, <1>4, Alone DEF Resting
    <3>2. Sound(q)'
      BY <2>6 DEF Sound
    <3>3. ASSUME NEW o \in Teams, LedByMember(o) \/ Mends(call[c], o) PROVE LedByMember(o)' \/ Mends(q, o)
      <4>1. CASE o = t
        BY <2>6, <4>1 DEF Mends
      <4>2. CASE o # t
        <5>1. LedByMember(o)
          BY <1>1, <1>2, <3>3 DEF Mends
        <5>2. \A v : IsMember(o, v) => IsMember(o, v)'
          BY <2>2, <2>3, <4>2 DEF IsMember, Rows, InTeam, Of, Accepted
        <5> QED
          BY <1>4, <5>1, <5>2 DEF LedByMember, IsMember, Rows, InTeam, Of, Accepted
      <4> QED
        BY <4>1, <4>2
    <3> QED
      BY <3>1, <3>2, <3>3 DEF Leads
  <2>14. Others(c)
    <3> SUFFICES ASSUME NEW d \in Calls \ {c}
                 PROVE  /\ call'[d] = [call[d] EXCEPT !.saw = call'[d].saw]
                        /\ call'[d].saw \subseteq call[d].saw /\ Kept(call'[d].saw)
      BY DEF Others
    <3>1. call[d] \in Call /\ call'[d] = [call[d] EXCEPT !.saw = call[d].saw \ {m}]
      BY <1>2, <2>5
    <3>2. call'[d].saw = call[d].saw \ {m}
      BY <3>1 DEF Call
    <3> QED
      BY <2>8, <3>1, <3>2
  <2>15. /\ team' \in [Teams -> Team] /\ set' = set /\ made <= made' /\ made' \in 0 .. MaxRows
         /\ owed' \subseteq Students
         /\ disorder' \in [acts : 0 .. MaxActs, overlapped : BOOLEAN, broken : BOOLEAN]
    BY <1>2, <1>4 DEF TeamTypeOK
  <2> QED
    BY <2>5, <2>7, <2>9, <2>10, <2>11, <2>12, <2>13, <2>14, <2>15, MovingStep
<1> QED
  BY <1>5, <1>6

LEMMA UpdateGroupKept ==
  ASSUME TeamInv, NEW c \in Calls, UpdateGroup(c)
  PROVE  TeamInv'
<1>1. PICK r \in Call : r = call[c]
  BY RowsNow DEF TeamInv
<1>2. /\ TeamTypeOK /\ CallTrue(r) /\ made \in Nat /\ r.at = "store" /\ ~Joining(r)
      /\ call \in [Calls -> Call] /\ \A m \in DOMAIN member : member[m].team \in Teams
  BY <1>1, RowsNow DEF TeamInv, CallsTrue, CallTrue, Moves, Joining, UpdateGroup, Standing
<1>3. PICK t \in Teams, u \in StudentOrNobody, deleted \in BOOLEAN :
        t = r.team /\ u = r.student /\ deleted = r.deleted
  BY <1>2 DEF CallTrue, Moves, Call
<1>4. PICK back : back = IF team[t].deleted /\ ~deleted THEN InTeam(t) ELSE {}
  OBVIOUS
<1>5. /\ team' = [team EXCEPT ![t] = [deleted |-> deleted, leader |-> u]]
      /\ call' = [[d \in Calls |-> [call[d] EXCEPT !.saw = @ \ back]] EXCEPT ![c] = Rest]
      /\ UNCHANGED <<set, member, made, owed, disorder>>
  BY <1>1, <1>3, <1>4 DEF UpdateGroup
<1>6. /\ team' \in [Teams -> Team] /\ team'[t].deleted = deleted /\ team'[t].leader = u
      /\ \A o \in Teams : o # t => team'[o] = team[o]
  BY <1>2, <1>5 DEF TeamTypeOK, Team
<1>7. /\ call' = [d \in Calls |-> call'[d]] /\ call'[c] = Rest
      /\ \A d \in Calls \ {c} : call'[d] = [call[d] EXCEPT !.saw = call[d].saw \ back]
  BY <1>2, <1>5
<1>8. Others(c)
  <2> SUFFICES ASSUME NEW d \in Calls \ {c}
               PROVE  /\ call'[d] = [call[d] EXCEPT !.saw = call'[d].saw]
                      /\ call'[d].saw \subseteq call[d].saw /\ Kept(call'[d].saw)
    BY DEF Others
  <2>1. call[d] \in Call /\ call'[d] = [call[d] EXCEPT !.saw = call[d].saw \ back]
    BY <1>2, <1>7
  <2>2. call'[d].saw = call[d].saw \ back
    BY <2>1 DEF Call
  <2>3. ASSUME NEW m \in call'[d].saw, m \in DOMAIN member, team[member[m].team].deleted
        PROVE  team'[member[m].team].deleted
    <3>1. CASE member[m].team = t
      BY <1>4, <1>6, <2>2, <2>3, <3>1 DEF InTeam
    <3>2. CASE member[m].team # t
      BY <1>2, <1>6, <2>3, <3>2
    <3> QED
      BY <3>1, <3>2
  <2>4. Kept(call'[d].saw)
    BY <1>2, <1>5, <2>3 DEF Kept
  <2> QED
    BY <2>1, <2>2, <2>4
<1>9. RowsTyped' /\ RowsAs
  <2>1. RowsTyped
    BY <1>2, RowsTypedNow
  <2> QED
    BY <1>5, <2>1 DEF RowsTyped, RowsAs
<1>10. Holds(c, Rest)
  BY <1>1, <1>2, <1>5 DEF Holds, Of
<1>11. Leads(c, Rest)
  <2>1. Orderly' => Orderly /\ \A d \in Calls \ {c} : Resting(d)
    BY <1>1, <1>2, <1>5, Alone DEF Resting
  <2>2. ASSUME Orderly, NEW o \in Teams, LedByMember(o) \/ Mends(call[c], o) PROVE LedByMember(o)'
    <3>1. CASE o = t
      <4>1. u = Nobody \/ IsMember(t, u)
        BY <1>1, <1>2, <1>3, <2>2 DEF TeamInv, LeadersInv, Sound
      <4> QED
        BY <1>5, <1>6, <3>1, <4>1 DEF LedByMember, IsMember, Rows, InTeam, Of, Accepted
    <3>2. CASE o # t
      <4>1. LedByMember(o)' = LedByMember(o)
        BY <1>5, <1>6, <3>2, LedAsBefore
      <4> QED
        BY <1>1, <1>2, <2>2, <4>1 DEF Mends
    <3> QED
      BY <3>1, <3>2
  <2> QED
    BY <2>1, <2>2, RestTrue DEF Leads
<1>12. /\ set' = set /\ made <= made' /\ made' \in 0 .. MaxRows /\ owed' \subseteq Students
       /\ disorder' \in [acts : 0 .. MaxActs, overlapped : BOOLEAN, broken : BOOLEAN]
  BY <1>2, <1>5 DEF TeamTypeOK
<1> QED
  BY <1>6, <1>7, <1>8, <1>9, <1>10, <1>11, <1>12, RestTrue, MovingStep

-----------------------------------------------------------------------------
LEMMA TeamInvInit ==
  ASSUME TeamInit
  PROVE  TeamInv
<1>1. /\ DOMAIN member = {} /\ made = 0 /\ owed = {} /\ call = [c \in Calls |-> Rest]
      /\ disorder = [acts |-> 0, overlapped |-> FALSE, broken |-> FALSE]
      /\ team = [t \in Teams |-> [deleted |-> FALSE, leader |-> Nobody]]
  BY DEF TeamInit
<1>2. Rest \in Call /\ ~Held(Rest)
  BY RestTrue
<1>3. MaxRows \in Nat /\ MaxActs \in Nat
  BY TeamBoundsAssumption
<1>4. TeamTypeOK
  <2>1. \A t \in Teams, u \in Students : Rows(t, u) = {}
    BY <1>1 DEF Rows, InTeam
  <2>2. \A t \in Teams, u \in Students : Cardinality(Rows(t, u)) <= 1
    BY <2>1, FS_EmptySet
  <2>3. disorder \in [acts : 0 .. MaxActs, overlapped : BOOLEAN, broken : BOOLEAN]
    BY <1>1, <1>3
  <2>4. team \in [Teams -> Team]
    BY <1>1 DEF Team, StudentOrNobody
  <2>5. call \in [Calls -> Call]
    BY <1>1, <1>2
  <2>6. set \in Sets /\ made \in 0 .. MaxRows /\ owed \subseteq Students /\ DOMAIN member \subseteq 1 .. made
    BY <1>1, <1>3 DEF TeamInit
  <2> QED
    BY <1>1, <2>2, <2>3, <2>4, <2>5, <2>6 DEF TeamTypeOK
<1>5. CallTrue(Rest)
  <2>1. Rest.at = "rest" /\ Rest.after = "rest" /\ Rest.saw = {}
    BY DEF Rest
  <2> QED
    BY <2>1 DEF CallTrue, Moves, HoldsRow, HasRoom, HasLeft, Held, Joining, Assigning
<1>6. CallsTrue
  BY <1>1, <1>2, <1>5 DEF CallsTrue, Agree
<1>7. NobodyStranded
  BY <1>1 DEF NobodyStranded
<1>8. LeadersInv
  BY <1>1 DEF LeadersInv, Resting, Sound, LedByMember, Rest
<1> QED
  BY <1>4, <1>6, <1>7, <1>8 DEF TeamInv

LEMMA TeamInvStep ==
  ASSUME TeamInv, [TeamNext]_teamVars
  PROVE  TeamInv'
<1>1. CASE UNCHANGED teamVars
  <2>1. /\ set' = set /\ team' = team /\ member' = member /\ made' = made /\ call' = call /\ owed' = owed
        /\ disorder' = disorder
    BY <1>1 DEF teamVars
  <2>2. TeamTypeOK' = TeamTypeOK
    BY <2>1 DEF TeamTypeOK, Rows, InTeam, Of
  <2>3. CallsTrue' = CallsTrue
    BY <2>1 DEF CallsTrue, CallTrue, Agree, Moves, HoldsRow, HasRoom, HasLeft, Gone, Held, HeldTeam,
                InTeam, Of, Accepted, Joining, Assigning
  <2>4. NobodyStranded' = NobodyStranded
    BY <2>1 DEF NobodyStranded, BetweenTeams, Of
  <2>5. LeadersInv' = LeadersInv
    BY <2>1 DEF LeadersInv, Orderly, Resting, Sound, Mends, LedByMember, IsMember, Rows, InTeam, Of, Accepted
  <2> QED
    BY <2>2, <2>3, <2>4, <2>5 DEF TeamInv
<1>2. ASSUME NEW c \in Calls, NEW t \in Teams, NEW u \in Students, NEW state \in {"accepted", "invited"},
             AddMember(c, t, u, state)
      PROVE  TeamInv'
  BY <1>2, AddMemberKept
<1>3. ASSUME NEW c \in Calls, AssignUnassigned(c) PROVE TeamInv'
  BY <1>3, AssignUnassignedKept
<1>4. ASSUME NEW c \in Calls, NEW m \in DOMAIN member, RemoveMember(c, m) \/ UpdateMembershipFind(c, m)
      PROVE  TeamInv'
  BY <1>4, RemoveMemberKept, UpdateMembershipFindKept
<1>5. ASSUME NEW c \in Calls, NEW t \in Teams, EditGroup(c, t) \/ \E u \in StudentOrNobody : SetLeader(c, t, u)
      PROVE  TeamInv'
  BY <1>5, EditGroupKept, SetLeaderKept
<1>6. ASSUME NEW c \in Calls, CallStep(c) PROVE TeamInv'
  BY <1>6, LeaveFindKept, LeaveSeekKept, LeaveDeleteKept, CreateKept, AssignCreateKept, SyncCheckKept, SyncClearKept,
     SyncFillKept, SyncAppointKept, ReloadKept, UpdateMembershipSaveKept, SetLeaderSaveKept, UpdateGroupKept
     DEF CallStep
<1>7. ASSUME NEW c \in Calls, BreaksOff(c) PROVE TeamInv'
  BY <1>7, BreaksOffKept
<1>8. ASSUME NEW t \in Teams, DeleteGroup(t) PROVE TeamInv'
  BY <1>8, DeleteGroupKept
<1> QED
  BY <1>1, <1>2, <1>3, <1>4, <1>5, <1>6, <1>7, <1>8 DEF TeamNext

THEOREM TeamInvariance == TeamSpec => []TeamInv
<1>1. TeamInit => TeamInv
  BY TeamInvInit
<1>2. TeamInv /\ [TeamNext]_teamVars => TeamInv'
  BY TeamInvStep
<1> QED
  BY <1>1, <1>2, PTL DEF TeamSpec

(***************************************************************************)
(* The rows of groups and memberships are well-typed in every reachable    *)
(* state, and there is one row at most of a student in a team.             *)
(***************************************************************************)
THEOREM TeamsTyped == TeamSpec => []TeamTypeOK
<1>1. TeamInv => TeamTypeOK
  BY DEF TeamInv
<1> QED
  BY <1>1, TeamInvariance, PTL

(***************************************************************************)
(* No student is left without a team by changing teams: however the calls  *)
(* of any number interleave, one who joined and whom nobody took out has a *)
(* membership or is between two in a call that will make one.              *)
(***************************************************************************)
THEOREM NobodyStays == TeamSpec => []NobodyStranded
<1>1. TeamInv => NobodyStranded
  BY DEF TeamInv
<1> QED
  BY <1>1, TeamInvariance, PTL

(***************************************************************************)
(* Between calls every team's leader is a member of it, as long as calls   *)
(* have not overlapped and none has broken off.                            *)
(***************************************************************************)
THEOREM LeadersAreMembers == TeamSpec => []LeaderIsMember
<1>1. TeamInv => LeaderIsMember
  <2> SUFFICES ASSUME TeamInv, \A c \in Calls : Resting(c), Orderly, NEW t \in Teams
               PROVE  team[t].leader # Nobody => IsMember(t, team[t].leader)
    BY DEF LeaderIsMember, Orderly
  <2>1. \A c \in Calls : ~Mends(call[c], t)
    BY DEF Resting, Mends
  <2> QED
    BY <2>1 DEF TeamInv, LeadersInv, LedByMember
<1> QED
  BY <1>1, TeamInvariance, PTL

-----------------------------------------------------------------------------
(* Who inserts a membership.                                               *)

Inserts(c) == \E t \in Teams, u \in Students :
  /\ Joiner.team = t /\ Joiner.student = u
  /\ \/ call[c].at = "create" /\ t = call[c].team /\ u = call[c].student
     \/ call[c].at = "assign" /\ u \in call[c].plan[t]

LEMMA JoinsOne ==
  ASSUME made \in Nat, NEW d, NEW t, NEW u, NEW state, Joins(d, t, u, state)
  PROVE  Joiner.team = t /\ Joiner.student = u
BY DEF Joins, With, Joiner

LEMMA RowInserted ==
  ASSUME TeamInv, TeamNext, NEW c \in Calls, Joined(c)
  PROVE  Inserts(c)
<1>1. made \in Nat /\ made' # made /\ call'[c] # call[c] /\ call \in [Calls -> Call]
  BY RowsNow DEF TeamInv, Joined
<1>2. PICK d \in Calls : Create(d) \/ AssignCreate(d)
  <2>1. \A t \in Teams : ~DeleteGroup(t)
    BY <1>1 DEF DeleteGroup
  <2>2. ASSUME NEW d \in Calls
        PROVE  /\ ~AssignUnassigned(d) /\ ~BreaksOff(d)
               /\ \A t \in Teams, u \in Students, state \in {"accepted", "invited"} : ~AddMember(d, t, u, state)
               /\ \A m \in DOMAIN member : ~RemoveMember(d, m) /\ ~UpdateMembershipFind(d, m)
               /\ \A t \in Teams : ~EditGroup(d, t) /\ \A u \in StudentOrNobody : ~SetLeader(d, t, u)
    BY <1>1 DEF AssignUnassigned, BreaksOff, AddMember, RemoveMember, UpdateMembershipFind, EditGroup, SetLeader
  <2>3. PICK d \in Calls : CallStep(d)
    BY <2>1, <2>2 DEF TeamNext
  <2>4. /\ ~LeaveFind(d) /\ ~LeaveSeek(d) /\ ~LeaveDelete(d) /\ ~SyncCheck(d) /\ ~SyncClear(d) /\ ~SyncFill(d)
        /\ ~SyncAppoint(d) /\ ~Reload(d) /\ ~UpdateMembershipSave(d) /\ ~SetLeaderSave(d) /\ ~UpdateGroup(d)
    BY <1>1 DEF LeaveFind, LeaveSeek, LeaveDelete, SyncCheck, SyncClear, SyncFill, SyncAppoint, Reload,
                UpdateMembershipSave, SetLeaderSave, UpdateGroup
  <2> QED
    BY <2>3, <2>4 DEF CallStep
<1>3. CASE Create(d)
  <2>1. Joins(d, call[d].team, call[d].student, call[d].state)
    BY <1>1, <1>3 DEF Create
  <2>2. call' = [call EXCEPT ![d] = SeeTo(call[d], call[d].team, "rest")]
    BY <1>1, <1>3 DEF Create, To
  <2>3. c = d
    BY <1>1, <2>2
  <2>4. call[c].at = "create" /\ call[c].team \in Teams /\ call[c].student \in Students
    BY <1>3, <2>3 DEF Create, Standing, TeamInv, CallsTrue, CallTrue, Moves, Joining
  <2>5. Joiner.team = call[c].team /\ Joiner.student = call[c].student
    BY <1>1, <2>1, <2>3, JoinsOne
  <2> QED
    BY <2>4, <2>5 DEF Inserts
<1>4. CASE AssignCreate(d)
  <2>1. PICK t : t = Min({s \in Teams : call[d].plan[s] # {}})
    OBVIOUS
  <2>2. PICK u \in call[d].plan[t] :
          Joins(d, t, u, "accepted") /\ \E q : call' = [call EXCEPT ![d] = q]
    BY <1>1, <1>4, <2>1 DEF AssignCreate, To
  <2>a. PICK q : call' = [call EXCEPT ![d] = q]
    BY <2>2
  <2>3. c = d
    BY <1>1, <2>a
  <2>4. call[c].at = "assign"
    BY <1>4, <2>3 DEF AssignCreate, Standing
  <2>5. t \in Teams /\ u \in Students
    BY <2>1, <2>2, <2>3, <2>4, PlannedNext
  <2>6. Joiner.team = t /\ Joiner.student = u
    BY <1>1, <2>2, JoinsOne
  <2> QED
    BY <2>2, <2>3, <2>4, <2>5, <2>6 DEF Inserts
<1> QED
  BY <1>2, <1>3, <1>4

LEMMA StepLeavesRoom ==
  ASSUME TeamInv, TeamNext
  PROVE  RoomLeft
<1> SUFFICES ASSUME NEW c \in Calls, Joined(c), set.limit > 0
             PROVE  Cardinality(Known(c) \cap InTeam(Joiner.team)) < set.limit
  BY DEF RoomLeft
<1>1. PICK t \in Teams, u \in Students :
        /\ Joiner.team = t /\ Joiner.student = u
        /\ \/ call[c].at = "create" /\ t = call[c].team /\ u = call[c].student
           \/ call[c].at = "assign" /\ u \in call[c].plan[t]
  BY RowInserted DEF Inserts
<1>2. CallTrue(call[c]) /\ call[c] \in Call /\ set.limit \in Nat /\ IsFiniteSet(InTeam(t))
  BY RowsNow DEF TeamInv, CallsTrue
<1>3. Known(c) \cap InTeam(t) = call[c].saw \cap InTeam(t)
  BY DEF Known, InTeam
<1>4. Cardinality(call[c].saw \cap InTeam(t)) < set.limit
  <2>1. CASE call[c].at = "create" /\ t = call[c].team
    BY <1>2, <2>1 DEF CallTrue, HasRoom, Joining
  <2>2. CASE call[c].at = "assign" /\ u \in call[c].plan[t]
    <3>1. Assigning(call[c]) /\ IsFiniteSet(call[c].plan[t]) /\ call[c].plan[t] # {}
      BY <1>2, <2>2, StudentsAssumption, FS_Subset DEF CallTrue, Moves, Assigning, Call
    <3>2. Cardinality(call[c].saw \cap InTeam(t)) + Cardinality(call[c].plan[t]) <= set.limit
      BY <1>2, <3>1 DEF CallTrue, HasRoom
    <3>3. Cardinality(call[c].plan[t]) \in Nat /\ Cardinality(call[c].plan[t]) # 0
      BY <3>1, FS_CardinalityType, FS_EmptySet
    <3>4. Cardinality(call[c].saw \cap InTeam(t)) \in Nat
      BY <1>2, FS_Subset, FS_CardinalityType
    <3> QED
      BY <1>2, <3>2, <3>3, <3>4
  <2> QED
    BY <1>1, <2>1, <2>2
<1> QED
  BY <1>1, <1>3, <1>4

LEMMA StepLeavesOthers ==
  ASSUME TeamInv, TeamNext
  PROVE  OthersLeft
<1> SUFFICES ASSUME NEW c \in Calls, Joined(c), ~set.several, ~disorder.broken, ~call[c].lost,
                    NEW m \in Known(c) \cap Of(Joiner.student) \cap Accepted
             PROVE  team[member[m].team].deleted
  BY DEF OthersLeft
<1>1. PICK t \in Teams, u \in Students :
        /\ Joiner.team = t /\ Joiner.student = u
        /\ \/ call[c].at = "create" /\ t = call[c].team /\ u = call[c].student
           \/ call[c].at = "assign" /\ u \in call[c].plan[t]
  BY RowInserted DEF Inserts
<1>2. CallTrue(call[c])
  BY DEF TeamInv, CallsTrue
<1>3. Gone(call[c], u)
  BY <1>1, <1>2 DEF CallTrue, HasLeft, Moves, Assigning
<1>4. m \in call[c].saw \cap Of(u) \cap Accepted
  BY <1>1 DEF Known
<1> QED
  BY <1>3, <1>4 DEF Gone

LEMMA StepPlansFairly ==
  ASSUME TeamInv, TeamNext
  PROVE  PlansAreFair
<1> SUFFICES ASSUME NEW c \in Calls, call[c].at = "rest", call'[c].at = "assign"
             PROVE  Fair(call'[c].plan)
  BY DEF PlansAreFair, Resting
<1>1. TeamTypeOK /\ call \in [Calls -> Call]
  BY RowsNow DEF TeamInv
<1>2. CASE AssignUnassigned(c)
  <2>1. PICK order \in SetToSeqs(Unassigned) :
          Act(c, [Rest EXCEPT !.at = "assign", !.after = "assign", !.plan = PlanEvenly(order),
                    !.leaders = [t \in Teams |-> IF t \in Open THEN team[t].leader ELSE Nobody]])
    BY <1>2 DEF AssignUnassigned
  <2>2. PICK plan : plan = PlanEvenly(order)
    OBVIOUS
  <2>3. call'[c].plan = plan
    BY <1>1, <2>1, <2>2 DEF Act, Start, To, Rest
  <2> QED
    BY <1>1, <2>2, <2>3, AssignmentBegins
<1>3. \A t \in Teams : ~DeleteGroup(t)
  BY DEF DeleteGroup
<1>4. ASSUME NEW d \in Calls, NEW z, NEW acts, Start(d, z, acts) PROVE [z EXCEPT !.saw = DOMAIN member].at = "assign"
  <2>1. PICK q : q = [z EXCEPT !.saw = DOMAIN member]
    OBVIOUS
  <2>2. call' = [call EXCEPT ![d] = q]
    BY <1>4, <2>1 DEF Start, To
  <2>3. q.at = "assign"
    BY <1>1, <2>2
  <2> QED
    BY <2>1, <2>3
<1>5. ASSUME NEW d \in Calls
      PROVE  /\ \A t \in Teams, u \in Students, state \in {"accepted", "invited"} : ~AddMember(d, t, u, state)
             /\ \A m \in DOMAIN member : ~RemoveMember(d, m) /\ ~UpdateMembershipFind(d, m)
             /\ \A t \in Teams : ~EditGroup(d, t) /\ \A u \in StudentOrNobody : ~SetLeader(d, t, u)
  <2>1. ASSUME NEW t \in Teams, NEW u \in Students, NEW state \in {"accepted", "invited"}, AddMember(d, t, u, state)
        PROVE  FALSE
    <3> DEFINE z == [Rest EXCEPT !.at = IF AllowsMultipleMemberships THEN "create" ELSE "leaving",
                                 !.team = t, !.student = u, !.state = state,
                                 !.leaders[t] = team[t].leader]
    <3>1. [z EXCEPT !.saw = DOMAIN member].at = "assign"
      <4>1. PICK acts : Start(d, z, acts)
        BY <2>1 DEF AddMember
      <4> HIDE DEF z
      <4> QED
        BY <1>4, <4>1
    <3> QED
      BY <3>1 DEF Rest
  <2>2. ASSUME NEW m \in DOMAIN member, RemoveMember(d, m) PROVE FALSE
    <3> DEFINE z == [Rest EXCEPT !.at = "reload", !.sync = member[m].team]
    <3>1. [z EXCEPT !.saw = DOMAIN member].at = "assign"
      <4>1. Start(d, z, 1)
        BY <2>2 DEF RemoveMember, Act
      <4> HIDE DEF z
      <4> QED
        BY <1>4, <4>1
    <3> QED
      BY <3>1 DEF Rest
  <2>3. ASSUME NEW m \in DOMAIN member, UpdateMembershipFind(d, m) PROVE FALSE
    <3>1. PICK state : Act(d, [Rest EXCEPT !.at = "save", !.row = m, !.team = member[m].team,
                                 !.student = member[m].student, !.state = state])
      BY <2>3 DEF UpdateMembershipFind
    <3> DEFINE z == [Rest EXCEPT !.at = "save", !.row = m, !.team = member[m].team,
                                 !.student = member[m].student, !.state = state]
    <3>2. [z EXCEPT !.saw = DOMAIN member].at = "assign"
      <4>1. Start(d, z, 1)
        BY <3>1 DEF Act
      <4> HIDE DEF z
      <4> QED
        BY <1>4, <4>1
    <3> QED
      BY <3>2 DEF Rest
  <2>4. ASSUME NEW t \in Teams, NEW u, NEW at \in {"store", "lead"},
               Act(d, [Rest EXCEPT !.at = at, !.team = t, !.student = u, !.deleted = team[t].deleted])
        PROVE  FALSE
    <3> DEFINE z == [Rest EXCEPT !.at = at, !.team = t, !.student = u, !.deleted = team[t].deleted]
    <3>1. [z EXCEPT !.saw = DOMAIN member].at = "assign"
      <4>1. Start(d, z, 1)
        BY <2>4 DEF Act
      <4> HIDE DEF z
      <4> QED
        BY <1>4, <4>1
    <3> QED
      BY <3>1 DEF Rest
  <2>5. \A t \in Teams : ~EditGroup(d, t)
    BY <2>4 DEF EditGroup
  <2>6. \A t \in Teams, u \in StudentOrNobody : ~SetLeader(d, t, u)
    BY <2>4 DEF SetLeader
  <2> QED
    BY <2>1, <2>2, <2>3, <2>5, <2>6
<1>6. ASSUME NEW d \in Calls, BreaksOff(d) PROVE FALSE
  <2>1. d # c
    BY <1>6 DEF BreaksOff, Resting
  <2> QED
    BY <1>1, <1>6, <2>1 DEF BreaksOff, To, GoTo
<1>7. ASSUME NEW d \in Calls, CallStep(d) PROVE FALSE
  <2>1. d # c
    BY <1>7 DEF CallStep, LeaveFind, LeaveSeek, LeaveDelete, Create, AssignCreate, SyncCheck, SyncClear, SyncFill,
                SyncAppoint, Reload, UpdateMembershipSave, SetLeaderSave, UpdateGroup, Standing
  <2>2. \A q : call' = [call EXCEPT ![d] = q] => FALSE
    BY <1>1, <2>1
  <2>3. ~LeaveFind(d) /\ ~LeaveSeek(d)
    BY <2>2 DEF LeaveFind, LeaveSeek, Lose, Copy, To, GoTo
  <2>4. ~LeaveDelete(d) /\ ~Create(d) /\ ~AssignCreate(d)
    BY <2>2 DEF LeaveDelete, Create, AssignCreate, To
  <2>5. ~SyncCheck(d) /\ ~SyncClear(d) /\ ~SyncFill(d) /\ ~SyncAppoint(d) /\ ~Reload(d) /\ ~SetLeaderSave(d)
    BY <2>2 DEF SyncCheck, SyncClear, SyncFill, SyncAppoint, Reload, SetLeaderSave, To, GoTo
  <2>6. ASSUME NEW S, call'[c] = [call[c] EXCEPT !.saw = S] PROVE FALSE
    <3>1. call[c] \in Call
      BY <1>1
    <3> QED
      BY <2>6, <3>1 DEF Call
  <2>7. ~UpdateMembershipSave(d)
    <3> SUFFICES ASSUME UpdateMembershipSave(d) PROVE FALSE
      OBVIOUS
    <3>1. \/ call' = [call EXCEPT ![d] = Rest]
          \/ call' = [[e \in Calls |-> [call[e] EXCEPT !.saw = @ \ {call[d].row}]]
                        EXCEPT ![d].at = "reload", ![d].sync = call[d].team]
      BY DEF UpdateMembershipSave, To
    <3>2. call' = [call EXCEPT ![d] = Rest] \/ call'[c] = [call[c] EXCEPT !.saw = call[c].saw \ {call[d].row}]
      BY <2>1, <3>1
    <3> QED
      BY <2>2, <2>6, <3>2
  <2>8. ~UpdateGroup(d)
    <3> SUFFICES ASSUME UpdateGroup(d) PROVE FALSE
      OBVIOUS
    <3>1. PICK back : call' = [[e \in Calls |-> [call[e] EXCEPT !.saw = @ \ back]] EXCEPT ![d] = Rest]
      BY DEF UpdateGroup
    <3>2. call'[c] = [call[c] EXCEPT !.saw = call[c].saw \ back]
      BY <2>1, <3>1
    <3> QED
      BY <2>6, <3>2
  <2> QED
    BY <1>7, <2>3, <2>4, <2>5, <2>7, <2>8 DEF CallStep
<1>8. ASSUME NEW d \in Calls, AssignUnassigned(d), d # c PROVE FALSE
  BY <1>1, <1>8 DEF AssignUnassigned, Act, Start, To
<1> QED
  BY <1>2, <1>3, <1>5, <1>6, <1>7, <1>8 DEF TeamNext

(***************************************************************************)
(* However calls interleave, one that inserts a membership has room for it *)
(* among those that were there when it began and its own: nobody is added  *)
(* to a full team but for calls that overlap.                              *)
(***************************************************************************)
THEOREM RoomIsKept == TeamSpec => RoomKept
<1>1. TeamInv /\ [TeamNext]_teamVars => [RoomLeft]_teamVars
  BY StepLeavesRoom
<1> QED
  BY <1>1, TeamInvariance, PTL DEF TeamSpec, RoomKept

(***************************************************************************)
(* In a set that does not allow several teams, a join or an assignment     *)
(* that inserts a membership leaves none in another team that it cannot    *)
(* have missed, for any number of teams: each is left before the insert,   *)
(* unless a statement failed or its own lookups came upon another call     *)
(* that was moving the student.                                            *)
(***************************************************************************)
THEOREM OneTeamIsKept == TeamSpec => OneTeamKept
<1>1. TeamInv /\ [TeamNext]_teamVars => [OthersLeft]_teamVars
  BY StepLeavesOthers
<1> QED
  BY <1>1, TeamInvariance, PTL DEF TeamSpec, OneTeamKept

(***************************************************************************)
(* What planEvenly plans is fair, for any number of teams and students, in *)
(* whatever order they come.                                               *)
(***************************************************************************)
THEOREM PlansPlaceEvenly == TeamSpec => PlacedEvenly
<1>1. TeamInv /\ [TeamNext]_teamVars => [PlansAreFair]_teamVars
  BY StepPlansFairly
<1> QED
  BY <1>1, TeamInvariance, PTL DEF TeamSpec, PlacedEvenly
=============================================================================
