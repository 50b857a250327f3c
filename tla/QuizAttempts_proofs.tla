-------------------------- MODULE QuizAttempts_proofs --------------------------
(***************************************************************************)
(* The attempt lifecycle holds for any number of workers, attempts, clock  *)
(* values and quiz settings, whatever the workers do between each other's  *)
(* statements.  Inv is inductive: next to the properties it says what the  *)
(* stale row copies in the workers' variables still agree on with the      *)
(* table, which is why saving them back does no harm to the lifecycle.     *)
(***************************************************************************)
EXTENDS QuizAttempts, FiniteSetTheorems, SequenceTheorems, WellFoundedInduction, TLAPS

-----------------------------------------------------------------------------
\* What the scoring helpers return.  Inductions over attempt ids are written
\* as smallest counterexamples.

\* Every non-empty set of naturals has a smallest member.
LEMMA Smallest ==
  ASSUME NEW T \in SUBSET Nat, T # {}
  PROVE  \E n \in T : \A m \in T : n <= m
<1>1. PICK n \in T : \A m \in T : ~(<<m, n>> \in OpToRel(<, Nat))
  BY NatLessThanWellFounded, WFMin
<1>2. \A m \in T : ~(m < n)
  BY <1>1 DEF OpToRel
<1> QED
  BY <1>2

\* Among the ids S some one has the largest value of f.
LEMMA LargestExists ==
  ASSUME NEW N \in Nat, NEW S \in SUBSET (1..N), S # {},
         NEW f, \A i \in S : f[i] \in Int
  PROVE  \E i \in S : \A j \in S : f[j] <= f[i]
<1> DEFINE Top(n) == \E i \in S : i <= n /\ \A j \in S : j <= n => f[j] <= f[i]
           Bad == {n \in Nat : (\E i \in S : i <= n) /\ ~Top(n)}
<1>1. SUFFICES ASSUME Bad # {} PROVE FALSE
  <2>1. N \notin Bad => Top(N)
    <3>1. \E i \in S : i <= N
      <4>1. PICK i \in S : i \in S
        OBVIOUS
      <4> QED
        BY <4>1
    <3> HIDE DEF Top
    <3> QED
      BY <3>1
  <2>2. Top(N) => \E i \in S : \A j \in S : f[j] <= f[i]
    BY \A j \in S : j <= N
  <2> QED
    BY <1>1, <2>1, <2>2
<1>2. Bad \in SUBSET Nat
  OBVIOUS
<1>3. PICK n \in Bad : \A m \in Bad : n <= m
  BY <1>1, <1>2, Smallest
<1>4. n \in Nat /\ n # 0
  OBVIOUS
<1>5. n - 1 \in Nat /\ n - 1 \notin Bad
  <2>1. n - 1 \in Nat /\ ~(n <= n - 1)
    BY <1>4
  <2> HIDE DEF Bad
  <2> QED
    BY <1>3, <2>1
<1>6. CASE \E i \in S : i <= n - 1
  <2>1. Top(n - 1)
    BY <1>5, <1>6
  <2>2. PICK i \in S : i <= n - 1 /\ \A j \in S : j <= n - 1 => f[j] <= f[i]
    BY <2>1
  <2>3. CASE n \in S /\ f[n] > f[i]
    <3>1. \A j \in S : j <= n => f[j] <= f[n]
      <4>1. SUFFICES ASSUME NEW j \in S, j <= n PROVE f[j] <= f[n]
        OBVIOUS
      <4>2. j = n \/ j <= n - 1
        BY <1>4, <4>1
      <4> QED
        BY <2>2, <2>3, <4>2
    <3>2. Top(n)
      BY <2>3, <3>1, <1>4
    <3> QED
      BY <3>2, <1>3
  <2>4. CASE ~(n \in S /\ f[n] > f[i])
    <3>1. \A j \in S : j <= n => f[j] <= f[i]
      <4>1. SUFFICES ASSUME NEW j \in S, j <= n PROVE f[j] <= f[i]
        OBVIOUS
      <4>2. j = n \/ j <= n - 1
        BY <1>4, <4>1
      <4> QED
        BY <2>2, <2>4, <4>2
    <3>2. i <= n
      BY <2>2, <1>4
    <3>3. Top(n)
      BY <3>1, <3>2
    <3> QED
      BY <3>3, <1>3
  <2> QED
    BY <2>3, <2>4
<1>7. CASE ~\E i \in S : i <= n - 1
  <2>1. PICK i \in S : i <= n
    BY <1>3
  <2>2. i = n /\ \A j \in S : j <= n => j = n
    BY <1>4, <1>7, <2>1
  <2>3. Top(n)
    BY <2>2
  <2> QED
    BY <2>3, <1>3
<1> QED
  BY <1>6, <1>7

\* The latest attempt of a non-empty set of attempts is one of them, and no
\* other one is later.
LEMMA LatestIn ==
  ASSUME NEW S \in SUBSET Ids, S # {}, \A i \in S : rows[i].attempt \in Nat
  PROVE  /\ Latest(S) \in S
         /\ \A j \in S : \/ rows[j].attempt < rows[Latest(S)].attempt
                         \/ rows[j].attempt = rows[Latest(S)].attempt /\ Latest(S) <= j
<1> DEFINE f == [i \in S |-> rows[i].attempt]
           Tops == {i \in S : \A j \in S : rows[j].attempt <= rows[i].attempt}
<1>1. PICK a \in S : \A j \in S : f[j] <= f[a]
  <2>1. MaxRows \in Nat
    BY BoundsAssumption
  <2>2. S \in SUBSET (1..MaxRows)
    BY DEF Ids
  <2>3. \A i \in S : f[i] \in Int
    OBVIOUS
  <2> HIDE DEF f
  <2> QED
    BY <2>1, <2>2, <2>3, LargestExists
<1>2. Tops \in SUBSET Nat /\ Tops # {}
  <2>1. a \in Tops
    BY <1>1
  <2>2. S \in SUBSET Nat
    BY BoundsAssumption DEF Ids
  <2> QED
    BY <2>1, <2>2
<1>3. PICK i \in Tops : \A j \in Tops : i <= j
  BY <1>2, Smallest
<1>4. \A j \in S : \/ rows[j].attempt < rows[i].attempt
                   \/ rows[j].attempt = rows[i].attempt /\ i <= j
  <2>1. SUFFICES ASSUME NEW j \in S, ~(rows[j].attempt < rows[i].attempt)
                 PROVE  rows[j].attempt = rows[i].attempt /\ i <= j
    OBVIOUS
  <2>2. rows[j].attempt = rows[i].attempt
    BY <1>3, <2>1
  <2>3. j \in Tops
    BY <1>3, <2>2
  <2> QED
    BY <1>3, <2>2, <2>3
<1> QED
  BY <1>3, <1>4 DEF Latest

\* The answer points summed over all ids are a whole number.
LEMMA TotalType ==
  ASSUME NEW w \in [Ids -> Int]
  PROVE  Total(w) \in Int
<1> DEFINE D == 0..MaxRows
           Sums(f) == f = [n \in D |-> IF n = 0 THEN 0 ELSE f[n - 1] + w[n]]
           Upto(n) == \E f \in [D -> Int] :
                        \A m \in D : m <= n => f[m] = IF m = 0 THEN 0 ELSE f[m - 1] + w[m]
           Bad == {n \in D : ~Upto(n)}
<1>1. MaxRows \in Nat
  BY BoundsAssumption
<1>2. Bad = {}
  <2>1. SUFFICES ASSUME Bad # {} PROVE FALSE
    OBVIOUS
  <2>2. Bad \in SUBSET Nat
    BY <1>1
  <2>3. PICK n \in Bad : \A m \in Bad : n <= m
    <3> HIDE DEF Bad
    <3> QED
      BY <2>1, <2>2, Smallest
  <2>4. n \in D /\ n \in Nat
    BY <1>1
  <2>5. CASE n = 0
    <3>1. [m \in D |-> 0] \in [D -> Int]
      OBVIOUS
    <3>2. \A m \in D : m <= n => [k \in D |-> 0][m] = IF m = 0 THEN 0 ELSE [k \in D |-> 0][m - 1] + w[m]
      BY <2>5
    <3>3. Upto(n)
      BY <3>1, <3>2
    <3> QED
      BY <3>3
  <2>6. CASE n # 0
    <3>1. n - 1 \in D /\ ~(n <= n - 1)
      BY <1>1, <2>4, <2>6
    <3>2. n - 1 \notin Bad
      <4> HIDE DEF Bad
      <4> QED
        BY <2>3, <3>1
    <3>3. Upto(n - 1)
      BY <3>1, <3>2
    <3>4. PICK f \in [D -> Int] :
            \A m \in D : m <= n - 1 => f[m] = IF m = 0 THEN 0 ELSE f[m - 1] + w[m]
      BY <3>3
    <3>5. n \in Ids /\ w[n] \in Int
      BY <1>1, <2>4, <2>6 DEF Ids
    <3> DEFINE g == [f EXCEPT ![n] = f[n - 1] + w[n]]
    <3>6. g \in [D -> Int]
      BY <3>1, <3>4, <3>5, <2>4
    <3>7. \A m \in D : m <= n => g[m] = IF m = 0 THEN 0 ELSE g[m - 1] + w[m]
      <4>1. SUFFICES ASSUME NEW m \in D, m <= n
                     PROVE  g[m] = IF m = 0 THEN 0 ELSE g[m - 1] + w[m]
        OBVIOUS
      <4>2. CASE m = n
        <5>1. g[n] = f[n - 1] + w[n]
          BY <2>4
        <5>2. g[n - 1] = f[n - 1]
          BY <3>1, <2>4
        <5> QED
          BY <4>2, <5>1, <5>2, <2>6
      <4>3. CASE m # n
        <5>1. m <= n - 1 /\ m \in Nat
          BY <1>1, <4>1, <4>3, <2>4
        <5>2. g[m] = f[m]
          BY <4>3
        <5>3. m # 0 => g[m - 1] = f[m - 1]
          BY <5>1, <1>1, <2>4
        <5> QED
          BY <3>4, <5>1, <5>2, <5>3
      <4> QED
        BY <4>2, <4>3
    <3>8. Upto(n)
      <4> HIDE DEF g
      <4> QED
        BY <3>6, <3>7
    <3> QED
      BY <3>8
  <2> QED
    BY <2>5, <2>6
<1>3. \E f : Sums(f)
  <2>1. MaxRows \in D
    BY <1>1
  <2>2. Upto(MaxRows)
    BY <1>2, <2>1
  <2>3. PICK f \in [D -> Int] :
          \A m \in D : m <= MaxRows => f[m] = IF m = 0 THEN 0 ELSE f[m - 1] + w[m]
    BY <2>2
  <2>4. \A m \in D : m <= MaxRows
    BY <1>1
  <2>5. f = [n \in D |-> IF n = 0 THEN 0 ELSE f[n - 1] + w[n]]
    BY <2>3, <2>4
  <2> QED
    BY <2>5
<1> DEFINE sum == CHOOSE f : Sums(f)
<1>4. Sums(sum)
  BY <1>3
<1>5. Total(w) = sum[MaxRows]
  BY DEF Total
<1> DEFINE Wrong == {n \in D : sum[n] \notin Int}
<1>6. Wrong = {}
  <2>1. SUFFICES ASSUME Wrong # {} PROVE FALSE
    OBVIOUS
  <2>2. Wrong \in SUBSET Nat
    BY <1>1
  <2>3. PICK n \in Wrong : \A m \in Wrong : n <= m
    <3> HIDE DEF Wrong
    <3> QED
      BY <2>1, <2>2, Smallest
  <2>4. n \in D /\ n \in Nat /\ sum[n] \notin Int
    BY <1>1
  <2>5. \A m \in D : sum[m] = IF m = 0 THEN 0 ELSE sum[m - 1] + w[m]
    <3> HIDE DEF sum
    <3> QED
      BY <1>4
  <2>6. n # 0
    BY <2>4, <2>5
  <2>7. n - 1 \in D /\ ~(n <= n - 1) /\ w[n] \in Int
    BY <1>1, <2>4, <2>6 DEF Ids
  <2>8. n - 1 \notin Wrong
    <3> HIDE DEF Wrong
    <3> QED
      BY <2>3, <2>7
  <2>9. sum[n - 1] \in Int
    BY <2>7, <2>8
  <2> HIDE DEF sum
  <2> QED
    BY <2>4, <2>5, <2>6, <2>7, <2>9
<1>7. MaxRows \in D
  BY <1>1
<1> QED
  BY <1>5, <1>6, <1>7

\* Rounding a quotient of whole numbers yields a whole number.
LEMMA RoundDivType ==
  ASSUME NEW s \in Int, NEW n \in Nat \ {0}
  PROVE  RoundDiv(s, n) \in Int
<1>1. 2 * n \in Int /\ 2 * n > 0 /\ 2 * s + n \in Int /\ n - 2 * s \in Int
  OBVIOUS
<1>2. (2 * s + n) \div (2 * n) \in Int /\ (n - 2 * s) \div (2 * n) \in Int
  BY <1>1
<1> QED
  BY <1>2 DEF RoundDiv

\* The highest score of a non-empty set of scored attempts is one of theirs,
\* and no other one is higher.
LEMMA HighestIn ==
  ASSUME NEW S \in SUBSET Ids, S # {}, \A i \in S : rows[i].score \in Int
  PROVE  /\ Highest(S) \in {rows[i].score : i \in S}
         /\ \A j \in S : rows[j].score <= Highest(S)
<1> DEFINE f == [i \in S |-> rows[i].score]
<1>1. MaxRows \in Nat /\ S \in SUBSET (1..MaxRows) /\ \A i \in S : f[i] \in Int
  BY BoundsAssumption DEF Ids
<1>2. PICK i \in S : \A j \in S : f[j] <= f[i]
  <2> HIDE DEF f
  <2> QED
    BY <1>1, LargestExists
<1>3. \A j \in S : rows[j].score <= rows[i].score
  BY <1>2
<1> QED
  BY <1>3 DEF Highest

\* Every scoring policy turns finished, scored attempts into a score.
LEMMA KeptScoreType ==
  ASSUME NEW S \in SUBSET Ids, S # {},
         \A i \in S : rows[i].attempt \in Nat /\ rows[i].score \in Int
  PROVE  KeptScore(S) \in Int
<1>1. MaxRows \in Nat /\ S \in SUBSET (1..MaxRows)
  BY BoundsAssumption DEF Ids
<1>2. rows[Latest(S)].score \in Int
  BY LatestIn
<1>3. Highest(S) \in Int
  BY HighestIn
<1>4. Average(S) \in Int
  <2> DEFINE w == [i \in Ids |-> IF i \in S THEN rows[i].score ELSE 0]
  <2>1. w \in [Ids -> Int]
    OBVIOUS
  <2>2. Total(w) \in Int
    <3> HIDE DEF w
    <3> QED
      BY <2>1, TotalType
  <2>3. IsFiniteSet(1..MaxRows)
    BY <1>1, FS_Interval
  <2>4. IsFiniteSet(S)
    BY <1>1, <2>3, FS_Subset
  <2>5. Cardinality(S) \in Nat \ {0}
    BY <2>4, FS_CardinalityType, FS_EmptySet
  <2> HIDE DEF w
  <2>6. RoundDiv(Total(w), Cardinality(S)) \in Int
    BY <2>2, <2>5, RoundDivType
  <2> QED
    BY <2>6 DEF Average, w
<1> QED
  BY <1>2, <1>3, <1>4 DEF KeptScore

-----------------------------------------------------------------------------
\* The inductive invariant

Scored(r) == r.score \in Int /\ r.finishedAt \in Int

\* Turned-in rows are scored and have a finish time.
DoneScored == \A i \in Done : Scored(rows[i])

\* c is a copy of the turned-in attempt i: it may be old, but not in its stamp.
Copy(c, i) ==
  i \in Done /\ Completed(c) /\ Scored(c) /\ Stamp(c) = Stamp(rows[i])

AttemptLabels == {"answer_find", "answer_save", "read_append", "fin_list", "fin_save",
                  "ext_set", "see_save", "fire"}
QuestionLabels == {"answer_find", "answer_save", "read_append", "grade_mark",
                   "regrade_find", "regrade_mark", "regrade_list", "regrade_save"}
KeptLabels == {"kept_save", "gb_find", "gb_save", "link_save"}
GradeLabels == {"grade_list", "grade_mark", "grade_save"}
RegradeLabels == {"regrade_mark", "regrade_list", "regrade_save"}

\* What the variables r of a worker agree on with the tables.
Agrees(r) ==
  /\ r.pc = "start_create" => r.row.state = "untaken"
  /\ r.pc \in AttemptLabels => r.id \in Used
  /\ r.pc \in QuestionLabels => r.q \in Questions
  /\ r.pc \in {"fin_list", "fin_save"} => r.row.finishedAt \in Int
  /\ r.pc = "fin_save" => Completed(r.row) /\ r.row.score \in Int
  /\ r.pc \in {"ext_find", "ext_set"} => r.inp.fromNow # Nil \/ r.inp.fromEnd # Nil
  /\ r.pc \in KeptLabels => Copy(r.row, r.latest)
  /\ r.pc \in GradeLabels => r.op = "grade" /\ Copy(r.row, r.id)
  /\ r.pc \in RegradeLabels => Copy(r.row, r.id)
  /\ r.pc \in RegradeLabels \cup {"regrade_find"} =>
       r.op = "regrade" /\ \A i \in Ids : r.list[i] # NoRow => Copy(r.list[i], i)
  /\ r.pc = "fire" => r.op \in {"complete", "autosubmit"}

\* The worker has turned attempt r.id in and will start its callbacks.
Reports(r) ==
  /\ r.op \in {"complete", "autosubmit"}
  /\ r.pc \in KeptLabels \cup {"kept_read", "fire"}

\* Whoever is about to start callbacks is the only one, and the first.
Reporters ==
  /\ \A p \in Procs : Reports(req[p]) => req[p].id \in Done /\ fired[req[p].id] = 0
  /\ \A p, o \in Procs :
       p # o /\ Reports(req[p]) /\ Reports(req[o]) => req[p].id # req[o].id

CallbackState == \A i \in Ids : fired[i] <= 1 /\ (fired[i] = 1 => i \in Done)

Inv ==
  /\ TypeOK
  /\ DoneScored
  /\ AtMostOneUntaken
  /\ CallbackState
  /\ Reporters
  /\ \A p \in Procs : Agrees(req[p])

\* What the rest of the system sees of the attempts stays.
Steady ==
  /\ nrows' = nrows
  /\ fired' = fired
  /\ Untaken' = Untaken
  /\ Done' = Done
  /\ \A i \in Done : Stamp(rows'[i]) = Stamp(rows[i])

-----------------------------------------------------------------------------
\* Steps that leave the lifecycle alone

\* The constants of the model are values of their types.
LEMMA NoneTypes ==
  /\ NoRow \in Row /\ NoAnswer \in Answer /\ BlankAnswer \in Answer
  /\ Idle \in Request
<1>1. NoRow \in Row
  BY DEF NoRow, Row, States
<1>2. NoAnswer \in Answer /\ BlankAnswer \in Answer
  BY DEF NoAnswer, BlankAnswer, Answer
<1>3. NoInput \in ExtInputs \cup {NoInput}
  OBVIOUS
<1>4. NoExtension \in Extension /\ NoGradebookRow \in GradebookRow
  BY DEF NoExtension, Extension, NoGradebookRow, GradebookRow
<1>5. MaxRows \in Nat
  BY BoundsAssumption
<1>6. Idle \in Request
  BY <1>1, <1>2, <1>3, <1>4, <1>5 DEF Idle, Request, Labels
<1> QED
  BY <1>1, <1>2, <1>6

\* Attempt ids and "no attempt".
LEMMA IdRange == \A i \in Ids : i \in 0..MaxRows
BY BoundsAssumption DEF Ids

\* An idle worker agrees with everything and reports nothing.
LEMMA IdleAgrees == Agrees(Idle) /\ ~Reports(Idle)
BY DEF Agrees, Reports, Idle, AttemptLabels, QuestionLabels, KeptLabels, GradeLabels, RegradeLabels

\* Moving worker p on changes nobody else's variables.
LEMMA GotoTypes ==
  ASSUME TypeOK, NEW p \in Procs, NEW r \in Request, Goto(p, r)
  PROVE  /\ req' \in [Procs -> Request]
         /\ req'[p] = r
         /\ \A o \in Procs : o # p => req'[o] = req[o]
BY DEF TypeOK, Goto

\* What a worker's variables agree on survives a steady step.
LEMMA AgreesSteady ==
  ASSUME Steady, NEW r, Agrees(r)
  PROVE  Agrees(r)'
<1>1. Used' = Used
  BY DEF Steady, Used
<1>2. \A c, i : Copy(c, i) => Copy(c, i)'
  BY DEF Steady, Copy
<1> QED
  BY <1>1, <1>2 DEF Agrees

\* A steady step keeps the invariant if the moving worker agrees with the
\* tables and did not start to report.
LEMMA SteadyStep ==
  ASSUME Inv, NEW p \in Procs, NEW r \in Request, Goto(p, r),
         Steady, TablesOK', DoneScored', Agrees(r),
         Reports(r) => Reports(req[p]) /\ r.id = req[p].id
  PROVE  Inv'
<1>1. /\ req' \in [Procs -> Request]
      /\ req'[p] = r
      /\ \A o \in Procs : o # p => req'[o] = req[o]
  BY GotoTypes DEF Inv
<1>2. TypeOK'
  BY <1>1 DEF TypeOK
<1>3. AtMostOneUntaken'
  BY DEF Inv, Steady, AtMostOneUntaken
<1>4. CallbackState'
  BY DEF Inv, Steady, CallbackState
<1>5. \A o \in Procs : Reports(req'[o]) => Reports(req[o]) /\ req'[o].id = req[o].id
  BY <1>1
<1>6. Reporters'
  BY <1>5 DEF Inv, Reporters, Steady
<1>7. \A o \in Procs : Agrees(req[o])'
  <2>1. SUFFICES ASSUME NEW o \in Procs PROVE Agrees(req[o])'
    OBVIOUS
  <2>2. Agrees(req'[o])
    BY <1>1 DEF Inv
  <2> QED
    BY <2>2, AgreesSteady
<1> QED
  BY <1>2, <1>3, <1>4, <1>6, <1>7 DEF Inv

\* A step that changes only the variables of its worker.
LEMMA LocalStep ==
  ASSUME Inv, NEW p \in Procs, NEW r \in Request, Goto(p, r),
         UNCHANGED <<rows, nrows, answers, ext, gb, key, closed, now, fired>>,
         Agrees(r), Reports(r) => Reports(req[p]) /\ r.id = req[p].id
  PROVE  Inv' /\ Steady
<1>1. Used' = Used
  BY DEF Used
<1>2. Untaken' = Untaken /\ Done' = Done
  BY <1>1 DEF Untaken, Done
<1>3. Steady
  BY <1>2 DEF Steady
<1>4. TablesOK'
  BY <1>1 DEF Inv, TypeOK, TablesOK
<1>5. DoneScored'
  BY <1>2 DEF Inv, DoneScored
<1> QED
  BY <1>3, <1>4, <1>5, SteadyStep

\* A request that arrives and has only been read so far.
LEMMA BeginStep ==
  ASSUME Inv, NEW p \in Procs, NEW op \in OpNames, NEW label \in Labels, NEW r \in Request,
         Begin(p, op, label, r),
         UNCHANGED <<rows, nrows, answers, ext, gb, key, closed, now, fired>>,
         Agrees([r EXCEPT !.pc = label, !.op = op]),
         label \notin KeptLabels \cup {"kept_read", "fire"}
  PROVE  Inv' /\ Steady
<1> DEFINE begun == [r EXCEPT !.pc = label, !.op = op]
<1>1. begun \in Request
  BY DEF Request
<1>2. begun.pc = label
  BY DEF Request
<1>3. ~Reports(begun)
  BY <1>2 DEF Reports
<1>4. Goto(p, begun)
  BY DEF Begin
<1> HIDE DEF begun
<1>5. Agrees(begun)
  BY DEF begun
<1> QED
  BY <1>1, <1>3, <1>4, <1>5, LocalStep

-----------------------------------------------------------------------------
\* Requests and jobs that arrive

\* A start request has read the extension.
LEMMA StartSubmissionStep ==
  ASSUME Inv, NEW p \in Procs, StartSubmission(p)
  PROVE  Inv' /\ Steady
<1> DEFINE r == [Idle EXCEPT !.ext = ext, !.at = now]
<1>1. r \in Request
  BY NoneTypes DEF Inv, TypeOK, TablesOK, Request
<1>2. Agrees([r EXCEPT !.pc = "start_find", !.op = "start"])
  BY <1>1 DEF Agrees, Request, AttemptLabels, QuestionLabels, KeptLabels, GradeLabels, RegradeLabels
<1>3. /\ Begin(p, "start", "start_find", r)
      /\ UNCHANGED <<rows, nrows, answers, ext, gb, key, closed, now, fired>>
  BY DEF StartSubmission
<1>4. "start" \in OpNames /\ "start_find" \in Labels
  BY DEF OpNames, Labels
<1> QED
  BY <1>1, <1>2, <1>3, <1>4, BeginStep DEF KeptLabels

\* An answer request has checked its attempt.
LEMMA AnswerQuestionStep ==
  ASSUME Inv, NEW p \in Procs,
         NEW i \in Ids, NEW q \in Questions, NEW text \in Texts, AnswerQuestion(p, i, q, text)
  PROVE  Inv' /\ Steady
<1> DEFINE r == [Idle EXCEPT !.id = i, !.q = q, !.text = text]
<1>1. i \in Used
  BY DEF AnswerQuestion, Untaken
<1>2. r \in Request
  BY NoneTypes, IdRange DEF Request
<1>3. Agrees([r EXCEPT !.pc = "answer_find", !.op = "answer"])
  BY <1>2, <1>1 DEF Agrees, Request, AttemptLabels, QuestionLabels, KeptLabels, GradeLabels, RegradeLabels
<1>4. /\ Begin(p, "answer", "answer_find", r)
      /\ UNCHANGED <<rows, nrows, answers, ext, gb, key, closed, now, fired>>
  BY DEF AnswerQuestion
<1>5. "answer" \in OpNames /\ "answer_find" \in Labels
  BY DEF OpNames, Labels
<1> QED
  BY <1>2, <1>3, <1>4, <1>5, BeginStep DEF KeptLabels

\* A request to move past a question has checked its attempt.
LEMMA MarkQuestionReadStep ==
  ASSUME Inv, NEW p \in Procs,
         NEW i \in Ids, NEW q \in Questions, MarkQuestionRead(p, i, q)
  PROVE  Inv' /\ Steady
<1> DEFINE r == [Idle EXCEPT !.id = i, !.q = q]
<1>1. i \in Used
  BY DEF MarkQuestionRead, Untaken
<1>2. r \in Request
  BY NoneTypes, IdRange DEF Request
<1>3. Agrees([r EXCEPT !.pc = "read_append", !.op = "read"])
  BY <1>2, <1>1 DEF Agrees, Request, AttemptLabels, QuestionLabels, KeptLabels, GradeLabels, RegradeLabels
<1>4. /\ Begin(p, "read", "read_append", r)
      /\ UNCHANGED <<rows, nrows, answers, ext, gb, key, closed, now, fired>>
  BY DEF MarkQuestionRead
<1>5. "read" \in OpNames /\ "read_append" \in Labels
  BY DEF OpNames, Labels
<1> QED
  BY <1>2, <1>3, <1>4, <1>5, BeginStep DEF KeptLabels

\* A /complete request has read its attempt and stamped the copy.
LEMMA CompleteSubmissionStep ==
  ASSUME Inv, NEW p \in Procs, NEW i \in Ids, CompleteSubmission(p, i)
  PROVE  Inv' /\ Steady
<1> DEFINE r == [Idle EXCEPT !.id = i, !.row = [rows[i] EXCEPT !.finishedAt = FinishAt(rows[i])]]
<1>1. i \in Used
  BY DEF CompleteSubmission, Untaken
<1>2. FinishAt(rows[i]) \in Int /\ rows[i] \in Row
  BY QuizAssumption, NilAssumption DEF Inv, TypeOK, TablesOK, Row, FinishAt, Expired
<1>3. [rows[i] EXCEPT !.finishedAt = FinishAt(rows[i])] \in Row
  BY <1>2 DEF Row
<1>4. r \in Request
  BY <1>1, <1>2, <1>3, NoneTypes, IdRange DEF Request
<1>5. r.id = i /\ r.row.finishedAt \in Int
  <2>1. r.id = i /\ r.row = [rows[i] EXCEPT !.finishedAt = FinishAt(rows[i])]
    BY NoneTypes DEF Request
  <2> HIDE DEF r
  <2> QED
    BY <2>1, <1>2 DEF Row
<1> HIDE DEF r
<1>6. Agrees([r EXCEPT !.pc = "fin_list", !.op = "complete"])
  BY <1>4, <1>1, <1>5 DEF Agrees, Request, AttemptLabels, QuestionLabels, KeptLabels, GradeLabels, RegradeLabels
<1>7. /\ Begin(p, "complete", "fin_list", r)
      /\ UNCHANGED <<rows, nrows, answers, ext, gb, key, closed, now, fired>>
  BY DEF CompleteSubmission, r
<1>8. "complete" \in OpNames /\ "fin_list" \in Labels
  BY DEF OpNames, Labels
<1> QED
  BY <1>4, <1>6, <1>7, <1>8, BeginStep DEF KeptLabels

\* A moderation request has merged its settings with those it read.
LEMMA SetQuizExtensionStep ==
  ASSUME Inv, NEW p \in Procs, NEW in \in ExtInputs, SetQuizExtension(p, in)
  PROVE  Inv' /\ Steady
<1> DEFINE e == [attempts |-> Override(in.attempts, ext.attempts),
                 time     |-> Override(in.time, ext.time),
                 unlocked |-> Override(in.unlocked, ext.unlocked)]
           r == [Idle EXCEPT !.inp = in, !.ext = e]
<1>1. e \in Extension
  <2>1. /\ in.attempts \in Nat \cup {Nil} /\ in.time \in Nat \cup {Nil}
        /\ in.unlocked \in BOOLEAN \cup {Nil}
    BY ExtAssumption
  <2>2. ext.attempts \in Nat /\ ext.time \in Nat /\ ext.unlocked \in BOOLEAN
    BY DEF Inv, TypeOK, TablesOK, Extension
  <2>3. /\ Override(in.attempts, ext.attempts) \in Nat
        /\ Override(in.time, ext.time) \in Nat
        /\ Override(in.unlocked, ext.unlocked) \in BOOLEAN
    BY <2>1, <2>2 DEF Override
  <2> QED
    BY <2>3 DEF Extension
<1> HIDE DEF e
<1>2. r \in Request
  BY <1>1, NoneTypes DEF Request
<1>3. Agrees([r EXCEPT !.pc = "ext_save", !.op = "extend"])
  BY <1>2 DEF Agrees, Request, AttemptLabels, QuestionLabels, KeptLabels, GradeLabels, RegradeLabels
<1>4. /\ Begin(p, "extend", "ext_save", r)
      /\ UNCHANGED <<rows, nrows, answers, ext, gb, key, closed, now, fired>>
  BY DEF SetQuizExtension, e
<1>5. "extend" \in OpNames /\ "ext_save" \in Labels
  BY DEF OpNames, Labels
<1> QED
  BY <1>2, <1>3, <1>4, <1>5, BeginStep DEF KeptLabels

\* A row of the table is a copy of itself.
LEMMA CopyOfRow ==
  ASSUME Inv, NEW i \in Done
  PROVE  Copy(rows[i], i) /\ i \in Ids /\ rows[i] \in Row /\ i \in Used
<1>1. i \in Used
  BY DEF Done
<1>2. i \in Ids
  BY <1>1, BoundsAssumption DEF Inv, TypeOK, TablesOK, Used, Ids
<1>3. rows[i] \in Row
  BY <1>2 DEF Inv, TypeOK, TablesOK
<1>4. Completed(rows[i]) /\ Scored(rows[i])
  BY DEF Inv, DoneScored, Done
<1> QED
  BY <1>1, <1>2, <1>3, <1>4 DEF Copy

\* A grader's request has read its attempt.
LEMMA UpdateQuizScoresStep ==
  ASSUME Inv, NEW p \in Procs, NEW i \in Ids, NEW q \in Questions \cup {"none"},
         NEW mark \in Marks \cup {Nil}, NEW fudge \in Fudges \cup {Nil},
         UpdateQuizScores(p, i, q, mark, fudge)
  PROVE  Inv' /\ Steady
<1> DEFINE r == [Idle EXCEPT !.id = i, !.row = rows[i], !.q = q, !.mark = mark, !.fudge = fudge]
<1>1. Copy(rows[i], i) /\ rows[i] \in Row
  BY CopyOfRow DEF UpdateQuizScores
<1>2. mark \in Int \cup {Nil} /\ fudge \in Int \cup {Nil}
  BY QuizAssumption
<1>3. r \in Request
  BY <1>1, <1>2, NoneTypes, IdRange DEF Request
<1>4. r.id = i /\ r.row = rows[i]
  BY NoneTypes DEF Request
<1>5. /\ Begin(p, "grade", "grade_list", r)
      /\ UNCHANGED <<rows, nrows, answers, ext, gb, key, closed, now, fired>>
  BY DEF UpdateQuizScores
<1> HIDE DEF r
<1>6. Agrees([r EXCEPT !.pc = "grade_list", !.op = "grade"])
  BY <1>1, <1>3, <1>4 DEF Agrees, Request, AttemptLabels, QuestionLabels, KeptLabels, GradeLabels, RegradeLabels
<1>7. "grade" \in OpNames /\ "grade_list" \in Labels
  BY DEF OpNames, Labels
<1> QED
  BY <1>3, <1>5, <1>6, <1>7, BeginStep DEF KeptLabels

\* A regrade has listed the finished attempts.
LEMMA RegradeQuestionStep ==
  ASSUME Inv, NEW p \in Procs, NEW q \in Questions, NEW option \in RegradeOptions,
         RegradeQuestion(p, q, option)
  PROVE  Inv' /\ Steady
<1> DEFINE listed == [i \in Ids |-> IF i \in Done THEN rows[i] ELSE NoRow]
           r == [Idle EXCEPT !.q = q, !.option = option, !.text = key, !.list = listed]
<1>1. listed \in [Ids -> Row] /\ \A i \in Ids : listed[i] # NoRow => Copy(listed[i], i)
  BY CopyOfRow, NoneTypes
<1>2. /\ Begin(p, "regrade", "regrade_find", r)
      /\ UNCHANGED <<rows, nrows, answers, ext, gb, key, closed, now, fired>>
  BY DEF RegradeQuestion
<1> HIDE DEF listed
<1>3. key \in Texts
  BY DEF Inv, TypeOK, TablesOK
<1>4. r \in Request
  BY <1>1, <1>3, NoneTypes DEF Request
<1>5. r.q = q /\ r.list = listed
  BY NoneTypes DEF Request
<1> HIDE DEF r
<1>6. Agrees([r EXCEPT !.pc = "regrade_find", !.op = "regrade"])
  BY <1>1, <1>4, <1>5 DEF Agrees, Request, AttemptLabels, QuestionLabels, KeptLabels, GradeLabels, RegradeLabels
<1>7. "regrade" \in OpNames /\ "regrade_find" \in Labels
  BY DEF OpNames, Labels
<1> QED
  BY <1>2, <1>4, <1>6, <1>7, BeginStep DEF KeptLabels

\* A request for one-time results has read its attempt.
LEMMA MarkResultsSeenStep ==
  ASSUME Inv, NEW p \in Procs, NEW i \in Ids, MarkResultsSeen(p, i)
  PROVE  Inv' /\ Steady
<1> DEFINE r == [Idle EXCEPT !.id = i, !.at = now]
<1>1. i \in Used
  BY DEF MarkResultsSeen, Done
<1>2. r \in Request
  BY NoneTypes, IdRange DEF Inv, TypeOK, TablesOK, Request
<1>3. Agrees([r EXCEPT !.pc = "see_save", !.op = "see"])
  BY <1>1, <1>2 DEF Agrees, Request, AttemptLabels, QuestionLabels, KeptLabels, GradeLabels, RegradeLabels
<1>4. /\ Begin(p, "see", "see_save", r)
      /\ UNCHANGED <<rows, nrows, answers, ext, gb, key, closed, now, fired>>
  BY DEF MarkResultsSeen
<1>5. "see" \in OpNames /\ "see_save" \in Labels
  BY DEF OpNames, Labels
<1> QED
  BY <1>2, <1>3, <1>4, <1>5, BeginStep DEF KeptLabels

\* An excusal has read the gradebook row.
LEMMA SetExcusedStep ==
  ASSUME Inv, NEW p \in Procs, NEW excused \in BOOLEAN, SetExcused(p, excused)
  PROVE  Inv' /\ Steady
<1> DEFINE g == IF excused
                THEN [gb EXCEPT !.excused = TRUE, !.score = Nil, !.pending = FALSE]
                ELSE [gb EXCEPT !.excused = FALSE, !.pending = (@ /\ gb.score # Nil)]
           r == [Idle EXCEPT !.gb = g]
<1>1. g \in GradebookRow
  <2>1. gb \in GradebookRow
    BY DEF Inv, TypeOK, TablesOK
  <2> QED
    BY <2>1 DEF GradebookRow
<1>2. /\ Begin(p, "excuse", "excuse_save", r)
      /\ UNCHANGED <<rows, nrows, answers, ext, gb, key, closed, now, fired>>
  BY DEF SetExcused
<1> HIDE DEF g
<1>3. r \in Request
  BY <1>1, NoneTypes DEF Request
<1>4. Agrees([r EXCEPT !.pc = "excuse_save", !.op = "excuse"])
  BY <1>3 DEF Agrees, Request, AttemptLabels, QuestionLabels, KeptLabels, GradeLabels, RegradeLabels
<1>5. "excuse" \in OpNames /\ "excuse_save" \in Labels
  BY DEF OpNames, Labels
<1> QED
  BY <1>2, <1>3, <1>4, <1>5, BeginStep DEF KeptLabels

\* The overdue job starts.
LEMMA AutoSubmitStep ==
  ASSUME Inv, NEW p \in Procs, AutoSubmit(p)
  PROVE  Inv' /\ Steady
<1> DEFINE r == [Idle EXCEPT !.at = now]
<1>1. r \in Request
  BY NoneTypes DEF Inv, TypeOK, TablesOK, Request
<1>2. Agrees([r EXCEPT !.pc = "job_list", !.op = "autosubmit"])
  BY <1>1 DEF Agrees, Request, AttemptLabels, QuestionLabels, KeptLabels, GradeLabels, RegradeLabels
<1>3. /\ Begin(p, "autosubmit", "job_list", r)
      /\ UNCHANGED <<rows, nrows, answers, ext, gb, key, closed, now, fired>>
  BY DEF AutoSubmit
<1>4. "autosubmit" \in OpNames /\ "job_list" \in Labels
  BY DEF OpNames, Labels
<1> QED
  BY <1>1, <1>2, <1>3, <1>4, BeginStep DEF KeptLabels

-----------------------------------------------------------------------------
\* Statements that only read

\* What is known of a worker's variables.
LEMMA WorkerState ==
  ASSUME Inv, NEW p \in Procs
  PROVE  req[p] \in Request /\ Agrees(req[p])
BY DEF Inv, TypeOK

\* The ids in use, and the finished ones among them, are attempt ids.
LEMMA UsedIds ==
  ASSUME Inv
  PROVE  /\ Used \subseteq Ids /\ Done \subseteq Used /\ Untaken \subseteq Used
         /\ \A i \in Ids : rows[i] \in Row
<1>1. Used \subseteq Ids
  BY BoundsAssumption DEF Inv, TypeOK, TablesOK, Used, Ids
<1> QED
  BY <1>1 DEF Inv, TypeOK, TablesOK, Done, Untaken

\* A request or job that is over.
LEMMA FinishStep ==
  ASSUME Inv, NEW p \in Procs, Finish(p),
         UNCHANGED <<rows, nrows, answers, ext, gb, key, closed, now, fired>>
  PROVE  Inv' /\ Steady
BY IdleAgrees, NoneTypes, LocalStep DEF Finish

\* The first answer row of a question is an answer row.
LEMMA FirstAnswerType ==
  ASSUME Inv, NEW i \in Ids, NEW q \in Questions
  PROVE  FirstAnswer(i, q) \in Answer
<1>1. answers[i][q] \in Seq(Answer)
  BY DEF Inv, TypeOK, TablesOK
<1>2. answers[i][q] # <<>> => answers[i][q][1] \in Answer
  BY <1>1
<1> QED
  BY <1>2, NoneTypes DEF FirstAnswer

\* StartFind prepares an untaken row, or the request ends.
LEMMA StartFindStep ==
  ASSUME Inv, NEW p \in Procs, StartFind(p)
  PROVE  Inv' /\ Steady
<1> DEFINE attempt == IF nrows = 0 THEN 1 ELSE rows[Latest(Used)].attempt + 1
           resume == nrows > 0 /\ rows[Latest(Used)].state = "untaken"
           row == NewAttempt(attempt, req[p].at, req[p].ext)
           r == [req[p] EXCEPT !.pc = "start_create", !.row = row]
<1>1. req[p] \in Request /\ Agrees(req[p])
  BY WorkerState
<1>2. UNCHANGED <<rows, nrows, answers, ext, gb, key, closed, now, fired>>
  BY DEF StartFind
<1>3. CASE resume \/ ~Allowed(attempt, req[p].ext)
  <2>1. Finish(p)
    BY <1>3 DEF StartFind
  <2> QED
    BY <1>2, <2>1, FinishStep
<1>4. CASE ~(resume \/ ~Allowed(attempt, req[p].ext))
  <2>1. attempt \in Nat
    <3>1. nrows \in Nat /\ (nrows # 0 => Used # {})
      <4>1. nrows \in 0..MaxRows
        BY DEF Inv, TypeOK, TablesOK
      <4>2. nrows \in Nat
        BY <4>1, BoundsAssumption
      <4>3. nrows # 0 => 1 \in Used
        BY <4>2 DEF Used
      <4> QED
        BY <4>2, <4>3
    <3>2. \A i \in Used : i \in Ids /\ rows[i].attempt \in Nat
      BY UsedIds DEF Row
    <3>3. nrows # 0 => Latest(Used) \in Used
      BY <3>1, <3>2, LatestIn
    <3> QED
      BY <3>1, <3>2, <3>3
  <2>2. /\ req[p].at \in Nat
        /\ req[p].ext.attempts \in Nat /\ req[p].ext.time \in Nat /\ req[p].ext.unlocked \in BOOLEAN
    BY <1>1 DEF Request, Extension
  <2>3. Deadline(req[p].at, req[p].ext) \in Int \cup {Nil}
    BY <2>2, QuizAssumption DEF Deadline
  <2> HIDE DEF attempt
  <2>4. row \in Row /\ row.state = "untaken"
    BY <2>1, <2>2, <2>3, NoneTypes DEF NewAttempt, Row, States
  <2>5. Goto(p, r)
    BY <1>4 DEF StartFind, attempt
  <2> HIDE DEF row
  <2>6. r \in Request
    BY ZenonT(60), <1>1, <2>4 DEF Request, Labels
  <2>7. Agrees(r) /\ ~Reports(r)
    BY <1>1, <2>4 DEF Agrees, Reports, Request, AttemptLabels, QuestionLabels, KeptLabels, GradeLabels, RegradeLabels
  <2> QED
    BY <1>2, <2>5, <2>6, <2>7, LocalStep
<1> QED
  BY <1>3, <1>4

\* AnswerFind keeps the answer row it found.
LEMMA AnswerFindStep ==
  ASSUME Inv, NEW p \in Procs, AnswerFind(p)
  PROVE  Inv' /\ Steady
<1> DEFINE found == FirstAnswer(req[p].id, req[p].q)
           r == [req[p] EXCEPT !.pc = "answer_save", !.held[req[p].q] = found]
<1>1. req[p] \in Request /\ Agrees(req[p]) /\ req[p].pc = "answer_find"
  BY WorkerState DEF AnswerFind, At
<1>2. req[p].id \in Used /\ req[p].q \in Questions
  BY <1>1 DEF Agrees, AttemptLabels, QuestionLabels
<1>3. found \in Answer
  BY <1>2, UsedIds, FirstAnswerType
<1>4. /\ Goto(p, r)
      /\ UNCHANGED <<rows, nrows, answers, ext, gb, key, closed, now, fired>>
  BY DEF AnswerFind
<1> HIDE DEF found
<1>5. r \in Request
  BY <1>1, <1>3 DEF Request, Labels
<1>6. Agrees(r) /\ ~Reports(r)
  BY <1>1, <1>2 DEF Agrees, Reports, Request, AttemptLabels, QuestionLabels, KeptLabels, GradeLabels, RegradeLabels
<1> QED
  BY <1>4, <1>5, <1>6, LocalStep

\* JobList takes an overdue attempt, or the job ends.
LEMMA JobListStep ==
  ASSUME Inv, NEW p \in Procs, JobList(p)
  PROVE  Inv' /\ Steady
<1>1. req[p] \in Request /\ Agrees(req[p]) /\ req[p].pc = "job_list"
  BY WorkerState DEF JobList, At
<1>2. UNCHANGED <<rows, nrows, answers, ext, gb, key, closed, now, fired>>
  BY DEF JobList
<1>3. CASE ~\E i \in Ids : Overdue(i, req[p].at)
  BY <1>2, <1>3, FinishStep DEF JobList
<1>4. CASE \E i \in Ids : Overdue(i, req[p].at)
  <2> DEFINE row(i) == [rows[i] EXCEPT !.finishedAt = rows[i].endAt]
             r(i) == [req[p] EXCEPT !.pc = "fin_list", !.id = i, !.row = row(i)]
  <2>1. PICK i \in Ids : Overdue(i, req[p].at) /\ Goto(p, r(i))
    BY <1>4 DEF JobList
  <2>2. i \in Used /\ rows[i] \in Row /\ rows[i].endAt \in Int
    BY <2>1, UsedIds DEF Overdue, Row
  <2>3. row(i) \in Row /\ row(i).finishedAt \in Int
    BY <2>2 DEF Row
  <2> HIDE DEF row
  <2>4. r(i) \in Request
    BY <1>1, <2>3, IdRange DEF Request, Labels
  <2>5. Agrees(r(i)) /\ ~Reports(r(i))
    BY <1>1, <2>2, <2>3 DEF Agrees, Reports, Request, AttemptLabels, QuestionLabels, KeptLabels, GradeLabels, RegradeLabels
  <2> QED
    BY <1>2, <2>1, <2>4, <2>5, LocalStep
<1> QED
  BY <1>3, <1>4

\* An answer row with other points, and graded another way, is an answer row.
LEMMA AnswerExcept ==
  ASSUME NEW a \in Answer, NEW points \in Int \cup {Nil}, NEW via \in {"none", "auto", "manual"}
  PROVE  /\ [a EXCEPT !.points = points, !.via = via] \in Answer
         /\ [a EXCEPT !.points = points] \in Answer
BY DEF Answer

\* Grading an answer gives an answer; its points are whole.
LEMMA GradedType ==
  ASSUME NEW q, NEW a \in Answer
  PROVE  Graded(q, a) \in Answer /\ Points(a) \in Int
<1>1. AutoGraded(a.text, key) \in Int
  BY QuizAssumption DEF AutoGraded
<1>2. /\ [a EXCEPT !.points = 0, !.via = "auto"] \in Answer
      /\ [a EXCEPT !.points = AutoGraded(a.text, key), !.via = "auto"] \in Answer
      /\ [a EXCEPT !.points = 0] \in Answer
  <2>1. 0 \in Int \cup {Nil} /\ AutoGraded(a.text, key) \in Int \cup {Nil}
    BY <1>1
  <2> QED
    BY <2>1, AnswerExcept, Zenon
<1>3. Graded(q, a) \in Answer
  BY <1>1, <1>2 DEF Graded
<1>4. Points(a) \in Int
  BY DEF Points, Answer
<1> QED
  BY <1>3, <1>4

\* FinalizeList scores the copy.
LEMMA FinalizeListStep ==
  ASSUME Inv, NEW p \in Procs, FinalizeList(p)
  PROVE  Inv' /\ Steady
<1> DEFINE graded == [q \in Questions |-> Graded(q, FirstAnswer(req[p].id, q))]
           total == Points(graded["auto"]) + Points(graded["essay"])
           review == ~IsSurvey /\ graded["essay"] # NoAnswer
           score == IF IsSurvey THEN SurveyScore ELSE total
           todo == {q \in Questions : graded[q] # NoAnswer}
           state == IF review THEN "pending_review" ELSE "complete"
           r == [req[p] EXCEPT !.pc = "fin_save", !.held = graded, !.todo = todo,
                               !.row.score = score, !.row.kept = score, !.row.state = state]
<1>1. req[p] \in Request /\ Agrees(req[p]) /\ req[p].pc = "fin_list"
  BY WorkerState DEF FinalizeList, At
<1>2. req[p].id \in Used /\ req[p].row.finishedAt \in Int
  BY <1>1 DEF Agrees, AttemptLabels
<1>3. graded \in [Questions -> Answer]
  BY <1>2, UsedIds, FirstAnswerType, GradedType
<1>4. /\ Goto(p, r)
      /\ UNCHANGED <<rows, nrows, answers, ext, gb, key, closed, now, fired>>
  BY DEF FinalizeList
<1> HIDE DEF graded
<1>5. score \in Int
  <2>1. graded["auto"] \in Answer /\ graded["essay"] \in Answer
    BY <1>3 DEF Questions
  <2>2. total \in Int
    BY SMTT(40), <2>1, GradedType
  <2>3. SurveyScore \in Int
    BY QuizAssumption DEF SurveyScore
  <2> HIDE DEF total
  <2> QED
    BY <2>2, <2>3
<1>6. todo \in SUBSET Questions /\ state \in {"pending_review", "complete"}
  OBVIOUS
<1> HIDE DEF score, todo, state
<1>7. req[p].row \in Row
  BY <1>1 DEF Request
<1>8. [req[p].row EXCEPT !.score = score, !.kept = score, !.state = state] \in Row
  BY <1>5, <1>6, <1>7 DEF Row, States
<1>9. r \in Request
  BY ZenonT(60), <1>1, <1>3, <1>6, <1>8 DEF Request, Labels
<1>10. /\ r.row.score = score /\ r.row.state = state /\ r.row.finishedAt = req[p].row.finishedAt
       /\ r.pc = "fin_save" /\ r.id = req[p].id
  BY <1>1, <1>7 DEF Request, Row
<1>11. Completed(r.row)
  BY <1>6, <1>10 DEF Completed
<1> HIDE DEF r
<1>12. Agrees(r) /\ ~Reports(r)
  BY <1>2, <1>5, <1>10, <1>11 DEF Agrees, Reports, AttemptLabels, QuestionLabels, KeptLabels, GradeLabels, RegradeLabels
<1> QED
  BY <1>4, <1>9, <1>12, LocalStep

\* After the kept score, and after the gradebook, the worker that turned the
\* attempt in goes on to its callbacks and every other one is done.
LEMMA AfterKeptAgrees ==
  ASSUME NEW r \in Request, r.pc \in KeptLabels \cup {"kept_read"},
         Reports(r) => r.id \in Used
  PROVE  /\ AfterKept(r) \in Request /\ Agrees(AfterKept(r))
         /\ Reports(AfterKept(r)) => Reports(r) /\ AfterKept(r).id = r.id
<1> DEFINE f == [r EXCEPT !.pc = "fire"]
<1>1. CASE r.op \in {"complete", "autosubmit"}
  <2>1. AfterKept(r) = f
    BY <1>1 DEF AfterKept
  <2>2. f \in Request /\ f.pc = "fire" /\ f.op = r.op /\ f.id = r.id
    BY DEF Request, Labels
  <2>3. Reports(r) /\ r.id \in Used
    BY <1>1 DEF Reports
  <2> HIDE DEF f
  <2>4. Agrees(f)
    BY <1>1, <2>2, <2>3
    DEF Agrees, AttemptLabels, QuestionLabels, KeptLabels, GradeLabels, RegradeLabels
  <2> QED
    BY <2>1, <2>2, <2>3, <2>4
<1>2. CASE r.op \notin {"complete", "autosubmit"}
  BY <1>2, IdleAgrees, NoneTypes DEF AfterKept
<1> QED
  BY <1>1, <1>2

LEMMA AfterSaveAgrees ==
  ASSUME NEW r \in Request, r.pc \in KeptLabels \cup {"kept_read"},
         Reports(r) => r.id \in Used, Copy(r.row, r.latest)
  PROVE  /\ AfterSave(r) \in Request /\ Agrees(AfterSave(r))
         /\ Reports(AfterSave(r)) => Reports(r) /\ AfterSave(r).id = r.id
<1> DEFINE f == [r EXCEPT !.pc = "gb_find"]
<1>1. CASE IsGraded
  <2>1. AfterSave(r) = f
    BY <1>1 DEF AfterSave
  <2>2. /\ f \in Request /\ f.pc = "gb_find" /\ f.op = r.op /\ f.id = r.id
        /\ f.row = r.row /\ f.latest = r.latest
    BY DEF Request, Labels
  <2> HIDE DEF f
  <2>3. Agrees(f)
    BY <2>2 DEF Agrees, AttemptLabels, QuestionLabels, KeptLabels, GradeLabels, RegradeLabels
  <2>4. Reports(f) => Reports(r)
    BY <2>2 DEF Reports
  <2> QED
    BY <2>1, <2>2, <2>3, <2>4
<1>2. CASE ~IsGraded
  BY <1>2, AfterKeptAgrees DEF AfterSave
<1> QED
  BY <1>1, <1>2

\* A worker about to report holds the id of an attempt.
LEMMA ReporterId ==
  ASSUME Inv, NEW p \in Procs, Reports(req[p])
  PROVE  req[p].id \in Done /\ req[p].id \in Used
BY DEF Inv, Reporters, Done

\* KeptRead copies the latest attempt.
LEMMA KeptReadStep ==
  ASSUME Inv, NEW p \in Procs, KeptRead(p)
  PROVE  Inv' /\ Steady
<1> DEFINE latest == Latest(Done)
           kept == KeptScore(Done)
           copy == [rows[latest] EXCEPT !.kept = kept]
           read == [req[p] EXCEPT !.latest = latest, !.row = copy]
           save == [read EXCEPT !.pc = "kept_save"]
<1>1. req[p] \in Request /\ req[p].pc = "kept_read" /\ (Reports(req[p]) => req[p].id \in Used)
  BY WorkerState, ReporterId DEF KeptRead, At
<1>2. UNCHANGED <<rows, nrows, answers, ext, gb, key, closed, now, fired>>
  BY DEF KeptRead
<1>3. CASE Done = {}
  <2>1. Goto(p, AfterKept(req[p]))
    BY <1>3 DEF KeptRead
  <2> QED
    BY <1>1, <1>2, <2>1, AfterKeptAgrees, LocalStep
<1>4. CASE Done # {}
  <2>1. Goto(p, IF rows[latest].kept = kept THEN AfterSave(read) ELSE save)
    BY <1>4 DEF KeptRead
  <2>2. latest \in Done /\ kept \in Int
    <3>1. \A i \in Done : rows[i].attempt \in Nat /\ rows[i].score \in Int
      BY UsedIds DEF Row, Inv, DoneScored, Scored
    <3> QED
      BY <1>4, <3>1, UsedIds, LatestIn, KeptScoreType
  <2>3. Copy(rows[latest], latest) /\ latest \in Ids /\ rows[latest] \in Row
    BY <2>2, CopyOfRow
  <2> HIDE DEF latest, kept
  <2>4. copy \in Row /\ Copy(copy, latest)
    BY <2>2, <2>3 DEF Row, Copy, Completed, Scored, Stamp
  <2> HIDE DEF copy
  <2>5. /\ read \in Request /\ read.pc = "kept_read" /\ read.op = req[p].op /\ read.id = req[p].id
        /\ read.row = copy /\ read.latest = latest
    BY ZenonT(60), <1>1, <2>3, <2>4, IdRange DEF Request
  <2> HIDE DEF read
  <2>6. /\ save \in Request /\ save.pc = "kept_save" /\ save.op = read.op /\ save.id = read.id
        /\ save.row = copy /\ save.latest = latest
    BY <2>5 DEF Request, Labels
  <2> HIDE DEF save
  <2>7. Reports(read) <=> Reports(req[p])
    BY <1>1, <2>5 DEF Reports
  <2>8. Agrees(save) /\ (Reports(save) => Reports(req[p]))
    BY <1>1, <2>4, <2>5, <2>6
    DEF Agrees, Reports, AttemptLabels, QuestionLabels, KeptLabels, GradeLabels, RegradeLabels
  <2>9. /\ AfterSave(read) \in Request /\ Agrees(AfterSave(read))
        /\ Reports(AfterSave(read)) => Reports(req[p]) /\ AfterSave(read).id = req[p].id
    BY <1>1, <2>4, <2>5, <2>7, AfterSaveAgrees
  <2> QED
    BY <1>2, <2>1, <2>5, <2>6, <2>8, <2>9, LocalStep
<1> QED
  BY <1>3, <1>4

\* GradebookFind copies the gradebook row.
LEMMA GradebookFindStep ==
  ASSUME Inv, NEW p \in Procs, GradebookFind(p)
  PROVE  Inv' /\ Steady
<1> DEFINE r == [req[p] EXCEPT !.pc = "gb_save", !.gb = gb]
<1>1. /\ req[p] \in Request /\ Agrees(req[p]) /\ req[p].pc = "gb_find"
      /\ (Reports(req[p]) => req[p].id \in Used)
  BY WorkerState, ReporterId DEF GradebookFind, At
<1>2. UNCHANGED <<rows, nrows, answers, ext, gb, key, closed, now, fired>>
  BY DEF GradebookFind
<1>3. CASE closed
  <2>1. Goto(p, AfterKept(req[p]))
    BY <1>3 DEF GradebookFind
  <2>2. req[p].pc \in KeptLabels \cup {"kept_read"}
    BY <1>1 DEF KeptLabels
  <2> QED
    BY <1>1, <1>2, <2>1, <2>2, AfterKeptAgrees, LocalStep
<1>4. CASE ~closed
  <2>1. Goto(p, r)
    BY <1>4 DEF GradebookFind
  <2>2. gb \in GradebookRow
    BY DEF Inv, TypeOK, TablesOK
  <2>3. r \in Request
    BY <1>1, <2>2 DEF Request, Labels
  <2>4. Copy(req[p].row, req[p].latest)
    BY <1>1 DEF Agrees, KeptLabels
  <2>5. /\ r.pc = "gb_save" /\ r.op = req[p].op /\ r.id = req[p].id
        /\ r.row = req[p].row /\ r.latest = req[p].latest
    BY <1>1 DEF Request
  <2> HIDE DEF r
  <2>6. Agrees(r) /\ (Reports(r) => Reports(req[p]))
    BY <1>1, <2>4, <2>5
    DEF Agrees, Reports, AttemptLabels, QuestionLabels, KeptLabels, GradeLabels, RegradeLabels
  <2> QED
    BY <1>2, <2>1, <2>3, <2>5, <2>6, LocalStep
<1> QED
  BY <1>3, <1>4

\* ExtensionFind copies the attempt in progress, with its new deadline.
LEMMA ExtensionFindStep ==
  ASSUME Inv, NEW p \in Procs, ExtensionFind(p)
  PROVE  Inv' /\ Steady
<1> DEFINE i == Latest(Used)
           row == [rows[i] EXCEPT !.endAt = NewEnd(req[p].inp, @)]
           r == [req[p] EXCEPT !.pc = "ext_set", !.id = i, !.row = row]
<1>1. req[p] \in Request /\ Agrees(req[p]) /\ req[p].pc = "ext_find"
  BY WorkerState DEF ExtensionFind, At
<1>2. UNCHANGED <<rows, nrows, answers, ext, gb, key, closed, now, fired>>
  BY DEF ExtensionFind
<1>3. CASE ~(nrows > 0 /\ rows[i].state = "untaken" /\ rows[i].endAt # Nil)
  BY <1>2, <1>3, FinishStep DEF ExtensionFind
<1>4. CASE nrows > 0 /\ rows[i].state = "untaken" /\ rows[i].endAt # Nil
  <2>1. i \in Used
    <3>1. nrows \in 0..MaxRows
      BY DEF Inv, TypeOK, TablesOK
    <3>2. 1 \in Used
      BY <1>4, <3>1, BoundsAssumption DEF Used
    <3>3. \A j \in Used : j \in Ids /\ rows[j].attempt \in Nat
      BY UsedIds DEF Row
    <3> QED
      BY <3>2, <3>3, LatestIn
  <2>2. i \in Ids /\ rows[i] \in Row
    BY <2>1, UsedIds
  <2>3. Goto(p, r)
    BY <1>4 DEF ExtensionFind
  <2>4. NewEnd(req[p].inp, rows[i].endAt) \in Int
    <3>1. rows[i].endAt \in Int
      BY <1>4, <2>2 DEF Row
    <3>2. now \in Nat
      BY DEF Inv, TypeOK, TablesOK
    <3>3. req[p].inp \in ExtInputs \cup {NoInput}
      BY <1>1 DEF Request
    <3>4. req[p].inp.fromNow # Nil \/ req[p].inp.fromEnd # Nil
      BY <1>1 DEF Agrees
    <3>5. /\ req[p].inp.fromNow \in Nat \cup {Nil} /\ req[p].inp.fromEnd \in Nat \cup {Nil}
      BY <3>3, ExtAssumption DEF NoInput
    <3> QED
      BY <3>1, <3>2, <3>4, <3>5 DEF NewEnd
  <2> HIDE DEF i
  <2>5. row \in Row
    BY <2>2, <2>4 DEF Row
  <2> HIDE DEF row
  <2>6. r \in Request
    BY <1>1, <2>2, <2>5, IdRange DEF Request, Labels
  <2>7. Agrees(r) /\ ~Reports(r)
    BY <1>1, <2>1 DEF Agrees, Reports, Request, AttemptLabels, QuestionLabels, KeptLabels, GradeLabels, RegradeLabels
  <2> QED
    BY <1>2, <2>3, <2>6, <2>7, LocalStep
<1> QED
  BY <1>3, <1>4

\* GradeList keeps the first answer row of each question.
LEMMA GradeListStep ==
  ASSUME Inv, NEW p \in Procs, GradeList(p)
  PROVE  Inv' /\ Steady
<1> DEFINE label == IF req[p].q = "none" THEN "grade_save" ELSE "grade_mark"
           held == [q \in Questions |-> FirstAnswer(req[p].id, q)]
           r == [req[p] EXCEPT !.pc = label, !.held = held, !.k = 1]
<1>1. req[p] \in Request /\ Agrees(req[p]) /\ req[p].pc = "grade_list"
  BY WorkerState DEF GradeList, At
<1>2. req[p].op = "grade" /\ Copy(req[p].row, req[p].id)
  BY <1>1 DEF Agrees, GradeLabels
<1>3. held \in [Questions -> Answer]
  BY <1>2, UsedIds, FirstAnswerType DEF Copy
<1>4. label \in {"grade_save", "grade_mark"} /\ (label = "grade_mark" => req[p].q \in Questions)
  BY <1>1 DEF Request
<1>5. /\ Goto(p, r)
      /\ UNCHANGED <<rows, nrows, answers, ext, gb, key, closed, now, fired>>
  BY DEF GradeList
<1> HIDE DEF held, label
<1>6. r \in Request
  BY <1>1, <1>3, <1>4 DEF Request, Labels
<1>7. /\ r.pc = label /\ r.op = req[p].op /\ r.id = req[p].id /\ r.row = req[p].row
      /\ r.q = req[p].q
  BY <1>1 DEF Request
<1> HIDE DEF r
<1>8. Agrees(r) /\ ~Reports(r)
  BY <1>2, <1>4, <1>7
  DEF Agrees, Reports, AttemptLabels, QuestionLabels, KeptLabels, GradeLabels, RegradeLabels
<1> QED
  BY <1>5, <1>6, <1>8, LocalStep

\* A regrade gives whole points.
LEMMA RepointedType ==
  ASSUME NEW q, NEW a \in Answer, NEW option, NEW k
  PROVE  Repointed(q, a, option, k) \in Int
<1>1. AutoGraded(a.text, k) \in Int
  BY QuizAssumption DEF AutoGraded
<1>2. Possible(q) \in Int
  BY QuizAssumption DEF Possible
<1>3. Points(a) \in Int
  BY GradedType
<1> QED
  BY <1>1, <1>2, <1>3 DEF Repointed

\* RegradeFind takes the next listed attempt, or goes on to the kept scores.
LEMMA RegradeFindStep ==
  ASSUME Inv, NEW p \in Procs, RegradeFind(p)
  PROVE  Inv' /\ Steady
<1> DEFINE left == {i \in Ids : req[p].list[i] # NoRow}
           i == CHOOSE i \in left : \A j \in left : i <= j
           a == FirstAnswer(i, req[p].q)
           points == Repointed(req[p].q, a, req[p].option, req[p].text)
           over == [req[p] EXCEPT !.pc = "kept_read"]
           skipped == [req[p] EXCEPT !.list[i] = NoRow]
           mark == [req[p] EXCEPT !.pc = "regrade_mark", !.id = i, !.row = req[p].list[i],
                                  !.list[i] = NoRow, !.k = 1, !.mark = points,
                                  !.held[req[p].q] = a]
<1>1. req[p] \in Request /\ Agrees(req[p]) /\ req[p].pc = "regrade_find"
  BY WorkerState DEF RegradeFind, At
<1>2. /\ req[p].op = "regrade" /\ req[p].q \in Questions
      /\ \A j \in Ids : req[p].list[j] # NoRow => Copy(req[p].list[j], j)
  BY <1>1 DEF Agrees, QuestionLabels
<1>3. UNCHANGED <<rows, nrows, answers, ext, gb, key, closed, now, fired>>
  BY DEF RegradeFind
<1>4. CASE left = {}
  <2>1. Goto(p, IF req[p].touched THEN over ELSE Idle)
    BY <1>4 DEF RegradeFind
  <2>2. over \in Request
    BY <1>1 DEF Request, Labels
  <2>3. Agrees(over) /\ ~Reports(over)
    BY <1>1, <1>2
    DEF Agrees, Reports, Request, AttemptLabels, QuestionLabels, KeptLabels, GradeLabels, RegradeLabels
  <2> QED
    BY <1>3, <2>1, <2>2, <2>3, IdleAgrees, NoneTypes, LocalStep
<1>5. CASE left # {}
  <2>1. Goto(p, skipped) \/ Goto(p, mark)
    BY <1>5 DEF RegradeFind
  <2>2. i \in Ids /\ req[p].list[i] # NoRow
    <3>1. left \in SUBSET Nat
      BY BoundsAssumption DEF Ids
    <3>2. \E n \in left : \A m \in left : n <= m
      <4> HIDE DEF left
      <4> QED
        BY <1>5, <3>1, Smallest
    <3> QED
      BY <3>2
  <2>3. a \in Answer
    BY <1>2, <2>2, FirstAnswerType
  <2>4. points \in Int
    BY <2>3, RepointedType
  <2> HIDE DEF i, a, points
  <2> DEFINE shorter == [req[p].list EXCEPT ![i] = NoRow]
  <2>5. req[p].list \in [Ids -> Row]
    BY <1>1 DEF Request
  <2>6. /\ shorter \in [Ids -> Row]
        /\ \A j \in Ids : shorter[j] # NoRow => Copy(shorter[j], j)
    BY <1>2, <2>5, NoneTypes
  <2>7. Copy(req[p].list[i], i) /\ req[p].list[i] \in Row
    BY <1>2, <2>2, <2>5
  <2>8. /\ skipped \in Request /\ skipped.pc = "regrade_find" /\ skipped.op = "regrade"
        /\ skipped.q = req[p].q /\ skipped.list = shorter
    <3>1. skipped = [req[p] EXCEPT !.list = shorter]
      BY <1>1 DEF Request
    <3> HIDE DEF shorter, skipped
    <3> QED
      BY <1>1, <1>2, <2>6, <3>1 DEF Request
  <2>9. /\ mark \in Request /\ mark.pc = "regrade_mark" /\ mark.op = "regrade"
        /\ mark.q = req[p].q /\ mark.list = shorter
        /\ mark.row = req[p].list[i] /\ mark.id = i
    BY ZenonT(60), <1>1, <1>2, <2>2, <2>3, <2>4, <2>6, <2>7, IdRange DEF Request, Labels
  <2> HIDE DEF shorter, skipped, mark
  <2>10. Agrees(skipped) /\ ~Reports(skipped)
    BY <1>2, <2>6, <2>8
    DEF Agrees, Reports, AttemptLabels, QuestionLabels, KeptLabels, GradeLabels, RegradeLabels
  <2>11. Agrees(mark) /\ ~Reports(mark)
    BY <1>2, <2>6, <2>7, <2>9
    DEF Agrees, Reports, AttemptLabels, QuestionLabels, KeptLabels, GradeLabels, RegradeLabels
  <2> QED
    BY <1>3, <2>1, <2>8, <2>9, <2>10, <2>11, LocalStep
<1> QED
  BY <1>4, <1>5

\* Rescoring changes neither the stamp of a row nor that it is turned in.
LEMMA RescoredCopy ==
  ASSUME NEW c \in Row, NEW g \in [Questions -> Answer]
  PROVE  /\ Rescored(c, g) \in Row
         /\ Completed(Rescored(c, g)) /\ Rescored(c, g).score \in Int
         /\ Stamp(Rescored(c, g)) = Stamp(c)
<1> DEFINE score == IF QuizType = "graded_survey" /\ SurveyPoints # Nil
                    THEN SurveyPoints ELSE PointsTotal(g, c.fudge)
           state == IF ~IsSurvey /\ g["essay"].via \in {"none", "auto"}
                    THEN "pending_review" ELSE "complete"
           row == [c EXCEPT !.score = score, !.state = state]
<1>1. Rescored(c, g) = row
  BY DEF Rescored
<1>2. score \in Int
  <2>1. g["auto"] \in Answer /\ g["essay"] \in Answer
    BY DEF Questions
  <2>2. Points(g["auto"]) \in Int /\ Points(g["essay"]) \in Int /\ c.fudge \in Int
    BY <2>1, GradedType DEF Row
  <2>3. PointsTotal(g, c.fudge) \in Int
    BY <2>2 DEF PointsTotal
  <2> QED
    BY <2>3, QuizAssumption
<1>3. state \in {"pending_review", "complete"}
  OBVIOUS
<1> HIDE DEF score, state
<1>4. row \in Row /\ row.state = state /\ row.score = score
  BY <1>2, <1>3 DEF Row, States
<1>5. Stamp(row) = Stamp(c)
  BY DEF Stamp, Row
<1>6. Completed(row)
  BY <1>3, <1>4 DEF Completed
<1> QED
  BY <1>1, <1>2, <1>4, <1>5, <1>6

\* A rescored copy of a turned-in attempt still is one.
LEMMA CopyRescored ==
  ASSUME NEW c \in Row, NEW i, Copy(c, i), NEW g \in [Questions -> Answer]
  PROVE  Rescored(c, g) \in Row /\ Copy(Rescored(c, g), i)
<1> DEFINE row == Rescored(c, g)
<1>1. /\ row \in Row /\ Completed(row) /\ row.score \in Int /\ Stamp(row) = Stamp(c)
  BY RescoredCopy
<1>2. row.finishedAt = c.finishedAt
  BY <1>1 DEF Stamp
<1> HIDE DEF row
<1>3. Copy(row, i)
  BY <1>1, <1>2 DEF Copy, Scored
<1> QED
  BY <1>1, <1>3 DEF row

\* RegradeList rescores the copy.
LEMMA RegradeListStep ==
  ASSUME Inv, NEW p \in Procs, RegradeList(p)
  PROVE  Inv' /\ Steady
<1> DEFINE before == [req[p].row EXCEPT !.before = IF @ = Nil THEN req[p].row.score ELSE @]
           held == [q \in Questions |-> FirstAnswer(req[p].id, q)]
           row == Rescored(before, held)
           r == [req[p] EXCEPT !.pc = "regrade_save", !.row = row]
<1>1. req[p] \in Request /\ Agrees(req[p]) /\ req[p].pc = "regrade_list"
  BY WorkerState DEF RegradeList, At
<1>2. /\ req[p].op = "regrade" /\ Copy(req[p].row, req[p].id) /\ req[p].q \in Questions
      /\ \A i \in Ids : req[p].list[i] # NoRow => Copy(req[p].list[i], i)
  BY <1>1 DEF Agrees, RegradeLabels, QuestionLabels
<1>3. before \in Row /\ Copy(before, req[p].id)
  <2>1. req[p].row \in Row
    BY <1>1 DEF Request
  <2> QED
    BY <1>2, <2>1 DEF Row, Copy, Completed, Scored, Stamp
<1>4. held \in [Questions -> Answer]
  BY <1>2, UsedIds, FirstAnswerType DEF Copy
<1>5. /\ Goto(p, r)
      /\ UNCHANGED <<rows, nrows, answers, ext, gb, key, closed, now, fired>>
  BY DEF RegradeList
<1> HIDE DEF before, held
<1>6. row \in Row /\ Copy(row, req[p].id)
  BY <1>3, <1>4, CopyRescored
<1> HIDE DEF row
<1>7. r \in Request
  BY <1>1, <1>6 DEF Request, Labels
<1>8. /\ r.pc = "regrade_save" /\ r.op = req[p].op /\ r.id = req[p].id /\ r.row = row
      /\ r.q = req[p].q /\ r.list = req[p].list
  BY <1>1 DEF Request
<1> HIDE DEF r
<1>9. Agrees(r) /\ ~Reports(r)
  BY <1>2, <1>6, <1>8
  DEF Agrees, Reports, AttemptLabels, QuestionLabels, KeptLabels, GradeLabels, RegradeLabels
<1> QED
  BY <1>5, <1>7, <1>9, LocalStep

-----------------------------------------------------------------------------
\* Statements that write

\* A statement that leaves the attempt rows alone.
LEMMA TableStep ==
  ASSUME Inv, NEW p \in Procs, NEW r \in Request, Goto(p, r),
         UNCHANGED <<rows, nrows, fired>>,
         answers' \in [Ids -> [Questions -> Seq(Answer)]],
         ext' \in Extension, gb' \in GradebookRow, key' \in Texts,
         closed' \in BOOLEAN, now' \in Nat,
         Agrees(r), Reports(r) => Reports(req[p]) /\ r.id = req[p].id
  PROVE  Inv' /\ Steady
<1>1. Used' = Used
  BY DEF Used
<1>2. Untaken' = Untaken /\ Done' = Done
  BY <1>1 DEF Untaken, Done
<1>3. Steady
  BY <1>2 DEF Steady
<1>4. TablesOK'
  BY <1>1 DEF Inv, TypeOK, TablesOK
<1>5. DoneScored'
  BY <1>2 DEF Inv, DoneScored
<1> QED
  BY <1>3, <1>4, <1>5, SteadyStep

\* A change outside the attempts that no worker's variables take part in.
LEMMA OutsideStep ==
  ASSUME Inv, UNCHANGED <<rows, nrows, answers, ext, gb, fired, req>>,
         key' \in Texts, closed' \in BOOLEAN, now' \in Nat
  PROVE  Inv' /\ Steady
<1>1. Used' = Used
  BY DEF Used
<1>2. Untaken' = Untaken /\ Done' = Done
  BY <1>1 DEF Untaken, Done
<1>3. Steady
  BY <1>2 DEF Steady
<1>4. TypeOK'
  BY <1>1 DEF Inv, TypeOK, TablesOK
<1>5. DoneScored' /\ AtMostOneUntaken' /\ CallbackState'
  BY <1>2 DEF Inv, DoneScored, AtMostOneUntaken, CallbackState
<1>6. Reporters'
  BY <1>2 DEF Inv, Reporters
<1>7. \A o \in Procs : Agrees(req[o])'
  <2>1. SUFFICES ASSUME NEW o \in Procs PROVE Agrees(req[o])'
    OBVIOUS
  <2>2. Agrees(req'[o])
    BY DEF Inv
  <2> QED
    BY <1>3, <2>2, AgreesSteady
<1> QED
  BY <1>3, <1>4, <1>5, <1>6, <1>7 DEF Inv

\* A statement that writes one attempt row: a turned-in attempt gets a copy of
\* itself, an attempt in progress stays in progress.
LEMMA RowStep ==
  ASSUME Inv, NEW p \in Procs, NEW r \in Request, Goto(p, r),
         UNCHANGED <<nrows, answers, ext, gb, key, closed, now, fired>>,
         NEW i \in Used, NEW c \in Row, rows' = [rows EXCEPT ![i] = c],
         Copy(c, i) \/ (i \in Untaken /\ c.state = "untaken"),
         Agrees(r), Reports(r) => Reports(req[p]) /\ r.id = req[p].id
  PROVE  Inv' /\ Steady
<1>1. Used' = Used /\ i \in Ids
  BY UsedIds DEF Used
<1>2. rows' \in [Ids -> Row] /\ rows'[i] = c /\ \A j \in Ids : j # i => rows'[j] = rows[j]
  BY <1>1 DEF Inv, TypeOK, TablesOK
<1>3. Completed(c) <=> Completed(rows[i])
  BY DEF Copy, Done, Untaken, Completed
<1>4. c.state = "untaken" <=> rows[i].state = "untaken"
  BY DEF Copy, Done, Untaken, Completed
<1>5. Untaken' = Untaken
  BY <1>1, <1>2, <1>4, UsedIds DEF Untaken
<1>6. Done' = Done
  <2>1. \A j \in Used : Completed(rows'[j]) <=> Completed(rows[j])
    BY <1>2, <1>3, UsedIds
  <2> QED
    BY <1>1, <2>1 DEF Done
<1>7. i \in Done => Stamp(c) = Stamp(rows[i]) /\ Scored(c)
  BY DEF Copy, Done, Untaken, Completed
<1>8. \A j \in Done : Stamp(rows'[j]) = Stamp(rows[j])
  BY <1>2, <1>7, UsedIds
<1>9. Steady
  BY <1>5, <1>6, <1>8 DEF Steady
<1>10. DoneScored'
  BY <1>2, <1>6, <1>7, UsedIds DEF Inv, DoneScored
<1>11. TablesOK'
  <2>1. c.state # "none"
    BY DEF Copy, Completed
  <2>2. \A j \in Ids : j \in Used' <=> rows'[j].state # "none"
    BY <1>1, <1>2, <2>1 DEF Inv, TypeOK, TablesOK
  <2> QED
    BY <1>2, <2>2 DEF Inv, TypeOK, TablesOK
<1> QED
  BY <1>9, <1>10, <1>11, SteadyStep

\* Replacing or appending an answer row keeps a sequence of answer rows.
LEMMA AnswersExcept ==
  ASSUME NEW f \in [Ids -> [Questions -> Seq(Answer)]], NEW a \in Answer,
         NEW i \in Ids, NEW q \in Questions, NEW k
  PROVE  /\ [f EXCEPT ![i][q] = Append(@, a)] \in [Ids -> [Questions -> Seq(Answer)]]
         /\ [f EXCEPT ![i][q][k] = a] \in [Ids -> [Questions -> Seq(Answer)]]
<1>1. f[i] \in [Questions -> Seq(Answer)] /\ f[i][q] \in Seq(Answer)
  OBVIOUS
<1> DEFINE s == f[i][q]
<1>2. Append(s, a) \in Seq(Answer)
  BY <1>1
<1>3. [s EXCEPT ![k] = a] \in Seq(Answer)
  <2>1. s \in [1..Len(s) -> Answer] /\ s \in Seq(Answer)
    BY <1>1, LenProperties
  <2> HIDE DEF s
  <2>2. CASE k \in 1..Len(s)
    BY <2>1, <2>2, ExceptSeq
  <2>3. CASE k \notin 1..Len(s)
    <3>1. [s EXCEPT ![k] = a] = s
      BY <2>1, <2>3
    <3> QED
      BY <2>1, <3>1
  <2> QED
    BY <2>2, <2>3
<1>4. \A t \in Seq(Answer) : [f EXCEPT ![i][q] = t] \in [Ids -> [Questions -> Seq(Answer)]]
  BY <1>1
<1> QED
  BY <1>2, <1>3, <1>4

\* AnswerSave writes an answer row and ends the request.
LEMMA AnswerSaveStep ==
  ASSUME Inv, NEW p \in Procs, AnswerSave(p)
  PROVE  Inv' /\ Steady
<1> DEFINE i == req[p].id
           q == req[p].q
           found == req[p].held[q]
           new == [BlankAnswer EXCEPT !.text = req[p].text]
           old == [found EXCEPT !.text = req[p].text, !.points = Nil]
<1>1. req[p] \in Request /\ Agrees(req[p]) /\ req[p].pc = "answer_save"
  BY WorkerState DEF AnswerSave, At
<1>2. i \in Ids /\ q \in Questions
  BY <1>1, UsedIds DEF Agrees, AttemptLabels, QuestionLabels
<1>3. found \in Answer /\ req[p].text \in Texts \cup {Nil}
  BY <1>1, <1>2 DEF Request
<1>4. answers' = IF found = NoAnswer THEN [answers EXCEPT ![i][q] = Append(@, new)]
                 ELSE [answers EXCEPT ![i][q][1] = old]
  BY DEF AnswerSave
<1>5. Finish(p) /\ UNCHANGED <<rows, nrows, ext, gb, key, closed, now, fired>>
  BY DEF AnswerSave
<1> HIDE DEF i, q, found
<1>6. new \in Answer /\ old \in Answer
  BY <1>3, NoneTypes DEF Answer
<1> HIDE DEF new, old
<1>7. answers \in [Ids -> [Questions -> Seq(Answer)]]
  BY DEF Inv, TypeOK, TablesOK
<1>8. answers' \in [Ids -> [Questions -> Seq(Answer)]]
  BY <1>2, <1>4, <1>6, <1>7, AnswersExcept
<1>9. ext' \in Extension /\ gb' \in GradebookRow /\ key' \in Texts /\ closed' \in BOOLEAN /\ now' \in Nat
  BY <1>5 DEF Inv, TypeOK, TablesOK
<1> QED
  BY <1>5, <1>8, <1>9, IdleAgrees, NoneTypes, TableStep DEF Finish

\* FinalizeSave writes one of the graded answer rows.
LEMMA FinalizeSaveStep ==
  ASSUME Inv, NEW p \in Procs, FinalizeSave(p)
  PROVE  Inv' /\ Steady
<1>1. req[p] \in Request /\ Agrees(req[p]) /\ req[p].pc = "fin_save"
  BY WorkerState DEF FinalizeSave, At
<1>2. req[p].id \in Used /\ req[p].row.finishedAt \in Int /\ Completed(req[p].row) /\ req[p].row.score \in Int
  BY <1>1 DEF Agrees, AttemptLabels
<1>3. PICK q \in req[p].todo :
        /\ answers' = [answers EXCEPT ![req[p].id][q][1] = req[p].held[q]]
        /\ Goto(p, [req[p] EXCEPT !.todo = @ \ {q}])
  BY DEF FinalizeSave
<1> DEFINE r == [req[p] EXCEPT !.todo = @ \ {q}]
<1>4. q \in Questions /\ req[p].held[q] \in Answer
  BY <1>1 DEF Request
<1>5. UNCHANGED <<rows, nrows, ext, gb, key, closed, now, fired>>
  BY DEF FinalizeSave
<1>6. answers' \in [Ids -> [Questions -> Seq(Answer)]]
  <2>1. answers \in [Ids -> [Questions -> Seq(Answer)]]
    BY DEF Inv, TypeOK, TablesOK
  <2> QED
    BY <1>2, <1>3, <1>4, <2>1, UsedIds, AnswersExcept
<1>7. ext' \in Extension /\ gb' \in GradebookRow /\ key' \in Texts /\ closed' \in BOOLEAN /\ now' \in Nat
  BY <1>5 DEF Inv, TypeOK, TablesOK
<1>8. r \in Request /\ r.pc = "fin_save" /\ r.id = req[p].id /\ r.row = req[p].row
  BY <1>1 DEF Request
<1>9. Goto(p, r)
  BY <1>3
<1> HIDE DEF r
<1>10. Agrees(r) /\ ~Reports(r)
  BY <1>2, <1>8
  DEF Agrees, Reports, AttemptLabels, QuestionLabels, KeptLabels, GradeLabels, RegradeLabels
<1> QED
  BY <1>5, <1>6, <1>7, <1>8, <1>9, <1>10, TableStep

\* GradeMark inserts the blank row of a skipped question, or saves the mark.
LEMMA GradeMarkStep ==
  ASSUME Inv, NEW p \in Procs, GradeMark(p)
  PROVE  Inv' /\ Steady
<1> DEFINE i == req[p].id
           q == req[p].q
           a == req[p].held[q]
           marked == IF req[p].mark = Nil THEN a ELSE [a EXCEPT !.points = req[p].mark, !.via = "manual"]
           blank == [req[p] EXCEPT !.held[q] = BlankAnswer, !.k = Len(answers[i][q]) + 1]
           done == [req[p] EXCEPT !.pc = "grade_save", !.held[q] = marked]
<1>1. req[p] \in Request /\ Agrees(req[p]) /\ req[p].pc = "grade_mark"
  BY WorkerState DEF GradeMark, At
<1>2. q \in Questions /\ req[p].op = "grade" /\ Copy(req[p].row, i)
  BY <1>1 DEF Agrees, GradeLabels, QuestionLabels
<1>3. i \in Ids
  BY <1>2, UsedIds DEF Copy
<1>4. a \in Answer /\ req[p].mark \in Int \cup {Nil}
  BY <1>1, <1>2 DEF Request
<1>5. marked \in Answer
  BY <1>4, AnswerExcept
<1>6. \/ answers' = [answers EXCEPT ![i][q] = Append(@, BlankAnswer)] /\ Goto(p, blank)
      \/ answers' = [answers EXCEPT ![i][q][req[p].k] = marked] /\ Goto(p, done)
  BY DEF GradeMark
<1>7. UNCHANGED <<rows, nrows, ext, gb, key, closed, now, fired>>
  BY DEF GradeMark
<1>8. answers \in [Ids -> [Questions -> Seq(Answer)]]
  BY DEF Inv, TypeOK, TablesOK
<1>9. Len(answers[i][q]) + 1 \in Nat
  BY <1>2, <1>3, <1>8, LenProperties
<1> HIDE DEF q, a, marked
<1>10. answers' \in [Ids -> [Questions -> Seq(Answer)]]
  <2>1. /\ [answers EXCEPT ![i][q] = Append(@, BlankAnswer)] \in [Ids -> [Questions -> Seq(Answer)]]
        /\ [answers EXCEPT ![i][q][req[p].k] = marked] \in [Ids -> [Questions -> Seq(Answer)]]
    <3> HIDE DEF i
    <3> QED
      BY <1>2, <1>3, <1>5, <1>8, NoneTypes, AnswersExcept
  <2> QED
    BY <1>6, <2>1
<1>11. ext' \in Extension /\ gb' \in GradebookRow /\ key' \in Texts /\ closed' \in BOOLEAN /\ now' \in Nat
  BY <1>7 DEF Inv, TypeOK, TablesOK
<1>12. /\ blank \in Request /\ blank.pc = "grade_mark" /\ blank.op = "grade" /\ blank.id = i
       /\ blank.row = req[p].row /\ blank.q = req[p].q
  BY <1>1, <1>2, <1>9, NoneTypes DEF Request
<1>13. /\ done \in Request /\ done.pc = "grade_save" /\ done.op = "grade" /\ done.id = i
       /\ done.row = req[p].row
  BY <1>1, <1>2, <1>5 DEF Request, Labels
<1> HIDE DEF blank, done, i
<1>14. Agrees(blank) /\ ~Reports(blank)
  BY <1>2, <1>12
  DEF Agrees, Reports, AttemptLabels, QuestionLabels, KeptLabels, GradeLabels, RegradeLabels, q
<1>15. Agrees(done) /\ ~Reports(done)
  BY <1>2, <1>13
  DEF Agrees, Reports, AttemptLabels, QuestionLabels, KeptLabels, GradeLabels, RegradeLabels
<1> QED
  BY <1>6, <1>7, <1>10, <1>11, <1>12, <1>13, <1>14, <1>15, TableStep

\* RegradeMark inserts the blank row of a skipped question, or saves the points.
LEMMA RegradeMarkStep ==
  ASSUME Inv, NEW p \in Procs, RegradeMark(p)
  PROVE  Inv' /\ Steady
<1> DEFINE i == req[p].id
           q == req[p].q
           a == req[p].held[q]
           via == IF q = "essay" \/ a.via = "manual" THEN "manual" ELSE "auto"
           marked == [a EXCEPT !.points = req[p].mark, !.via = via]
           blank == [req[p] EXCEPT !.held[q] = BlankAnswer, !.k = Len(answers[i][q]) + 1]
           done == [req[p] EXCEPT !.pc = "regrade_list"]
<1>1. req[p] \in Request /\ Agrees(req[p]) /\ req[p].pc = "regrade_mark"
  BY WorkerState DEF RegradeMark, At
<1>2. /\ q \in Questions /\ req[p].op = "regrade" /\ Copy(req[p].row, i)
      /\ \A j \in Ids : req[p].list[j] # NoRow => Copy(req[p].list[j], j)
  BY <1>1 DEF Agrees, RegradeLabels, QuestionLabels
<1>3. i \in Ids
  BY <1>2, UsedIds DEF Copy
<1>4. a \in Answer /\ req[p].mark \in Int \cup {Nil}
  BY <1>1, <1>2 DEF Request
<1>5. marked \in Answer
  <2>1. via \in {"none", "auto", "manual"}
    OBVIOUS
  <2> HIDE DEF via
  <2> QED
    BY <1>4, <2>1, AnswerExcept
<1>6. \/ answers' = [answers EXCEPT ![i][q] = Append(@, BlankAnswer)] /\ Goto(p, blank)
      \/ answers' = [answers EXCEPT ![i][q][req[p].k] = marked] /\ Goto(p, done)
  BY DEF RegradeMark
<1>7. UNCHANGED <<rows, nrows, ext, gb, key, closed, now, fired>>
  BY DEF RegradeMark
<1>8. answers \in [Ids -> [Questions -> Seq(Answer)]]
  BY DEF Inv, TypeOK, TablesOK
<1>9. Len(answers[i][q]) + 1 \in Nat
  BY <1>2, <1>3, <1>8, LenProperties
<1> HIDE DEF q, a, via, marked
<1>10. answers' \in [Ids -> [Questions -> Seq(Answer)]]
  <2>1. /\ [answers EXCEPT ![i][q] = Append(@, BlankAnswer)] \in [Ids -> [Questions -> Seq(Answer)]]
        /\ [answers EXCEPT ![i][q][req[p].k] = marked] \in [Ids -> [Questions -> Seq(Answer)]]
    <3> HIDE DEF i
    <3> QED
      BY <1>2, <1>3, <1>5, <1>8, NoneTypes, AnswersExcept
  <2> QED
    BY <1>6, <2>1
<1>11. ext' \in Extension /\ gb' \in GradebookRow /\ key' \in Texts /\ closed' \in BOOLEAN /\ now' \in Nat
  BY <1>7 DEF Inv, TypeOK, TablesOK
<1>12. /\ blank \in Request /\ blank.pc = "regrade_mark" /\ blank.op = "regrade" /\ blank.id = i
       /\ blank.row = req[p].row /\ blank.q = req[p].q /\ blank.list = req[p].list
  BY ZenonT(60), <1>1, <1>2, <1>9, NoneTypes DEF Request
<1>13. /\ done \in Request /\ done.pc = "regrade_list" /\ done.op = "regrade" /\ done.id = i
       /\ done.row = req[p].row /\ done.q = req[p].q /\ done.list = req[p].list
  BY <1>1, <1>2 DEF Request, Labels
<1> HIDE DEF blank, done, i
<1>14. Agrees(blank) /\ ~Reports(blank)
  BY <1>2, <1>12
  DEF Agrees, Reports, AttemptLabels, QuestionLabels, KeptLabels, GradeLabels, RegradeLabels, q
<1>15. Agrees(done) /\ ~Reports(done)
  BY <1>2, <1>13
  DEF Agrees, Reports, AttemptLabels, QuestionLabels, KeptLabels, GradeLabels, RegradeLabels, q
<1> QED
  BY <1>6, <1>7, <1>10, <1>11, <1>12, <1>13, <1>14, <1>15, TableStep

\* AppendReadQuestion writes a row that is still in progress, or nothing.
LEMMA AppendReadQuestionStep ==
  ASSUME Inv, NEW p \in Procs, AppendReadQuestion(p)
  PROVE  Inv' /\ Steady
<1> DEFINE i == req[p].id
           c == [rows[i] EXCEPT !.read = @ \cup {req[p].q}]
<1>1. req[p] \in Request /\ Agrees(req[p]) /\ req[p].pc = "read_append"
  BY WorkerState DEF AppendReadQuestion, At
<1>2. Finish(p) /\ UNCHANGED <<nrows, answers, ext, gb, key, closed, now, fired>>
  BY DEF AppendReadQuestion
<1>3. CASE i \in Untaken
  <2>1. i \in Used /\ rows[i] \in Row /\ rows[i].state = "untaken"
    BY <1>3, UsedIds DEF Untaken
  <2>2. rows' = [rows EXCEPT ![i] = c]
    BY <1>3 DEF AppendReadQuestion, InProgress
  <2>3. req[p].q \in Questions
    BY <1>1 DEF Agrees, QuestionLabels
  <2>4. c \in Row /\ c.state = "untaken"
    BY <2>1, <2>3 DEF Row
  <2> HIDE DEF i, c
  <2> QED
    BY <1>2, <1>3, <2>1, <2>2, <2>4, IdleAgrees, NoneTypes, RowStep DEF Finish
<1>4. CASE i \notin Untaken
  <2>1. rows' = rows
    BY <1>4 DEF AppendReadQuestion, InProgress
  <2> QED
    BY <1>2, <2>1, FinishStep
<1> QED
  BY <1>3, <1>4

\* SetEndAt moves the deadline of an attempt in progress, or writes nothing.
LEMMA SetEndAtStep ==
  ASSUME Inv, NEW p \in Procs, SetEndAt(p)
  PROVE  Inv' /\ Steady
<1> DEFINE i == req[p].id
           c == [rows[i] EXCEPT !.endAt = req[p].row.endAt]
<1>1. req[p] \in Request
  BY WorkerState
<1>2. Finish(p) /\ UNCHANGED <<nrows, answers, ext, gb, key, closed, now, fired>>
  BY DEF SetEndAt
<1>3. CASE i \in Untaken
  <2>1. i \in Used /\ rows[i] \in Row /\ rows[i].state = "untaken"
    BY <1>3, UsedIds DEF Untaken
  <2>2. rows' = [rows EXCEPT ![i] = c]
    BY <1>3 DEF SetEndAt, InProgress
  <2>3. req[p].row.endAt \in Int \cup {Nil}
    BY <1>1 DEF Request, Row
  <2>4. c \in Row /\ c.state = "untaken"
    BY <2>1, <2>3 DEF Row
  <2> HIDE DEF i, c
  <2> QED
    BY <1>2, <1>3, <2>1, <2>2, <2>4, IdleAgrees, NoneTypes, RowStep DEF Finish
<1>4. CASE i \notin Untaken
  <2>1. rows' = rows
    BY <1>4 DEF SetEndAt, InProgress
  <2> QED
    BY <1>2, <2>1, FinishStep
<1> QED
  BY <1>3, <1>4

\* ResultsSeenSave stamps the first look at an attempt, or writes nothing.
LEMMA ResultsSeenSaveStep ==
  ASSUME Inv, NEW p \in Procs, ResultsSeenSave(p)
  PROVE  Inv' /\ Steady
<1> DEFINE i == req[p].id
           c == [rows[i] EXCEPT !.seen = req[p].at]
<1>1. req[p] \in Request /\ Agrees(req[p]) /\ req[p].pc = "see_save"
  BY WorkerState DEF ResultsSeenSave, At
<1>2. Finish(p) /\ UNCHANGED <<nrows, answers, ext, gb, key, closed, now, fired>>
  BY DEF ResultsSeenSave
<1>3. i \in Used /\ req[p].at \in Nat
  BY <1>1 DEF Agrees, AttemptLabels, Request
<1>4. CASE Unseen(i)
  <2>1. i \in Ids /\ rows[i] \in Row
    BY <1>3, UsedIds
  <2>2. rows' = [rows EXCEPT ![i] = c]
    BY <1>4 DEF ResultsSeenSave
  <2>3. c \in Row /\ c.state = rows[i].state /\ c.score = rows[i].score /\ Stamp(c) = Stamp(rows[i])
    BY <1>3, <2>1 DEF Row, Stamp
  <2>4. rows[i].state \in {"untaken", "pending_review", "complete"}
    BY <1>3, <2>1 DEF Inv, TypeOK, TablesOK, Row, States
  <2>5. CASE i \in Done
    <3>1. Copy(rows[i], i)
      BY <2>5, CopyOfRow
    <3> HIDE DEF i, c
    <3>2. Copy(c, i)
      BY <2>3, <3>1 DEF Copy, Completed, Scored, Stamp
    <3> QED
      BY <1>2, <1>3, <2>2, <2>3, <3>2, IdleAgrees, NoneTypes, RowStep DEF Finish
  <2>6. CASE i \notin Done
    <3>1. i \in Untaken /\ c.state = "untaken"
      BY <1>3, <2>3, <2>4, <2>6 DEF Done, Untaken, Completed
    <3> HIDE DEF i, c
    <3> QED
      BY <1>2, <1>3, <2>2, <2>3, <3>1, IdleAgrees, NoneTypes, RowStep DEF Finish
  <2> QED
    BY <2>5, <2>6
<1>5. CASE ~Unseen(i)
  <2>1. rows' = rows
    BY <1>5 DEF ResultsSeenSave
  <2> QED
    BY <1>2, <2>1, FinishStep
<1> QED
  BY <1>4, <1>5

\* KeptSave writes its copy of the latest attempt back.
LEMMA KeptSaveStep ==
  ASSUME Inv, NEW p \in Procs, KeptSave(p)
  PROVE  Inv' /\ Steady
<1> DEFINE r == AfterSave(req[p])
<1>1. /\ req[p] \in Request /\ Agrees(req[p]) /\ req[p].pc = "kept_save"
      /\ (Reports(req[p]) => req[p].id \in Used)
  BY WorkerState, ReporterId DEF KeptSave, At
<1>2. /\ rows' = [rows EXCEPT ![req[p].latest] = req[p].row] /\ Goto(p, r)
      /\ UNCHANGED <<nrows, answers, ext, gb, key, closed, now, fired>>
  BY DEF KeptSave
<1>3. req[p].pc \in KeptLabels
  BY <1>1 DEF KeptLabels
<1>4. Copy(req[p].row, req[p].latest)
  BY <1>1, <1>3 DEF Agrees
<1>5. req[p].row \in Row /\ req[p].latest \in Used
  BY <1>1, <1>4, UsedIds DEF Request, Copy
<1>6. /\ r \in Request /\ Agrees(r)
      /\ Reports(r) => Reports(req[p]) /\ r.id = req[p].id
  BY <1>1, <1>3, <1>4, AfterSaveAgrees
<1> HIDE DEF r
<1> QED
  BY <1>2, <1>4, <1>5, <1>6, RowStep

\* LinkSave writes its copy back, linked to the gradebook row.
LEMMA LinkSaveStep ==
  ASSUME Inv, NEW p \in Procs, LinkSave(p)
  PROVE  Inv' /\ Steady
<1> DEFINE r == AfterKept(req[p])
           c == [req[p].row EXCEPT !.linked = TRUE]
<1>1. /\ req[p] \in Request /\ Agrees(req[p]) /\ req[p].pc = "link_save"
      /\ (Reports(req[p]) => req[p].id \in Used)
  BY WorkerState, ReporterId DEF LinkSave, At
<1>2. /\ rows' = [rows EXCEPT ![req[p].latest] = c] /\ Goto(p, r)
      /\ UNCHANGED <<nrows, answers, ext, gb, key, closed, now, fired>>
  BY DEF LinkSave
<1>3. req[p].pc \in KeptLabels
  BY <1>1 DEF KeptLabels
<1>4. Copy(req[p].row, req[p].latest)
  BY <1>1, <1>3 DEF Agrees
<1>5. req[p].row \in Row /\ req[p].latest \in Used
  BY <1>1, <1>4, UsedIds DEF Request, Copy
<1>6. c \in Row /\ Copy(c, req[p].latest)
  BY <1>4, <1>5 DEF Row, Copy, Completed, Scored, Stamp
<1>7. /\ r \in Request /\ Agrees(r)
      /\ Reports(r) => Reports(req[p]) /\ r.id = req[p].id
  BY <1>1, <1>3, AfterKeptAgrees
<1> HIDE DEF r, c
<1> QED
  BY <1>2, <1>5, <1>6, <1>7, RowStep

\* GradeSave writes the grader's rescored copy back.
LEMMA GradeSaveStep ==
  ASSUME Inv, NEW p \in Procs, GradeSave(p)
  PROVE  Inv' /\ Steady
<1> DEFINE row == IF req[p].fudge = Nil THEN req[p].row ELSE [req[p].row EXCEPT !.fudge = req[p].fudge]
           c == Rescored(row, req[p].held)
           r == [req[p] EXCEPT !.pc = "kept_read"]
<1>1. req[p] \in Request /\ Agrees(req[p]) /\ req[p].pc = "grade_save"
  BY WorkerState DEF GradeSave, At
<1>2. /\ rows' = [rows EXCEPT ![req[p].id] = c] /\ Goto(p, r)
      /\ UNCHANGED <<nrows, answers, ext, gb, key, closed, now, fired>>
  BY DEF GradeSave
<1>3. req[p].op = "grade" /\ Copy(req[p].row, req[p].id)
  BY <1>1 DEF Agrees, GradeLabels
<1>4. /\ req[p].row \in Row /\ req[p].id \in Used /\ req[p].fudge \in Int \cup {Nil}
      /\ req[p].held \in [Questions -> Answer]
  BY <1>1, <1>3, UsedIds DEF Request, Copy
<1>5. row \in Row /\ Copy(row, req[p].id)
  BY <1>3, <1>4 DEF Row, Copy, Completed, Scored, Stamp
<1> HIDE DEF row
<1>6. c \in Row /\ Copy(c, req[p].id)
  BY <1>4, <1>5, CopyRescored
<1> HIDE DEF c
<1>7. r \in Request /\ r.pc = "kept_read" /\ r.op = "grade"
  BY <1>1, <1>3 DEF Request, Labels
<1> HIDE DEF r
<1>8. Agrees(r) /\ ~Reports(r)
  BY <1>7 DEF Agrees, Reports, AttemptLabels, QuestionLabels, KeptLabels, GradeLabels, RegradeLabels
<1> QED
  BY <1>2, <1>4, <1>6, <1>7, <1>8, RowStep

\* RegradeSave writes the regrade's rescored copy back.
LEMMA RegradeSaveStep ==
  ASSUME Inv, NEW p \in Procs, RegradeSave(p)
  PROVE  Inv' /\ Steady
<1> DEFINE r == [req[p] EXCEPT !.pc = "regrade_find", !.touched = TRUE]
<1>1. req[p] \in Request /\ Agrees(req[p]) /\ req[p].pc = "regrade_save"
  BY WorkerState DEF RegradeSave, At
<1>2. /\ rows' = [rows EXCEPT ![req[p].id] = req[p].row] /\ Goto(p, r)
      /\ UNCHANGED <<nrows, answers, ext, gb, key, closed, now, fired>>
  BY DEF RegradeSave
<1>3. /\ req[p].op = "regrade" /\ Copy(req[p].row, req[p].id) /\ req[p].q \in Questions
      /\ \A i \in Ids : req[p].list[i] # NoRow => Copy(req[p].list[i], i)
  BY <1>1 DEF Agrees, RegradeLabels, QuestionLabels
<1>4. req[p].row \in Row /\ req[p].id \in Used
  BY <1>1, <1>3, UsedIds DEF Request, Copy
<1>5. /\ r \in Request /\ r.pc = "regrade_find" /\ r.op = "regrade"
      /\ r.q = req[p].q /\ r.list = req[p].list
  BY ZenonT(60), <1>1, <1>3 DEF Request, Labels
<1> HIDE DEF r
<1>6. Agrees(r) /\ ~Reports(r)
  BY <1>3, <1>5 DEF Agrees, Reports, AttemptLabels, QuestionLabels, KeptLabels, GradeLabels, RegradeLabels
<1> QED
  BY <1>2, <1>3, <1>4, <1>5, <1>6, RowStep

\* GradebookSave writes the pushed gradebook row, or loses the insert.
LEMMA GradebookSaveStep ==
  ASSUME Inv, NEW p \in Procs, GradebookSave(p)
  PROVE  Inv' /\ Steady
<1> DEFINE r == AfterKept(req[p])
           pushed == Pushed(req[p].gb, req[p].row)
           linking == [req[p] EXCEPT !.pc = "link_save"]
<1>1. /\ req[p] \in Request /\ Agrees(req[p]) /\ req[p].pc = "gb_save"
      /\ (Reports(req[p]) => req[p].id \in Used)
  BY WorkerState, ReporterId DEF GradebookSave, At
<1>2. /\ \/ gb' = gb /\ Goto(p, r)
         \/ gb' = pushed /\ (Goto(p, r) \/ Goto(p, linking))
      /\ UNCHANGED <<rows, nrows, answers, ext, key, closed, now, fired>>
  BY DEF GradebookSave
<1>3. req[p].pc \in KeptLabels
  BY <1>1 DEF KeptLabels
<1>4. Copy(req[p].row, req[p].latest)
  BY <1>1, <1>3 DEF Agrees
<1>5. /\ r \in Request /\ Agrees(r)
      /\ Reports(r) => Reports(req[p]) /\ r.id = req[p].id
  BY <1>1, <1>3, AfterKeptAgrees
<1>6. pushed \in GradebookRow
  <2>1. req[p].gb \in GradebookRow /\ req[p].row \in Row
    BY <1>1 DEF Request
  <2>2. /\ req[p].row.attempt \in Nat /\ req[p].row.finishedAt \in Int \cup {Nil}
        /\ req[p].row.kept \in Int \cup {Nil}
    BY <2>1 DEF Row
  <2> DEFINE pending == req[p].row.state = "pending_review"
             sent == [req[p].gb EXCEPT !.exists = TRUE, !.attempt = req[p].row.attempt,
                                       !.submittedAt = req[p].row.finishedAt]
  <2>3. pending \in BOOLEAN
    OBVIOUS
  <2> HIDE DEF pending
  <2>4. sent \in GradebookRow
    BY <2>1, <2>2 DEF GradebookRow
  <2> HIDE DEF sent
  <2>5. [sent EXCEPT !.score = req[p].row.kept, !.pending = pending] \in GradebookRow
    BY <2>2, <2>3, <2>4 DEF GradebookRow
  <2> QED
    BY <2>4, <2>5 DEF Pushed, sent, pending
<1>7. /\ linking \in Request /\ linking.pc = "link_save" /\ linking.op = req[p].op
      /\ linking.id = req[p].id /\ linking.row = req[p].row /\ linking.latest = req[p].latest
  BY <1>1 DEF Request, Labels
<1> HIDE DEF r, pushed, linking
<1>8. Agrees(linking) /\ (Reports(linking) => Reports(req[p]))
  BY <1>3, <1>4, <1>7
  DEF Agrees, Reports, AttemptLabels, QuestionLabels, KeptLabels, GradeLabels, RegradeLabels
<1>9. /\ answers' \in [Ids -> [Questions -> Seq(Answer)]] /\ ext' \in Extension
      /\ gb' \in GradebookRow /\ key' \in Texts /\ closed' \in BOOLEAN /\ now' \in Nat
  BY <1>2, <1>6 DEF Inv, TypeOK, TablesOK
<1> QED
  BY <1>2, <1>5, <1>7, <1>8, <1>9, TableStep

\* ExcusedSave writes the gradebook row, or loses the insert.
LEMMA ExcusedSaveStep ==
  ASSUME Inv, NEW p \in Procs, ExcusedSave(p)
  PROVE  Inv' /\ Steady
<1>1. req[p].gb \in GradebookRow /\ gb \in GradebookRow
  BY WorkerState DEF Request, Inv, TypeOK, TablesOK
<1>2. gb' \in GradebookRow
  BY <1>1 DEF ExcusedSave, GradebookRow
<1>3. Finish(p) /\ UNCHANGED <<rows, nrows, answers, ext, key, closed, now, fired>>
  BY DEF ExcusedSave
<1>4. /\ answers' \in [Ids -> [Questions -> Seq(Answer)]] /\ ext' \in Extension
      /\ key' \in Texts /\ closed' \in BOOLEAN /\ now' \in Nat
  BY <1>3 DEF Inv, TypeOK, TablesOK
<1> QED
  BY <1>2, <1>3, <1>4, IdleAgrees, NoneTypes, TableStep DEF Finish

\* ExtensionUpsert writes the merged settings.
LEMMA ExtensionUpsertStep ==
  ASSUME Inv, NEW p \in Procs, ExtensionUpsert(p)
  PROVE  Inv' /\ Steady
<1> DEFINE find == [req[p] EXCEPT !.pc = "ext_find"]
           over == req[p].inp.fromNow = Nil /\ req[p].inp.fromEnd = Nil
<1>1. req[p] \in Request
  BY WorkerState
<1>2. /\ ext' = req[p].ext /\ Goto(p, IF over THEN Idle ELSE find)
      /\ UNCHANGED <<rows, nrows, answers, gb, key, closed, now, fired>>
  BY DEF ExtensionUpsert
<1>3. /\ answers' \in [Ids -> [Questions -> Seq(Answer)]] /\ ext' \in Extension
      /\ gb' \in GradebookRow /\ key' \in Texts /\ closed' \in BOOLEAN /\ now' \in Nat
  BY <1>1, <1>2 DEF Inv, TypeOK, TablesOK, Request
<1>4. find \in Request /\ find.pc = "ext_find" /\ find.inp = req[p].inp
  BY <1>1 DEF Request, Labels
<1> HIDE DEF find
<1>5. ~Reports(find)
  BY <1>4 DEF Reports, KeptLabels
<1>6. ~over => Agrees(find)
  BY <1>4 DEF Agrees, AttemptLabels, QuestionLabels, KeptLabels, GradeLabels, RegradeLabels
<1> QED
  BY <1>2, <1>3, <1>4, <1>5, <1>6, IdleAgrees, NoneTypes, TableStep

\* Key edits, grading periods and the clock touch no attempt.
LEMMA OutsideSteps ==
  ASSUME Inv, \/ \E p \in Procs : SetPeriod(p) \/ \E text \in Texts : EditKey(p, text)
              \/ Tick
  PROVE  Inv' /\ Steady
<1>1. key \in Texts /\ closed \in BOOLEAN /\ now \in Nat
  BY DEF Inv, TypeOK, TablesOK
<1>2. CASE \E p \in Procs : SetPeriod(p)
  BY <1>1, <1>2, OutsideStep DEF SetPeriod
<1>3. CASE \E p \in Procs : \E text \in Texts : EditKey(p, text)
  BY <1>1, <1>3, OutsideStep DEF EditKey
<1>4. CASE Tick
  <2>1. now' \in Nat
    BY <1>1, <1>4 DEF Tick
  <2> QED
    BY <1>1, <1>4, <2>1, OutsideStep DEF Tick
<1> QED
  BY <1>2, <1>3, <1>4

\* A worker that dies leaves the tables as they are.
LEMMA CrashStep ==
  ASSUME Inv, NEW p \in Procs, Crash(p)
  PROVE  Inv' /\ Steady
BY FinishStep DEF Crash

-----------------------------------------------------------------------------
\* Statements that start, turn in and report an attempt

\* An attempt starts.
Opens ==
  /\ Untaken = {} /\ nrows + 1 \in Ids
  /\ nrows' = nrows + 1 /\ Untaken' = {nrows + 1}
  /\ Done' = Done /\ fired' = fired
  /\ \A i \in Done : Stamp(rows'[i]) = Stamp(rows[i])

\* Attempt i is turned in.
TurnsIn(i) ==
  /\ i \in Untaken /\ rows'[i].finishedAt \in Int
  /\ nrows' = nrows /\ Untaken' = Untaken \ {i}
  /\ Done' = Done \cup {i} /\ fired' = fired
  /\ \A j \in Done : Stamp(rows'[j]) = Stamp(rows[j])

\* The callbacks of attempt i are started.
Tells(i) ==
  /\ i \in Done /\ fired[i] = 0
  /\ fired' = [fired EXCEPT ![i] = 1]
  /\ UNCHANGED <<rows, nrows>>

\* What a worker's variables agree on survives a step that keeps the stamps of
\* the turned-in attempts.
LEMMA AgreesKept ==
  ASSUME Used \subseteq Used', Done \subseteq Done',
         \A i \in Done : Stamp(rows'[i]) = Stamp(rows[i]),
         NEW r, Agrees(r)
  PROVE  Agrees(r)'
<1>1. \A c, i : Copy(c, i) => Copy(c, i)'
  BY DEF Copy
<1> QED
  BY <1>1 DEF Agrees

\* StartCreate inserts the prepared row when no attempt is in progress.
LEMMA StartCreateStep ==
  ASSUME Inv, NEW p \in Procs, StartCreate(p)
  PROVE  Inv' /\ (Steady \/ Opens)
<1>1. req[p] \in Request /\ Agrees(req[p]) /\ req[p].pc = "start_create"
  BY WorkerState DEF StartCreate, At
<1>2. Finish(p) /\ UNCHANGED <<answers, ext, gb, key, closed, now, fired>>
  BY DEF StartCreate
<1>3. CASE InsertRefused
  BY <1>2, <1>3, FinishStep DEF StartCreate
<1>4. CASE ~InsertRefused
  <2> DEFINE i == nrows + 1
  <2>1. nrows' = i /\ rows' = [rows EXCEPT ![i] = req[p].row]
    BY <1>4 DEF StartCreate
  <2>2. req[p].row \in Row /\ req[p].row.state = "untaken"
    BY <1>1 DEF Request, Agrees
  <2>3. Untaken = {} /\ i \in Ids /\ i \notin Used /\ Used' = Used \cup {i} /\ nrows' \in 0..MaxRows
    <3>1. nrows \in 0..MaxRows /\ nrows # MaxRows /\ MaxRows \in Nat
      BY <1>4, BoundsAssumption DEF InsertRefused, Inv, TypeOK, TablesOK
    <3>2. i \in Ids /\ i \notin Used /\ nrows' \in 0..MaxRows
      BY <2>1, <3>1 DEF Ids, Used
    <3>3. Used' = Used \cup {i}
      BY <2>1, <3>1 DEF Used
    <3> QED
      BY <1>4, <3>2, <3>3 DEF InsertRefused
  <2> HIDE DEF i
  <2>4. /\ rows' \in [Ids -> Row] /\ rows'[i] = req[p].row
        /\ \A j \in Ids : j # i => rows'[j] = rows[j]
    BY <2>1, <2>2, <2>3 DEF Inv, TypeOK, TablesOK
  <2>5. \A j \in Used : rows'[j] = rows[j]
    BY <2>3, <2>4, UsedIds
  <2>6. Untaken' = {i} /\ Done' = Done
    BY <2>2, <2>3, <2>4, <2>5 DEF Untaken, Done, Completed
  <2>7. \A j \in Done : rows'[j] = rows[j]
    BY <2>5 DEF Done
  <2>8. Opens
    BY <1>2, <2>1, <2>3, <2>6, <2>7 DEF Opens, i
  <2>9. TypeOK'
    <3>1. \A j \in Ids : j \in Used' <=> rows'[j].state # "none"
      BY <2>2, <2>3, <2>4 DEF Inv, TypeOK, TablesOK
    <3>2. TablesOK'
      BY <1>2, <2>3, <2>4, <3>1 DEF Inv, TypeOK, TablesOK
    <3> QED
      BY <1>2, <3>2, NoneTypes, GotoTypes DEF Inv, TypeOK, Finish
  <2>10. DoneScored' /\ AtMostOneUntaken' /\ CallbackState'
    BY <1>2, <2>6, <2>7 DEF Inv, DoneScored, AtMostOneUntaken, CallbackState
  <2>11. /\ req'[p] = Idle
         /\ \A o \in Procs : o # p => req'[o] = req[o]
    BY <1>2, NoneTypes, GotoTypes DEF Inv, Finish
  <2>12. Reporters'
    BY <1>2, <2>6, <2>11, IdleAgrees DEF Inv, Reporters
  <2>13. \A o \in Procs : Agrees(req[o])'
    <3>1. SUFFICES ASSUME NEW o \in Procs PROVE Agrees(req[o])'
      OBVIOUS
    <3>2. Agrees(req'[o])
      BY <2>11, IdleAgrees DEF Inv
    <3> QED
      BY <2>3, <2>6, <2>7, <3>2, AgreesKept
  <2> QED
    BY <2>8, <2>9, <2>10, <2>12, <2>13 DEF Inv
<1> QED
  BY <1>3, <1>4

\* A job that lists its next batch.
LEMMA NextBatch ==
  ASSUME NEW w \in Request
  PROVE  LET list == [Idle EXCEPT !.pc = "job_list", !.op = w.op, !.at = w.at]
         IN  list \in Request /\ list.pc = "job_list" /\ Agrees(list) /\ ~Reports(list)
<1> DEFINE list == [Idle EXCEPT !.pc = "job_list", !.op = w.op, !.at = w.at]
<1>1. w.op \in OpNames \cup {"none"} /\ w.at \in Nat
  BY DEF Request
<1>2. "job_list" \in Labels
  BY DEF Labels
<1>3. list \in Request /\ list.pc = "job_list"
  <2> DEFINE timed == [Idle EXCEPT !.at = w.at]
             job == [timed EXCEPT !.op = w.op]
             next == [job EXCEPT !.pc = "job_list"]
  <2>1. timed \in Request
    BY <1>1, NoneTypes DEF Request
  <2>2. job \in Request
    <3> HIDE DEF timed
    <3> QED
      BY <1>1, <2>1 DEF Request
  <2>3. next \in Request /\ next.pc = "job_list"
    <3> HIDE DEF job
    <3> QED
      BY <1>2, <2>2 DEF Request
  <2>4. list = next
    BY NoneTypes DEF Request
  <2> HIDE DEF next, list
  <2> QED
    BY <2>3, <2>4
<1> HIDE DEF list
<1>4. Agrees(list) /\ ~Reports(list)
  BY <1>3 DEF Agrees, Reports, AttemptLabels, QuestionLabels, KeptLabels, GradeLabels, RegradeLabels
<1> QED
  BY <1>3, <1>4 DEF list

\* FinalizeIfInProgress turns its attempt in, unless someone else has.
LEMMA FinalizeIfInProgressStep ==
  ASSUME Inv, NEW p \in Procs, FinalizeIfInProgress(p)
  PROVE  Inv' /\ (Steady \/ \E i \in Ids : TurnsIn(i))
<1> DEFINE i == req[p].id
           c == [rows[i] EXCEPT !.finishedAt = req[p].row.finishedAt, !.score = req[p].row.score,
                                !.kept = req[p].row.kept, !.state = req[p].row.state]
           r == [req[p] EXCEPT !.pc = "kept_read"]
           list == [Idle EXCEPT !.pc = "job_list", !.op = req[p].op, !.at = req[p].at]
<1>1. req[p] \in Request /\ Agrees(req[p]) /\ req[p].pc = "fin_save"
  BY WorkerState DEF FinalizeIfInProgress, At
<1>2. /\ i \in Used /\ req[p].row.finishedAt \in Int /\ req[p].row.score \in Int
      /\ Completed(req[p].row)
  BY <1>1 DEF Agrees, AttemptLabels
<1>3. UNCHANGED <<nrows, answers, ext, gb, key, closed, now, fired>>
  BY DEF FinalizeIfInProgress
<1>4. CASE i \notin Untaken
  <2>1. UNCHANGED rows /\ (Finish(p) \/ Goto(p, list))
    BY <1>4 DEF FinalizeIfInProgress, InProgress
  <2>2. list \in Request /\ Agrees(list) /\ ~Reports(list)
    BY <1>1, NextBatch
  <2> HIDE DEF list
  <2> QED
    BY <1>3, <2>1, <2>2, FinishStep, LocalStep
<1>5. CASE i \in Untaken
  <2>1. rows' = [rows EXCEPT ![i] = c] /\ Goto(p, r)
    BY <1>5 DEF FinalizeIfInProgress, InProgress
  <2>2. i \in Ids /\ rows[i] \in Row /\ rows[i].state = "untaken"
    BY <1>5, UsedIds DEF Untaken
  <2>3. req[p].row \in Row
    BY <1>1 DEF Request
  <2>4. /\ c \in Row /\ c.state = req[p].row.state /\ c.finishedAt = req[p].row.finishedAt
        /\ c.score = req[p].row.score
    BY <2>2, <2>3 DEF Row
  <2> HIDE DEF c
  <2>5. Completed(c) /\ Scored(c) /\ c.state # "none" /\ c.state # "untaken"
    BY <1>2, <2>4 DEF Completed, Scored
  <2>6. r \in Request /\ r.pc = "kept_read" /\ r.op = req[p].op /\ r.id = i
    BY <1>1 DEF Request, Labels
  <2> HIDE DEF r, i
  <2>7. /\ rows' \in [Ids -> Row] /\ rows'[i] = c
        /\ \A j \in Ids : j # i => rows'[j] = rows[j]
    BY <2>1, <2>2, <2>4 DEF Inv, TypeOK, TablesOK
  <2>8. Used' = Used
    BY <1>3 DEF Used
  <2>9. i \notin Done
    BY <2>2 DEF Done, Completed
  <2>10. Untaken' = Untaken \ {i} /\ Done' = Done \cup {i}
    BY <1>2, <2>5, <2>7, <2>8, UsedIds DEF Untaken, Done
  <2>11. \A j \in Done : rows'[j] = rows[j]
    BY <2>7, <2>9, UsedIds
  <2>12. TurnsIn(i)
    BY <1>3, <1>5, <2>5, <2>7, <2>10, <2>11 DEF TurnsIn, Scored
  <2>13. /\ req' \in [Procs -> Request] /\ req'[p] = r
         /\ \A o \in Procs : o # p => req'[o] = req[o]
    BY <2>1, <2>6, GotoTypes DEF Inv
  <2>14. TypeOK'
    <3>1. \A j \in Ids : j \in Used' <=> rows'[j].state # "none"
      BY <1>2, <2>5, <2>7, <2>8 DEF Inv, TypeOK, TablesOK
    <3>2. TablesOK'
      BY <1>3, <2>7, <3>1 DEF Inv, TypeOK, TablesOK
    <3> QED
      BY <2>13, <3>2 DEF TypeOK
  <2>15. DoneScored'
    BY <2>5, <2>7, <2>10, <2>11 DEF Inv, DoneScored
  <2>16. AtMostOneUntaken'
    BY <2>10 DEF Inv, AtMostOneUntaken
  <2>17. CallbackState'
    BY <1>3, <2>10 DEF Inv, CallbackState
  <2>18. fired[i] = 0
    BY <2>2, <2>9 DEF Inv, TypeOK, TablesOK, CallbackState
  <2>19. Reporters'
    <3>1. \A o \in Procs : o # p /\ Reports(req'[o]) =>
            req'[o].id \in Done /\ fired'[req'[o].id] = 0 /\ req'[o].id # i
      BY <1>3, <2>9, <2>13 DEF Inv, Reporters
    <3>2. req'[p].id = i /\ i \in Done' /\ fired'[i] = 0
      BY <1>3, <2>6, <2>10, <2>13, <2>18
    <3>3. \A o, u \in Procs : o # p /\ u # p /\ o # u /\ Reports(req'[o]) /\ Reports(req'[u]) =>
            req'[o].id # req'[u].id
      BY <2>13 DEF Inv, Reporters
    <3> QED
      BY <2>10, <3>1, <3>2, <3>3 DEF Reporters
  <2>20. Agrees(r)
    BY <2>6 DEF Agrees, AttemptLabels, QuestionLabels, KeptLabels, GradeLabels, RegradeLabels
  <2>21. \A o \in Procs : Agrees(req[o])'
    <3>1. SUFFICES ASSUME NEW o \in Procs PROVE Agrees(req[o])'
      OBVIOUS
    <3>2. Agrees(req'[o])
      BY <2>13, <2>20 DEF Inv
    <3> QED
      BY <2>8, <2>10, <2>11, <3>2, AgreesKept
  <2> QED
    BY <2>2, <2>12, <2>14, <2>15, <2>16, <2>17, <2>19, <2>21 DEF Inv
<1> QED
  BY <1>4, <1>5

\* FireOnCompleted starts the callbacks of an attempt nobody reported before.
LEMMA FireOnCompletedStep ==
  ASSUME Inv, NEW p \in Procs, FireOnCompleted(p)
  PROVE  Inv' /\ \E i \in Ids : Tells(i)
<1> DEFINE i == req[p].id
           list == [Idle EXCEPT !.pc = "job_list", !.op = req[p].op, !.at = req[p].at]
           r == IF req[p].op = "autosubmit" THEN list ELSE Idle
<1>1. req[p] \in Request /\ Agrees(req[p]) /\ req[p].pc = "fire"
  BY WorkerState DEF FireOnCompleted, At
<1>2. Reports(req[p])
  BY <1>1 DEF Agrees, Reports
<1>3. i \in Done /\ fired[i] = 0
  BY <1>2 DEF Inv, Reporters
<1>4. i \in Ids
  BY <1>3, UsedIds
<1>5. /\ fired' = [fired EXCEPT ![i] = @ + 1] /\ Goto(p, r)
      /\ UNCHANGED <<rows, nrows, answers, ext, gb, key, closed, now>>
  BY DEF FireOnCompleted
<1>6. list \in Request /\ Agrees(list) /\ ~Reports(list)
  BY <1>1, NextBatch
<1> HIDE DEF list, i
<1>8. r \in Request /\ Agrees(r) /\ ~Reports(r)
  BY <1>6, IdleAgrees, NoneTypes
<1> HIDE DEF r
<1>9. /\ req' \in [Procs -> Request] /\ req'[p] = r
      /\ \A o \in Procs : o # p => req'[o] = req[o]
  BY <1>5, <1>8, GotoTypes DEF Inv
<1>10. fired \in [Ids -> Nat]
  BY DEF Inv, TypeOK, TablesOK
<1>11. fired' = [fired EXCEPT ![i] = 1] /\ fired' \in [Ids -> Nat]
  BY <1>3, <1>4, <1>5, <1>10
<1>12. Tells(i)
  BY <1>3, <1>5, <1>11 DEF Tells
<1>13. Used' = Used
  BY <1>5 DEF Used
<1>14. Untaken' = Untaken /\ Done' = Done
  BY <1>5, <1>13 DEF Untaken, Done
<1>15. TypeOK'
  BY <1>5, <1>9, <1>11, <1>13 DEF Inv, TypeOK, TablesOK
<1>16. DoneScored' /\ AtMostOneUntaken'
  BY <1>5, <1>14 DEF Inv, DoneScored, AtMostOneUntaken
<1>17. CallbackState'
  BY <1>3, <1>4, <1>10, <1>11, <1>14 DEF Inv, CallbackState
<1>18. Reporters'
  <2>1. \A o \in Procs : Reports(req'[o]) => o # p /\ req'[o] = req[o]
    BY <1>8, <1>9
  <2>2. \A o \in Procs : Reports(req'[o]) => req[o].id # i /\ req[o].id \in Done /\ fired[req[o].id] = 0
    BY <1>2, <2>1 DEF Inv, Reporters, i
  <2>3. \A o \in Procs : Reports(req'[o]) => fired'[req[o].id] = 0
    BY <1>10, <1>11, <2>2, UsedIds
  <2> QED
    BY <1>14, <2>1, <2>2, <2>3 DEF Inv, Reporters
<1>19. \A o \in Procs : Agrees(req[o])'
  <2>1. SUFFICES ASSUME NEW o \in Procs PROVE Agrees(req[o])'
    OBVIOUS
  <2>2. Agrees(req'[o])
    BY <1>8, <1>9 DEF Inv
  <2> QED
    BY <1>5, <1>13, <1>14, <2>2, AgreesKept
<1> QED
  BY <1>4, <1>12, <1>15, <1>16, <1>17, <1>18, <1>19 DEF Inv

-----------------------------------------------------------------------------
\* Every step

\* In the empty database with idle workers the invariant holds.
LEMMA InitInv == Init => Inv
<1> SUFFICES ASSUME Init PROVE Inv
  OBVIOUS
<1>1. Used = {} /\ Untaken = {} /\ Done = {}
  <2>1. Used = {}
    BY DEF Init, Used
  <2> QED
    BY <2>1 DEF Untaken, Done
<1>2. TablesOK
  <2>1. /\ rows \in [Ids -> Row] /\ \A i \in Ids : rows[i].state = "none"
    BY NoneTypes DEF Init, NoRow
  <2>2. nrows \in 0..MaxRows
    BY BoundsAssumption DEF Init
  <2>3. answers \in [Ids -> [Questions -> Seq(Answer)]]
    <3>1. <<>> \in Seq(Answer)
      OBVIOUS
    <3> QED
      BY <3>1 DEF Init
  <2>4. ext \in Extension /\ gb \in GradebookRow
    BY DEF Init, NoExtension, Extension, NoGradebookRow, GradebookRow
  <2>5. key \in Texts /\ closed \in BOOLEAN /\ now \in Nat /\ fired \in [Ids -> Nat]
    BY DEF Init
  <2> QED
    BY <1>1, <2>1, <2>2, <2>3, <2>4, <2>5 DEF TablesOK
<1>3. TypeOK
  BY <1>2, NoneTypes DEF Init, TypeOK
<1>4. DoneScored /\ AtMostOneUntaken
  BY <1>1 DEF DoneScored, AtMostOneUntaken
<1>5. CallbackState
  BY DEF Init, CallbackState
<1>6. \A p \in Procs : Agrees(req[p]) /\ ~Reports(req[p])
  BY IdleAgrees DEF Init
<1> QED
  BY <1>3, <1>4, <1>5, <1>6 DEF Inv, Reporters

\* Arriving requests change nothing the student can see.
LEMMA ArriveStep ==
  ASSUME Inv, NEW p \in Procs, Arrive(p)
  PROVE  Inv' /\ Steady
<1>1. CASE StartSubmission(p)
  BY <1>1, StartSubmissionStep
<1>2. CASE \E i \in Ids, q \in Questions, text \in Texts : AnswerQuestion(p, i, q, text)
  BY <1>2, AnswerQuestionStep
<1>3. CASE \E i \in Ids, q \in Questions : MarkQuestionRead(p, i, q)
  BY <1>3, MarkQuestionReadStep
<1>4. CASE \E i \in Ids : CompleteSubmission(p, i)
  BY <1>4, CompleteSubmissionStep
<1>5. CASE \E in \in ExtInputs : SetQuizExtension(p, in)
  BY <1>5, SetQuizExtensionStep
<1>6. CASE \E i \in Ids, q \in Questions \cup {"none"}, mark \in Marks \cup {Nil},
              fudge \in Fudges \cup {Nil} : UpdateQuizScores(p, i, q, mark, fudge)
  BY <1>6, UpdateQuizScoresStep
<1>7. CASE \E q \in Questions, option \in RegradeOptions : RegradeQuestion(p, q, option)
  BY <1>7, RegradeQuestionStep
<1>8. CASE SetPeriod(p) \/ \E text \in Texts : EditKey(p, text)
  BY <1>8, OutsideSteps
<1>9. CASE \E i \in Ids : MarkResultsSeen(p, i)
  BY <1>9, MarkResultsSeenStep
<1>10. CASE \E excused \in BOOLEAN : SetExcused(p, excused)
  BY <1>10, SetExcusedStep
<1> QED
  BY <1>1, <1>2, <1>3, <1>4, <1>5, <1>6, <1>7, <1>8, <1>9, <1>10 DEF Arrive

\* What any step shows: nothing, or one attempt starting, turned in or told.
Shows == Steady \/ Opens \/ \E i \in Ids : TurnsIn(i) \/ Tells(i)

LEMMA ContinueStep ==
  ASSUME Inv, NEW p \in Procs, Continue(p)
  PROVE  Inv' /\ Shows
<1>1. CASE StartFind(p) \/ AnswerFind(p) \/ JobList(p) \/ FinalizeList(p) \/ KeptRead(p)
  BY <1>1, StartFindStep, AnswerFindStep, JobListStep, FinalizeListStep, KeptReadStep DEF Shows
<1>2. CASE GradebookFind(p) \/ ExtensionFind(p) \/ GradeList(p) \/ RegradeFind(p) \/ RegradeList(p)
  BY <1>2, GradebookFindStep, ExtensionFindStep, GradeListStep, RegradeFindStep, RegradeListStep DEF Shows
<1>3. CASE AnswerSave(p) \/ FinalizeSave(p) \/ GradeMark(p) \/ RegradeMark(p)
  BY <1>3, AnswerSaveStep, FinalizeSaveStep, GradeMarkStep, RegradeMarkStep DEF Shows
<1>4. CASE AppendReadQuestion(p) \/ SetEndAt(p) \/ ResultsSeenSave(p) \/ GradeSave(p) \/ RegradeSave(p)
  BY <1>4, AppendReadQuestionStep, SetEndAtStep, ResultsSeenSaveStep, GradeSaveStep, RegradeSaveStep DEF Shows
<1>5. CASE KeptSave(p) \/ LinkSave(p) \/ GradebookSave(p) \/ ExcusedSave(p) \/ ExtensionUpsert(p)
  BY <1>5, KeptSaveStep, LinkSaveStep, GradebookSaveStep, ExcusedSaveStep, ExtensionUpsertStep DEF Shows
<1>6. CASE StartCreate(p)
  BY <1>6, StartCreateStep DEF Shows
<1>7. CASE FinalizeIfInProgress(p)
  BY <1>7, FinalizeIfInProgressStep DEF Shows
<1>8. CASE FireOnCompleted(p)
  BY <1>8, FireOnCompletedStep DEF Shows
<1> QED
  BY <1>1, <1>2, <1>3, <1>4, <1>5, <1>6, <1>7, <1>8 DEF Continue

\* Every step keeps the invariant and shows at most one lifecycle event.
LEMMA NextStep == Inv /\ [Next]_vars => Inv' /\ Shows
<1> SUFFICES ASSUME Inv, [Next]_vars PROVE Inv' /\ Shows
  OBVIOUS
<1>1. CASE \E p \in Procs : Arrive(p) \/ AutoSubmit(p) \/ Crash(p)
  BY <1>1, ArriveStep, AutoSubmitStep, CrashStep DEF Shows
<1>2. CASE \E p \in Procs : Continue(p)
  BY <1>2, ContinueStep
<1>3. CASE Tick
  BY <1>3, OutsideSteps DEF Shows
<1>4. CASE UNCHANGED vars
  <2>1. key' \in Texts /\ closed' \in BOOLEAN /\ now' \in Nat
    BY <1>4 DEF vars, Inv, TypeOK, TablesOK
  <2> QED
    BY <1>4, <2>1, OutsideStep DEF vars, Shows
<1> QED
  BY <1>1, <1>2, <1>3, <1>4 DEF Next

\* The invariant holds in every reachable state.
THEOREM Invariance == Spec => []Inv
<1>1. Inv /\ [Next]_vars => Inv'
  BY NextStep
<1> QED
  BY InitInv, <1>1, PTL DEF Spec

-----------------------------------------------------------------------------
\* The promises

\* Type correctness: whatever the workers' variables hold, every table and
\* every worker's copy keeps its type, and exactly the ids handed out hold a row.
THEOREM TypeCorrect == Spec => []TypeOK
<1>1. Inv => TypeOK
  BY DEF Inv
<1> QED
  BY Invariance, <1>1, PTL

\* StartSubmission never gives a student two attempts in progress, however
\* many requests race and whatever stale rows are saved meanwhile.
THEOREM OneAttemptInProgress == Spec => []AtMostOneUntaken
<1>1. Inv => AtMostOneUntaken
  BY DEF Inv
<1> QED
  BY Invariance, <1>1, PTL

\* finalizeAttempt starts the completion callbacks of an attempt at most once,
\* for any number of /complete calls and overdue jobs, and only after the
\* attempt was turned in.
THEOREM CallbacksOnce == Spec => []CallbackOnce
<1>1. Inv => CallbackOnce
  BY DEF Inv, CallbackState, CallbackOnce, Done
<1> QED
  BY Invariance, <1>1, PTL

\* No request of a student, a grader, a moderator or the scheduler reopens a
\* turned-in attempt or changes its number, its dates or its deadline.
THEOREM TurnedInStays == Spec => TurnedInIsFinal
<1> DEFINE Kept == \A i \in Done : Completed(rows'[i]) /\ Stamp(rows'[i]) = Stamp(rows[i])
<1>1. Shows => \A i \in Done : i \in Done' /\ Stamp(rows'[i]) = Stamp(rows[i])
  BY DEF Shows, Steady, Opens, TurnsIn, Tells, Done, Used
<1>2. \A i : i \in Done' => Completed(rows'[i])
  BY DEF Done
<1>3. Inv /\ [Next]_vars => [Kept]_vars
  BY NextStep, <1>1, <1>2
<1> QED
  BY Invariance, <1>3, PTL DEF Spec, TurnedInIsFinal

-----------------------------------------------------------------------------
\* The refinement of AttemptLifecycle

finishMap == [i \in Ids |-> IF i \in Done THEN rows[i].finishedAt ELSE Nil]

\* Every attempt that has started is in progress or has a finish time.
LEMMA KnownUsed == Inv => Lifecycle!Known = Used
<1> SUFFICES ASSUME Inv PROVE Lifecycle!Known = Used
  OBVIOUS
<1>1. Lifecycle!Known = Untaken \cup {i \in Ids : finishMap[i] # Nil}
  BY DEF Lifecycle!Known, Lifecycle!Ids, Ids, finishMap
<1>2. {i \in Ids : finishMap[i] # Nil} = Done
  BY UsedIds, NilAssumption DEF finishMap, Inv, DoneScored, Scored
<1>3. Used = Untaken \cup Done
  BY UsedIds DEF Inv, TypeOK, TablesOK, Row, States, Untaken, Done, Completed
<1> QED
  BY <1>1, <1>2, <1>3

\* Every step of the engine is a step of the abstract lifecycle or none.
LEMMA LifecycleStep == Inv /\ Shows => [Lifecycle!Next]_<<Untaken, finishMap, fired>>
<1> SUFFICES ASSUME Inv, Shows PROVE [Lifecycle!Next]_<<Untaken, finishMap, fired>>
  OBVIOUS
<1>1. ASSUME Done' = Done, \A i \in Done : Stamp(rows'[i]) = Stamp(rows[i])
      PROVE  finishMap' = finishMap
  <2>1. \A i \in Done : rows'[i].finishedAt = rows[i].finishedAt
    BY <1>1 DEF Stamp
  <2> QED
    BY <1>1, <2>1 DEF finishMap
<1>2. CASE Steady
  BY <1>1, <1>2 DEF Steady
<1>3. CASE Opens
  <2>1. finishMap' = finishMap
    BY <1>1, <1>3 DEF Opens
  <2>2. nrows \in Nat
    BY BoundsAssumption DEF Inv, TypeOK, TablesOK
  <2>3. nrows + 1 \notin Used /\ \A j \in 1..((nrows + 1) - 1) : j \in Used
    BY <2>2 DEF Used
  <2>4. Lifecycle!Begin(nrows + 1)
    BY <1>3, <2>1, <2>3, KnownUsed DEF Opens, Lifecycle!Begin, finishMap
  <2> QED
    BY <1>3, <2>4 DEF Opens, Lifecycle!Next, Lifecycle!Ids, Ids
<1>4. ASSUME NEW i \in Ids, TurnsIn(i)
      PROVE  Lifecycle!Next
  <2>1. \A j \in Done : rows'[j].finishedAt = rows[j].finishedAt
    BY <1>4 DEF TurnsIn, Stamp
  <2>2. finishMap'[i] = rows'[i].finishedAt /\ finishMap'[i] # Nil
    BY <1>4, NilAssumption DEF TurnsIn, finishMap
  <2>3. i \notin Done
    BY <1>4 DEF TurnsIn, Untaken, Done, Completed
  <2>4. finishMap' = [finishMap EXCEPT ![i] = finishMap'[i]]
    BY <1>4, <2>1, <2>2, <2>3 DEF TurnsIn, finishMap
  <2>5. Lifecycle!TurnIn(i)
    BY <1>4, <2>2, <2>4 DEF TurnsIn, Lifecycle!TurnIn, finishMap
  <2> QED
    BY <2>5 DEF Lifecycle!Next, Lifecycle!Ids, Ids
<1>5. ASSUME NEW i \in Ids, Tells(i)
      PROVE  Lifecycle!Next
  <2>1. Untaken' = Untaken /\ Done' = Done
    BY <1>5 DEF Tells, Untaken, Done, Used
  <2>2. finishMap' = finishMap
    BY <1>1, <1>5, <2>1 DEF Tells
  <2>3. finishMap[i] # Nil
    BY <1>5, NilAssumption DEF Tells, finishMap, Inv, DoneScored, Scored
  <2>4. Lifecycle!Report(i)
    BY <1>5, <2>1, <2>2, <2>3 DEF Tells, Lifecycle!Report, finishMap
  <2> QED
    BY <2>4 DEF Lifecycle!Next, Lifecycle!Ids, Ids
<1> QED
  BY <1>2, <1>3, <1>4, <1>5 DEF Shows

\* The engine, statement by statement and with every race and crash, keeps the
\* promise of AttemptLifecycle: attempts one after the other, each turned in
\* once for good and told about at most once.
THEOREM LifecycleImplemented == Spec => ImplementsLifecycle
<1>1. Init => Lifecycle!Init
  <2>1. ASSUME Init PROVE Untaken = {} /\ Done = {}
    <3>1. Used = {}
      BY <2>1 DEF Init, Used
    <3> QED
      BY <3>1 DEF Untaken, Done
  <2> QED
    BY <2>1 DEF Init, Lifecycle!Init, Lifecycle!Ids, Ids
<1>2. Inv /\ [Next]_vars => [Lifecycle!Next]_(Lifecycle!lifecycleVars)
  BY NextStep, LifecycleStep DEF Lifecycle!lifecycleVars, finishMap
<1> QED
  BY Invariance, <1>1, <1>2, PTL DEF Spec, ImplementsLifecycle, Lifecycle!Spec
=============================================================================
