--------------------------- MODULE QuizSerial_proofs ---------------------------
(***************************************************************************)
(* What the quiz engine keeps of requests that do not overlap: finish      *)
(* times, limits, answers, locks, excusals, scores and kept scores. Each   *)
(* theorem names the operations that must not be served side by side; all  *)
(* others may interleave with them statement by statement, for any number  *)
(* of workers and attempts.                                                *)
(***************************************************************************)
EXTENDS QuizAttempts_proofs

-----------------------------------------------------------------------------
\* While a worker serves op, no other one serves any of the others.
Apart(op, others) == \A p, o \in Procs : p # o /\ op \in Ops[p] => Ops[o] \cap others = {}
OneWorker == \A p, o \in Procs : p = o
TurnIns == {"complete", "autosubmit"}
Pushers == TurnIns \cup {"grade", "regrade"}

\* What a worker is at, it was asked for.
Tasks(r) ==
  /\ r.pc \in {"start_find", "start_create"} => r.op = "start"
  /\ r.pc \in {"answer_find", "answer_save"} => r.op = "answer"
  /\ r.pc = "read_append" => r.op = "read"
  /\ r.pc = "job_list" => r.op = "autosubmit"
  /\ r.pc \in {"fin_list", "fin_save", "fire"} => r.op \in TurnIns
  /\ r.pc \in {"ext_save", "ext_find", "ext_set"} => r.op = "extend"
  /\ r.pc \in {"grade_list", "grade_mark", "grade_save"} => r.op = "grade"
  /\ r.pc \in {"regrade_find", "regrade_mark", "regrade_list", "regrade_save"} => r.op = "regrade"
  /\ r.pc = "see_save" => r.op = "see"
  /\ r.pc = "excuse_save" => r.op = "excuse"
  /\ r.pc \in {"kept_read", "kept_save", "gb_find", "gb_save", "link_save"} => r.op \in Pushers
Serving == \A p \in Procs : req[p].pc = "idle" \/ (req[p].op \in Ops[p] /\ Tasks(req[p]))

\* FinishedInTime: deadlines are after starts, and what workers prepare is in time.
Begun(a) == a.startedAt <= now /\ (a.endAt # Nil => a.startedAt <= a.endAt)
Timed(f, a) == a.startedAt <= f /\ (a.endAt # Nil => f <= a.endAt + CompletionGrace)
Punctual(r) ==
  /\ r.pc = "start_find" => r.at <= now /\ (LockAt # Nil /\ ~r.ext.unlocked => r.at <= LockAt)
  /\ r.pc = "start_create" => Begun(r.row)
  /\ r.pc \in {"fin_list", "fin_save"} /\ r.id \in Untaken => Timed(r.row.finishedAt, rows[r.id])
  /\ r.pc = "ext_set" /\ r.id \in Untaken => r.row.endAt \in Int /\ rows[r.id].startedAt <= r.row.endAt
TimeInv == FinishedInTime /\ (\A i \in Untaken : Begun(rows[i])) /\ (\A p \in Procs : Punctual(req[p]))

\* LimitRespected: attempts are numbered in order, and prepared ones are allowed.
Numbered == \A i \in Used : rows[i].attempt = i
Permitted(r) ==
  /\ r.pc \in {"start_find", "start_create"} => r.ext = ext
  /\ r.pc = "start_create" => r.row.attempt = nrows + 1 /\ Allowed(nrows + 1, r.ext)
LimitInv == Numbered /\ \A p \in Procs : Permitted(req[p])

\* AnswersFinal and LockedAnswersKept: what graders hold is in the table, what the
\* student saves is of an attempt in progress and a question not locked.
Copied(a, i, q, k) == k \in DOMAIN answers[i][q] /\ answers[i][q][k].text = a.text
Quotes(r) ==
  /\ r.pc \in {"answer_find", "answer_save"} => r.id \in Untaken
  /\ r.pc = "fin_save" => \A q \in r.todo : Copied(r.held[q], r.id, q, 1)
  /\ r.pc \in {"grade_mark", "regrade_mark"} =>
       r.held[r.q] = NoAnswer \/ Copied(r.held[r.q], r.id, r.q, r.k)
TextInv == \A p \in Procs : Quotes(req[p])

Unlocked(r) ==
  /\ r.pc \in {"answer_find", "answer_save"} => r.q \notin rows[r.id].read
  /\ r.pc = "read_append" => CantGoBack
  /\ r.pc = "start_create" => r.row.read = {}
LockInv == (\A i \in Untaken : rows[i].read # {} => CantGoBack) /\ \A p \in Procs : Unlocked(req[p])

\* ExcusalKept: a push writes back the excusal that is in the gradebook.
ExcusalInv == \A p \in Procs : req[p].pc = "gb_save" => req[p].gb.excused = gb.excused

\* ScoreMatchesAnswers: a turned-in attempt's score is the sum of its first answers,
\* or a worker is at that attempt; the copies workers hold agree with the table.
Present == \A i \in Ids, q \in Questions : \A k \in DOMAIN answers[i][q] : answers[i][q][k].via # "absent"
Empty == \A i \in Ids \ Used : \A q \in Questions : answers[i][q] = <<>>
Firsts(i) == [q \in Questions |-> FirstAnswer(i, q)]
Sum(g) == Points(g["auto"]) + Points(g["essay"])
ScoredBy(a, g) ==
  /\ a.score = IF QuizType = "graded_survey" /\ SurveyPoints # Nil THEN SurveyPoints
               ELSE Sum(g) + a.fudge
  /\ a.state = "pending_review" <=> ~IsSurvey /\ g["essay"] # NoAnswer /\ g["essay"].via # "manual"
Marked(i) == ScoredBy(rows[i], Firsts(i))
Ungraded(i) == rows[i].fudge = 0 /\ \A q \in Questions : FirstAnswer(i, q).via # "manual"
AtAttempt(r, i) ==
  r.id = i /\ r.pc \in {"grade_mark", "grade_save", "regrade_mark", "regrade_list", "regrade_save"}
Grades(r) ==
  /\ r.pc = "start_create" => r.row.fudge = 0
  /\ r.pc \in {"answer_find", "answer_save", "fin_list", "fin_save"} => r.id \in Untaken
  /\ r.pc = "answer_save" => r.held[r.q] = FirstAnswer(r.id, r.q)
  /\ r.pc = "fin_save" =>
       /\ \A q \in Questions : IF q \in r.todo THEN answers[r.id][q] # <<>> /\ r.held[q] # NoAnswer
                                    ELSE r.held[q] = FirstAnswer(r.id, q)
       /\ \A q \in Questions : r.held[q].via # "manual" /\ (r.held[q].via = "absent" <=> r.held[q] = NoAnswer)
       /\ ScoredBy([r.row EXCEPT !.fudge = 0], r.held)
  /\ r.pc = "grade_mark" => r.held = Firsts(r.id) /\ r.k = 1
  /\ r.pc = "grade_save" => r.held = Firsts(r.id)
  /\ r.pc = "regrade_mark" => r.held[r.q] = FirstAnswer(r.id, r.q) /\ r.k = 1
  /\ r.pc = "regrade_save" => ScoredBy(r.row, Firsts(r.id))
  /\ r.pc = "kept_save" => r.latest \in Done /\ r.row = [rows[r.latest] EXCEPT !.kept = r.row.kept]
  /\ r.pc \in {"gb_find", "gb_save", "link_save"} => r.row = rows[r.latest]
ScoreInv ==
  /\ Present /\ Empty
  /\ \A i \in Untaken : Ungraded(i)
  /\ \A p \in Procs : Grades(req[p])
  /\ \A i \in Done : Marked(i) \/ \E p \in Procs : AtAttempt(req[p], i)

\* KeptScoreShown: the latest attempt's kept score is the policy's, and the gradebook
\* shows it, or a worker is on its way to refresh the one and push the other.
Shown(a, score) ==
  [exists |-> TRUE, attempt |-> a.attempt, submittedAt |-> a.finishedAt,
   score |-> score, pending |-> (a.state = "pending_review"), excused |-> FALSE]
Displayed == gb = Shown(rows[Latest(Done)], KeptScore(Done))
KeptNow == Done # {} => rows[Latest(Done)].kept = KeptScore(Done)
ShownNow == Done # {} /\ IsGraded => rows[Latest(Done)].linked /\ Displayed
Touched(r) == r.pc \in {"regrade_find", "regrade_mark", "regrade_list", "regrade_save"} /\ r.touched
Refreshing(r) == r.pc \in {"kept_read", "kept_save"} \/ Touched(r)
Pushing(r) == Refreshing(r) \/ r.pc \in {"gb_find", "gb_save", "link_save"}
Keeps(r) ==
  /\ r.pc = "kept_save" => r.latest = Latest(Done) /\ r.row = [rows[r.latest] EXCEPT !.kept = KeptScore(Done)]
  /\ r.pc \in {"gb_find", "gb_save", "link_save"} => r.latest = Latest(Done) /\ r.row = rows[r.latest]
  /\ r.pc = "gb_save" => r.gb = gb
  /\ r.pc = "link_save" => Displayed
KeptInv ==
  /\ ~closed /\ ~gb.excused
  /\ KeptNow \/ \E p \in Procs : Refreshing(req[p])
  /\ ShownNow \/ \E p \in Procs : Pushing(req[p])
  /\ \A p \in Procs : Keeps(req[p])
\* Which statement may follow which in a worker.
Edges == {
  <<"start_find", "start_create">>, <<"answer_find", "answer_save">>,
  <<"job_list", "fin_list">>, <<"fin_list", "fin_save">>, <<"fin_save", "fin_save">>,
  <<"fin_save", "kept_read">>, <<"fin_save", "job_list">>, <<"fire", "job_list">>,
  <<"kept_read", "kept_save">>, <<"kept_read", "gb_find">>, <<"kept_read", "fire">>,
  <<"kept_save", "gb_find">>, <<"kept_save", "fire">>, <<"gb_find", "gb_save">>,
  <<"gb_find", "fire">>, <<"gb_save", "link_save">>, <<"gb_save", "fire">>,
  <<"link_save", "fire">>, <<"ext_save", "ext_find">>, <<"ext_find", "ext_set">>,
  <<"grade_list", "grade_mark">>, <<"grade_list", "grade_save">>,
  <<"grade_mark", "grade_mark">>, <<"grade_mark", "grade_save">>, <<"grade_save", "kept_read">>,
  <<"regrade_find", "kept_read">>, <<"regrade_find", "regrade_find">>,
  <<"regrade_find", "regrade_mark">>, <<"regrade_mark", "regrade_mark">>,
  <<"regrade_mark", "regrade_list">>, <<"regrade_list", "regrade_save">>,
  <<"regrade_save", "regrade_find">>}
Follows(r, s) ==
  /\ s.op = r.op /\ <<r.pc, s.pc>> \in Edges
  /\ s.pc = "fire" => s.op \in TurnIns
  /\ s.pc = "job_list" => s.op = "autosubmit"

\* Where a request or a job begins.
Entries == {
  <<"start", "start_find">>, <<"answer", "answer_find">>, <<"read", "read_append">>,
  <<"complete", "fin_list">>, <<"autosubmit", "job_list">>, <<"extend", "ext_save">>,
  <<"grade", "grade_list">>, <<"regrade", "regrade_find">>, <<"see", "see_save">>,
  <<"excuse", "excuse_save">>}

\* Nobody but p moves.
Alone(p) == \A o \in Procs : o # p => req'[o] = req[o]

\* A worker's next statement is the one its label says.
LEMMA Labelled ==
  ASSUME NEW p \in Procs, Continue(p)
  PROVE  /\ req[p].pc = "start_find" => StartFind(p)
         /\ req[p].pc = "start_create" => StartCreate(p)
         /\ req[p].pc = "answer_find" => AnswerFind(p)
         /\ req[p].pc = "answer_save" => AnswerSave(p)
         /\ req[p].pc = "read_append" => AppendReadQuestion(p)
         /\ req[p].pc = "job_list" => JobList(p)
         /\ req[p].pc = "fin_list" => FinalizeList(p)
         /\ req[p].pc = "fin_save" => FinalizeSave(p) \/ FinalizeIfInProgress(p)
         /\ req[p].pc = "fire" => FireOnCompleted(p)
         /\ req[p].pc = "kept_read" => KeptRead(p)
         /\ req[p].pc = "kept_save" => KeptSave(p)
         /\ req[p].pc = "gb_find" => GradebookFind(p)
         /\ req[p].pc = "gb_save" => GradebookSave(p)
         /\ req[p].pc = "link_save" => LinkSave(p)
         /\ req[p].pc = "excuse_save" => ExcusedSave(p)
         /\ req[p].pc = "ext_save" => ExtensionUpsert(p)
         /\ req[p].pc = "ext_find" => ExtensionFind(p)
         /\ req[p].pc = "ext_set" => SetEndAt(p)
         /\ req[p].pc = "grade_list" => GradeList(p)
         /\ req[p].pc = "grade_mark" => GradeMark(p)
         /\ req[p].pc = "grade_save" => GradeSave(p)
         /\ req[p].pc = "regrade_find" => RegradeFind(p)
         /\ req[p].pc = "regrade_mark" => RegradeMark(p)
         /\ req[p].pc = "regrade_list" => RegradeList(p)
         /\ req[p].pc = "regrade_save" => RegradeSave(p)
         /\ req[p].pc = "see_save" => ResultsSeenSave(p)
<1>1. /\ StartFind(p) => req[p].pc = "start_find"
      /\ StartCreate(p) => req[p].pc = "start_create"
      /\ AnswerFind(p) => req[p].pc = "answer_find"
      /\ AnswerSave(p) => req[p].pc = "answer_save"
      /\ AppendReadQuestion(p) => req[p].pc = "read_append"
      /\ JobList(p) => req[p].pc = "job_list"
      /\ FinalizeList(p) => req[p].pc = "fin_list"
      /\ FinalizeSave(p) \/ FinalizeIfInProgress(p) => req[p].pc = "fin_save"
      /\ FireOnCompleted(p) => req[p].pc = "fire"
  BY DEF At, StartFind, StartCreate, AnswerFind, AnswerSave, AppendReadQuestion, JobList,
         FinalizeList, FinalizeSave, FinalizeIfInProgress, FireOnCompleted
<1>2. /\ KeptRead(p) => req[p].pc = "kept_read"
      /\ KeptSave(p) => req[p].pc = "kept_save"
      /\ GradebookFind(p) => req[p].pc = "gb_find"
      /\ GradebookSave(p) => req[p].pc = "gb_save"
      /\ LinkSave(p) => req[p].pc = "link_save"
      /\ ExcusedSave(p) => req[p].pc = "excuse_save"
      /\ ExtensionUpsert(p) => req[p].pc = "ext_save"
      /\ ExtensionFind(p) => req[p].pc = "ext_find"
      /\ SetEndAt(p) => req[p].pc = "ext_set"
  BY DEF At, KeptRead, KeptSave, GradebookFind, GradebookSave, LinkSave, ExcusedSave,
         ExtensionUpsert, ExtensionFind, SetEndAt
<1>3. /\ GradeList(p) => req[p].pc = "grade_list"
      /\ GradeMark(p) => req[p].pc = "grade_mark"
      /\ GradeSave(p) => req[p].pc = "grade_save"
      /\ RegradeFind(p) => req[p].pc = "regrade_find"
      /\ RegradeMark(p) => req[p].pc = "regrade_mark"
      /\ RegradeList(p) => req[p].pc = "regrade_list"
      /\ RegradeSave(p) => req[p].pc = "regrade_save"
      /\ ResultsSeenSave(p) => req[p].pc = "see_save"
  BY DEF At, GradeList, GradeMark, GradeSave, RegradeFind, RegradeMark, RegradeList,
         RegradeSave, ResultsSeenSave
<1> QED
  BY <1>1, <1>2, <1>3 DEF Continue

\* After the kept score: the callbacks, or nothing.
LEMMA Keeping ==
  ASSUME NEW r \in Request
  PROVE  LET s == AfterKept(r)
         IN  s = Idle \/ (s.op = r.op /\ s.pc = "fire" /\ s.op \in TurnIns)
BY DEF AfterKept, Request, TurnIns

\* A worker's step moves nobody else, and leads on as Edges says.
LEMMA Walks ==
  ASSUME TypeOK, NEW p \in Procs, Continue(p)
  PROVE  /\ Alone(p)
         /\ req'[p] = Idle \/ Follows(req[p], req'[p])
<1>1. req[p] \in Request /\ \A r : Goto(p, r) => Alone(p) /\ req'[p] = r
  BY DEF TypeOK, Goto, Alone
<1>2. CASE StartCreate(p)
  BY <1>1, <1>2 DEF StartCreate, At, Finish, Follows, Edges, Request, Idle, TurnIns
<1>3. CASE AnswerSave(p)
  BY <1>1, <1>3 DEF AnswerSave, At, Finish, Follows, Edges, Request, Idle, TurnIns
<1>4. CASE AppendReadQuestion(p)
  BY <1>1, <1>4 DEF AppendReadQuestion, At, Finish, Follows, Edges, Request, Idle, TurnIns
<1>5. CASE FinalizeSave(p)
  BY <1>1, <1>5 DEF FinalizeSave, At, Finish, Follows, Edges, Request, Idle, TurnIns
<1>6. CASE KeptSave(p)
  BY <1>1, <1>6 DEF KeptSave, At, Finish, Follows, Edges, Request, Idle, TurnIns, AfterKept, AfterSave
<1>7. CASE GradebookSave(p)
  BY <1>1, <1>7 DEF GradebookSave, At, Finish, Follows, Edges, Request, Idle, TurnIns, AfterKept
<1>8. CASE LinkSave(p)
  BY <1>1, <1>8 DEF LinkSave, At, Finish, Follows, Edges, Request, Idle, TurnIns, AfterKept
<1>9. CASE ExcusedSave(p)
  BY <1>1, <1>9 DEF ExcusedSave, At, Finish, Follows, Edges, Request, Idle, TurnIns
<1>10. CASE ExtensionUpsert(p)
  BY <1>1, <1>10 DEF ExtensionUpsert, At, Finish, Follows, Edges, Request, Idle, TurnIns
<1>11. CASE SetEndAt(p)
  BY <1>1, <1>11 DEF SetEndAt, At, Finish, Follows, Edges, Request, Idle, TurnIns
<1>12. CASE GradeSave(p)
  BY <1>1, <1>12 DEF GradeSave, At, Finish, Follows, Edges, Request, Idle, TurnIns
<1>13. CASE ResultsSeenSave(p)
  BY <1>1, <1>13 DEF ResultsSeenSave, At, Finish, Follows, Edges, Request, Idle, TurnIns
<1>14. CASE StartFind(p)
  <2> DEFINE next(x) == [req[p] EXCEPT !.pc = "start_create", !.row = x]
  <2>1. req[p].pc = "start_find"
    BY <1>14 DEF StartFind, At
  <2>2. \/ Finish(p)
        \/ (\E x : Goto(p, next(x)))
    BY <1>14 DEF StartFind
  <2>3. \A x : next(x).op = req[p].op /\ next(x).pc = "start_create"
    BY <1>1, <2>1 DEF Request
  <2> HIDE DEF next
  <2> QED
    BY <1>1, <2>1, <2>2, <2>3 DEF Finish, Follows, Edges
<1>15. CASE AnswerFind(p)
  <2> DEFINE next(x) == [req[p] EXCEPT !.pc = "answer_save", !.held[req[p].q] = x]
  <2>1. req[p].pc = "answer_find"
    BY <1>15 DEF AnswerFind, At
  <2>2. (\E x : Goto(p, next(x)))
    BY <1>15 DEF AnswerFind
  <2>3. \A x : next(x).op = req[p].op /\ next(x).pc = "answer_save"
    BY <1>1, <2>1 DEF Request
  <2> HIDE DEF next
  <2> QED
    BY <1>1, <2>1, <2>2, <2>3 DEF Finish, Follows, Edges
<1>16. CASE JobList(p)
  <2> DEFINE next(i, x) == [req[p] EXCEPT !.pc = "fin_list", !.id = i, !.row = x]
  <2>1. req[p].pc = "job_list"
    BY <1>16 DEF JobList, At
  <2>2. \/ Finish(p)
        \/ (\E i, x : Goto(p, next(i, x)))
    BY <1>16 DEF JobList
  <2>3. \A i, x : next(i, x).op = req[p].op /\ next(i, x).pc = "fin_list"
    BY <1>1, <2>1 DEF Request
  <2> HIDE DEF next
  <2> QED
    BY <1>1, <2>1, <2>2, <2>3 DEF Finish, Follows, Edges
<1>17. CASE FinalizeList(p)
  <2> DEFINE next(h, t, s, k, z) == [req[p] EXCEPT !.pc = "fin_save", !.held = h, !.todo = t, !.row.score = s, !.row.kept = k, !.row.state = z]
  <2>1. req[p].pc = "fin_list"
    BY <1>17 DEF FinalizeList, At
  <2>2. (\E h, t, s, k, z : Goto(p, next(h, t, s, k, z)))
    BY <1>17 DEF FinalizeList
  <2>3. \A h, t, s, k, z : next(h, t, s, k, z).op = req[p].op /\ next(h, t, s, k, z).pc = "fin_save"
    BY <1>1, <2>1 DEF Request
  <2> HIDE DEF next
  <2> QED
    BY <1>1, <2>1, <2>2, <2>3 DEF Finish, Follows, Edges
<1>18. CASE ExtensionFind(p)
  <2> DEFINE next(i, x) == [req[p] EXCEPT !.pc = "ext_set", !.id = i, !.row = x]
  <2>1. req[p].pc = "ext_find"
    BY <1>18 DEF ExtensionFind, At
  <2>2. \/ Finish(p)
        \/ (\E i, x : Goto(p, next(i, x)))
    BY <1>18 DEF ExtensionFind
  <2>3. \A i, x : next(i, x).op = req[p].op /\ next(i, x).pc = "ext_set"
    BY <1>1, <2>1 DEF Request
  <2> HIDE DEF next
  <2> QED
    BY <1>1, <2>1, <2>2, <2>3 DEF Finish, Follows, Edges
<1>19. CASE GradeList(p)
  <2> DEFINE next(h) == [req[p] EXCEPT !.pc = "grade_save", !.held = h, !.k = 1]
             other(h) == [req[p] EXCEPT !.pc = "grade_mark", !.held = h, !.k = 1]
  <2>1. req[p].pc = "grade_list"
    BY <1>19 DEF GradeList, At
  <2>2. \/ (\E h : Goto(p, next(h)))
        \/ (\E h : Goto(p, other(h)))
    BY <1>19 DEF GradeList
  <2>3. \A h : next(h).op = req[p].op /\ next(h).pc = "grade_save"
    BY <1>1, <2>1 DEF Request
  <2>4. \A h : other(h).op = req[p].op /\ other(h).pc = "grade_mark"
    BY <1>1, <2>1 DEF Request
  <2> HIDE DEF next, other
  <2> QED
    BY <1>1, <2>1, <2>2, <2>3, <2>4 DEF Finish, Follows, Edges
<1>20. CASE GradeMark(p)
  <2> DEFINE next(h, k) == [req[p] EXCEPT !.held[req[p].q] = h, !.k = k]
             other(h) == [req[p] EXCEPT !.pc = "grade_save", !.held[req[p].q] = h]
  <2>1. req[p].pc = "grade_mark"
    BY <1>20 DEF GradeMark, At
  <2>2. \/ (\E h, k : Goto(p, next(h, k)))
        \/ (\E h : Goto(p, other(h)))
    BY <1>20 DEF GradeMark
  <2>3. \A h, k : next(h, k).op = req[p].op /\ next(h, k).pc = "grade_mark"
    BY <1>1, <2>1 DEF Request
  <2>4. \A h : other(h).op = req[p].op /\ other(h).pc = "grade_save"
    BY <1>1, <2>1 DEF Request
  <2> HIDE DEF next, other
  <2> QED
    BY <1>1, <2>1, <2>2, <2>3, <2>4 DEF Finish, Follows, Edges
<1>21. CASE RegradeMark(p)
  <2> DEFINE next(h, k) == [req[p] EXCEPT !.held[req[p].q] = h, !.k = k]
             other == [req[p] EXCEPT !.pc = "regrade_list"]
  <2>1. req[p].pc = "regrade_mark"
    BY <1>21 DEF RegradeMark, At
  <2>2. \/ (\E h, k : Goto(p, next(h, k)))
        \/ Goto(p, other)
    BY <1>21 DEF RegradeMark
  <2>3. \A h, k : next(h, k).op = req[p].op /\ next(h, k).pc = "regrade_mark"
    BY <1>1, <2>1 DEF Request
  <2>4. other.op = req[p].op /\ other.pc = "regrade_list"
    BY <1>1, <2>1 DEF Request
  <2> HIDE DEF next, other
  <2> QED
    BY <1>1, <2>1, <2>2, <2>3, <2>4 DEF Finish, Follows, Edges
<1>22. CASE RegradeList(p)
  <2> DEFINE next(x) == [req[p] EXCEPT !.pc = "regrade_save", !.row = x]
  <2>1. req[p].pc = "regrade_list"
    BY <1>22 DEF RegradeList, At
  <2>2. (\E x : Goto(p, next(x)))
    BY <1>22 DEF RegradeList
  <2>3. \A x : next(x).op = req[p].op /\ next(x).pc = "regrade_save"
    BY <1>1, <2>1 DEF Request
  <2> HIDE DEF next
  <2> QED
    BY <1>1, <2>1, <2>2, <2>3 DEF Finish, Follows, Edges
<1>23. CASE RegradeSave(p)
  <2> DEFINE next == [req[p] EXCEPT !.pc = "regrade_find", !.touched = TRUE]
  <2>1. req[p].pc = "regrade_save"
    BY <1>23 DEF RegradeSave, At
  <2>2. Goto(p, next)
    BY <1>23 DEF RegradeSave
  <2>3. next.op = req[p].op /\ next.pc = "regrade_find"
    BY <1>1, <2>1 DEF Request
  <2> HIDE DEF next
  <2> QED
    BY <1>1, <2>1, <2>2, <2>3 DEF Finish, Follows, Edges
<1>24. CASE FinalizeIfInProgress(p)
  <2> DEFINE again == [Idle EXCEPT !.pc = "job_list", !.op = req[p].op, !.at = req[p].at]
  <2>1. req[p].pc = "fin_save"
    BY <1>24 DEF FinalizeIfInProgress, At
  <2>2. Finish(p) \/ (req[p].op = "autosubmit" /\ Goto(p, again)) \/ Goto(p, [req[p] EXCEPT !.pc = "kept_read"])
    BY <1>24 DEF FinalizeIfInProgress, Finish
  <2>3. again.op = req[p].op /\ again.pc = "job_list"
    BY DEF Idle
  <2>4. [req[p] EXCEPT !.pc = "kept_read"].op = req[p].op /\ [req[p] EXCEPT !.pc = "kept_read"].pc = "kept_read"
    BY <1>1 DEF Request
  <2> HIDE DEF again
  <2> QED
    BY <1>1, <2>1, <2>2, <2>3, <2>4 DEF Finish, Follows, Edges
<1>25. CASE FireOnCompleted(p)
  <2> DEFINE again == [Idle EXCEPT !.pc = "job_list", !.op = req[p].op, !.at = req[p].at]
  <2>1. req[p].pc = "fire"
    BY <1>25 DEF FireOnCompleted, At
  <2>2. Finish(p) \/ (req[p].op = "autosubmit" /\ Goto(p, again))
    BY <1>25 DEF FireOnCompleted, Finish
  <2>3. again.op = req[p].op /\ again.pc = "job_list"
    BY DEF Idle
  <2>4. [req[p] EXCEPT !.pc = "kept_read"].op = req[p].op /\ [req[p] EXCEPT !.pc = "kept_read"].pc = "kept_read"
    BY <1>1 DEF Request
  <2> HIDE DEF again
  <2> QED
    BY <1>1, <2>1, <2>2, <2>3, <2>4 DEF Finish, Follows, Edges
<1>26. CASE GradebookFind(p)
  <2> DEFINE find == [req[p] EXCEPT !.pc = "gb_save", !.gb = gb]
  <2>1. req[p].pc = "gb_find"
    BY <1>26 DEF GradebookFind, At
  <2>2. Goto(p, AfterKept(req[p])) \/ Goto(p, find)
    BY <1>26 DEF GradebookFind
  <2>3. find.op = req[p].op /\ find.pc = "gb_save"
    BY <1>1 DEF Request
  <2> HIDE DEF find
  <2> QED
    BY <1>1, <2>1, <2>2, <2>3, Keeping DEF Follows, Edges
<1>27. CASE KeptRead(p)
  <2> DEFINE read(i, x) == [req[p] EXCEPT !.latest = i, !.row = x]
             save(i, x) == [read(i, x) EXCEPT !.pc = "kept_save"]
  <2>1. req[p].pc = "kept_read"
    BY <1>27 DEF KeptRead, At
  <2>2. Goto(p, AfterKept(req[p])) \/ \E i, x : Goto(p, AfterSave(read(i, x))) \/ Goto(p, save(i, x))
    BY <1>27 DEF KeptRead
  <2>3. \A i, x : /\ read(i, x).op = req[p].op /\ read(i, x).pc = "kept_read"
                 /\ save(i, x).op = req[p].op /\ save(i, x).pc = "kept_save"
    BY <1>1, <2>1 DEF Request
  <2>4. \A i, x : LET s == AfterSave(read(i, x))
                 IN  s = Idle \/ (s.op = req[p].op /\ s.pc \in {"gb_find", "fire"} /\ (s.pc = "fire" => s.op \in TurnIns))
    <3> SUFFICES ASSUME NEW i, NEW x
                 PROVE  LET s == AfterSave(read(i, x))
                        IN  s = Idle \/ (s.op = req[p].op /\ s.pc \in {"gb_find", "fire"} /\ (s.pc = "fire" => s.op \in TurnIns))
      OBVIOUS
    <3> QED
      BY <1>1 DEF AfterSave, AfterKept, Request, TurnIns
  <2> HIDE DEF read, save
  <2> QED
    BY <1>1, <2>1, <2>2, <2>3, <2>4, Keeping DEF Follows, Edges
<1>28. CASE RegradeFind(p)
  <2> DEFINE left == {i \in Ids : req[p].list[i] # NoRow}
             i == CHOOSE i \in left : \A j \in left : i <= j
             a == FirstAnswer(i, req[p].q)
             points == Repointed(req[p].q, a, req[p].option, req[p].text)
             over == [req[p] EXCEPT !.pc = "kept_read"]
             skipped == [req[p] EXCEPT !.list[i] = NoRow]
             mark == [req[p] EXCEPT !.pc = "regrade_mark", !.id = i, !.row = req[p].list[i],
                                    !.list[i] = NoRow, !.k = 1, !.mark = points,
                                    !.held[req[p].q] = a]
  <2>1. req[p].pc = "regrade_find"
    BY <1>28 DEF RegradeFind, At
  <2>2. Goto(p, over) \/ Goto(p, Idle) \/ Goto(p, skipped) \/ Goto(p, mark)
    BY <1>28 DEF RegradeFind
  <2>3. /\ over.op = req[p].op /\ over.pc = "kept_read"
        /\ skipped.op = req[p].op /\ skipped.pc = "regrade_find"
        /\ mark.op = req[p].op /\ mark.pc = "regrade_mark"
    BY <1>1, <2>1 DEF Request
  <2> HIDE DEF over, skipped, mark
  <2> QED
    BY <1>1, <2>1, <2>2, <2>3 DEF Follows, Edges
<1> QED
  BY <1>2, <1>3, <1>4, <1>5, <1>6, <1>7, <1>8, <1>9, <1>10, <1>11, <1>12, <1>13, <1>14, <1>15, <1>16, <1>17, <1>18, <1>19, <1>20, <1>21, <1>22, <1>23, <1>24, <1>25, <1>26, <1>27, <1>28 DEF Continue

\* Which statements write which table.
LEMMA Writes ==
  ASSUME NEW p \in Procs, Continue(p)
  PROVE  /\ UNCHANGED answers \/ AnswerSave(p) \/ FinalizeSave(p) \/ GradeMark(p) \/ RegradeMark(p)
         /\ \/ UNCHANGED rows
            \/ StartCreate(p) \/ AppendReadQuestion(p) \/ FinalizeIfInProgress(p) \/ SetEndAt(p)
            \/ KeptSave(p) \/ LinkSave(p) \/ GradeSave(p) \/ RegradeSave(p) \/ ResultsSeenSave(p)
         /\ UNCHANGED nrows \/ StartCreate(p)
         /\ UNCHANGED gb \/ GradebookSave(p) \/ ExcusedSave(p)
         /\ UNCHANGED ext \/ ExtensionUpsert(p)
         /\ UNCHANGED <<key, closed, now>>
<1>1. CASE StartFind(p) \/ AnswerFind(p) \/ JobList(p) \/ FinalizeList(p) \/ KeptRead(p)
  BY <1>1 DEF StartFind, AnswerFind, JobList, FinalizeList, KeptRead
<1>2. CASE GradebookFind(p) \/ ExtensionFind(p) \/ GradeList(p) \/ RegradeFind(p) \/ RegradeList(p)
  BY <1>2 DEF GradebookFind, ExtensionFind, GradeList, RegradeFind, RegradeList
<1>3. CASE AnswerSave(p) \/ FinalizeSave(p) \/ GradeMark(p) \/ RegradeMark(p)
  BY <1>3 DEF AnswerSave, FinalizeSave, GradeMark, RegradeMark
<1>4. CASE StartCreate(p) \/ AppendReadQuestion(p) \/ FinalizeIfInProgress(p) \/ FireOnCompleted(p) \/ KeptSave(p)
  BY <1>4 DEF StartCreate, AppendReadQuestion, FinalizeIfInProgress, FireOnCompleted, KeptSave
<1>5. CASE GradebookSave(p) \/ LinkSave(p) \/ ExcusedSave(p) \/ ExtensionUpsert(p)
  BY <1>5 DEF GradebookSave, LinkSave, ExcusedSave, ExtensionUpsert
<1>6. CASE SetEndAt(p) \/ GradeSave(p) \/ RegradeSave(p) \/ ResultsSeenSave(p)
  BY <1>6 DEF SetEndAt, GradeSave, RegradeSave, ResultsSeenSave
<1> QED
  BY <1>1, <1>2, <1>3, <1>4, <1>5, <1>6 DEF Continue

\* What the variables of a request or job that just began hold.
Entered(p, r) ==
  /\ <<r.op, r.pc>> \in Entries /\ r.op \in Ops[p]
  /\ r.pc = "start_find" => r.at = now /\ r.ext = ext /\ Open(ext)
  /\ r.pc = "answer_find" => r.id \in Untaken /\ ~Locked(rows[r.id], r.q)
  /\ r.pc = "read_append" => CantGoBack
  /\ r.pc = "fin_list" => r.id \in Untaken /\ r.row = [rows[r.id] EXCEPT !.finishedAt = FinishAt(rows[r.id])]
  /\ r.pc = "regrade_find" => ~r.touched

\* A worker takes up nothing, or what Entered says.
Enters(p) == req[p] = Idle /\ Alone(p) /\ Entered(p, req'[p])

\* A request that arrives is taken up by an idle worker that serves such.
LEMMA Beginning ==
  ASSUME TypeOK, NEW p \in Procs, NEW op, NEW label, NEW r \in Request, Begin(p, op, label, r)
  PROVE  /\ req[p] = Idle /\ Alone(p) /\ op \in Ops[p]
         /\ req'[p] = [r EXCEPT !.pc = label, !.op = op]
         /\ req'[p].pc = label /\ req'[p].op = op
<1>1. req'[p] = [r EXCEPT !.pc = label, !.op = op]
  BY DEF Begin, Goto, TypeOK
<1>2. req[p] = Idle /\ Alone(p) /\ op \in Ops[p]
  BY DEF Begin, Goto, TypeOK, Alone
<1> QED
  BY <1>1, <1>2 DEF Request

\* Requests that arrive touch no table but the key and the grading period.
LEMMA Arrivals ==
  ASSUME Inv, NEW p \in Procs, Arrive(p) \/ AutoSubmit(p)
  PROVE  /\ UNCHANGED <<rows, nrows, answers, ext, gb, now, fired>>
         /\ req' = req \/ Enters(p)
         /\ closed' = closed \/ "period" \in Ops[p]
<1> USE DEF Enters
<1>0. TypeOK /\ Idle \in Request
  BY NoneTypes DEF Inv
<1>1. CASE StartSubmission(p)
  <2> DEFINE r == [Idle EXCEPT !.ext = ext, !.at = now]
  <2>1. r \in Request /\ [r EXCEPT !.pc = "start_find", !.op = "start"].ext = ext /\ [r EXCEPT !.pc = "start_find", !.op = "start"].at = now
    BY <1>0 DEF TypeOK, TablesOK, Request, Idle
  <2>2. Begin(p, "start", "start_find", r) /\ UNCHANGED <<rows, nrows, answers, ext, gb, key, closed, now, fired>> /\ Open(ext)
    BY <1>1 DEF StartSubmission
  <2>3. /\ req[p] = Idle /\ Alone(p) /\ "start" \in Ops[p] /\ req'[p].pc = "start_find" /\ req'[p].op = "start"
        /\ req'[p].ext = ext /\ req'[p].at = now
    <3> HIDE DEF r
    <3> QED
      BY <1>0, <2>1, <2>2, Beginning
  <2> QED
    BY <2>2, <2>3 DEF Entered, Entries
<1>2. ASSUME NEW i \in Ids, NEW q \in Questions, NEW text \in Texts, AnswerQuestion(p, i, q, text)
      PROVE  /\ UNCHANGED <<rows, nrows, answers, ext, gb, now, fired>> /\ closed' = closed
             /\ req[p] = Idle /\ Alone(p) /\ Entered(p, req'[p])
  <2> DEFINE r == [Idle EXCEPT !.id = i, !.q = q, !.text = text]
  <2>1. r \in Request /\ [r EXCEPT !.pc = "answer_find", !.op = "answer"].id = i /\ [r EXCEPT !.pc = "answer_find", !.op = "answer"].q = q
    BY <1>0, IdRange DEF Request, Idle
  <2>2. /\ Begin(p, "answer", "answer_find", r) /\ UNCHANGED <<rows, nrows, answers, ext, gb, key, closed, now, fired>>
        /\ i \in Untaken /\ ~Locked(rows[i], q)
    BY <1>2 DEF AnswerQuestion
  <2>3. /\ req[p] = Idle /\ Alone(p) /\ "answer" \in Ops[p] /\ req'[p].pc = "answer_find" /\ req'[p].op = "answer"
        /\ req'[p].id = i /\ req'[p].q = q
    <3> HIDE DEF r
    <3> QED
      BY <1>0, <2>1, <2>2, Beginning
  <2> QED
    BY <2>2, <2>3 DEF Entered, Entries
<1>3. ASSUME NEW i \in Ids, NEW q \in Questions, MarkQuestionRead(p, i, q)
      PROVE  /\ UNCHANGED <<rows, nrows, answers, ext, gb, now, fired>> /\ closed' = closed
             /\ req[p] = Idle /\ Alone(p) /\ Entered(p, req'[p])
  <2> DEFINE r == [Idle EXCEPT !.id = i, !.q = q]
  <2>1. r \in Request
    BY <1>0, IdRange DEF Request, Idle
  <2>2. /\ Begin(p, "read", "read_append", r) /\ UNCHANGED <<rows, nrows, answers, ext, gb, key, closed, now, fired>>
        /\ CantGoBack
    BY <1>3 DEF MarkQuestionRead
  <2>3. /\ req[p] = Idle /\ Alone(p) /\ "read" \in Ops[p] /\ req'[p].pc = "read_append" /\ req'[p].op = "read"
    <3> HIDE DEF r
    <3> QED
      BY <1>0, <2>1, <2>2, Beginning
  <2> QED
    BY <2>2, <2>3 DEF Entered, Entries
<1>4. ASSUME NEW i \in Ids, CompleteSubmission(p, i)
      PROVE  /\ UNCHANGED <<rows, nrows, answers, ext, gb, now, fired>> /\ closed' = closed
             /\ req[p] = Idle /\ Alone(p) /\ Entered(p, req'[p])
  <2> DEFINE a == [rows[i] EXCEPT !.finishedAt = FinishAt(rows[i])]
             r == [Idle EXCEPT !.id = i, !.row = a]
  <2>0. a \in Row
    <3>1. rows[i] \in Row /\ i \in Untaken /\ now \in Int
      BY <1>4 DEF Inv, TypeOK, TablesOK, CompleteSubmission
    <3>2. FinishAt(rows[i]) \in Int
      BY <3>1, QuizAssumption, NilAssumption DEF Row, FinishAt, Expired
    <3> QED
      BY <3>1, <3>2 DEF Row
  <2> HIDE DEF a
  <2>1. r \in Request /\ [r EXCEPT !.pc = "fin_list", !.op = "complete"].id = i /\ [r EXCEPT !.pc = "fin_list", !.op = "complete"].row = a
    BY <1>0, <2>0, IdRange DEF Request, Idle
  <2>2. /\ Begin(p, "complete", "fin_list", r) /\ UNCHANGED <<rows, nrows, answers, ext, gb, key, closed, now, fired>>
        /\ i \in Untaken
    BY <1>4 DEF CompleteSubmission, a
  <2>3. /\ req[p] = Idle /\ Alone(p) /\ "complete" \in Ops[p] /\ req'[p].pc = "fin_list" /\ req'[p].op = "complete"
        /\ req'[p].id = i /\ req'[p].row = a
    <3> HIDE DEF r
    <3> QED
      BY <1>0, <2>1, <2>2, Beginning
  <2> QED
    BY <2>2, <2>3 DEF Entered, Entries, a
<1>5. ASSUME NEW in \in ExtInputs, SetQuizExtension(p, in)
      PROVE  /\ UNCHANGED <<rows, nrows, answers, ext, gb, now, fired>> /\ closed' = closed
             /\ req[p] = Idle /\ Alone(p) /\ Entered(p, req'[p])
  <2>1. \E r : Begin(p, "extend", "ext_save", r)
    BY <1>5 DEF SetQuizExtension
  <2>2. req'[p].pc = "ext_save" /\ req'[p].op = "extend" /\ req[p] = Idle /\ Alone(p) /\ "extend" \in Ops[p]
    <3>1. req' \in [Procs -> Request]
      BY <1>5, SetQuizExtensionStep DEF Inv, TypeOK
    <3> QED
      BY <1>0, <2>1, <3>1 DEF Begin, Goto, TypeOK, Alone, Request
  <2> QED
    BY <1>5, <2>2 DEF Entered, Entries, SetQuizExtension
<1>6. ASSUME NEW i \in Ids, NEW q \in Questions \cup {"none"}, NEW mark \in Marks \cup {Nil},
             NEW fudge \in Fudges \cup {Nil}, UpdateQuizScores(p, i, q, mark, fudge)
      PROVE  /\ UNCHANGED <<rows, nrows, answers, ext, gb, now, fired>> /\ closed' = closed
             /\ req[p] = Idle /\ Alone(p) /\ Entered(p, req'[p])
  <2> DEFINE r == [Idle EXCEPT !.id = i, !.row = rows[i], !.q = q, !.mark = mark, !.fudge = fudge]
  <2>1. r \in Request
    <3>1. rows[i] \in Row /\ mark \in Int \cup {Nil} /\ fudge \in Int \cup {Nil}
      BY QuizAssumption DEF Inv, TypeOK, TablesOK
    <3> QED
      BY <1>0, <3>1, IdRange DEF Request, Idle
  <2>2. Begin(p, "grade", "grade_list", r) /\ UNCHANGED <<rows, nrows, answers, ext, gb, key, closed, now, fired>>
    BY <1>6 DEF UpdateQuizScores
  <2>3. /\ req[p] = Idle /\ Alone(p) /\ "grade" \in Ops[p] /\ req'[p].pc = "grade_list" /\ req'[p].op = "grade"
    <3> HIDE DEF r
    <3> QED
      BY <1>0, <2>1, <2>2, Beginning
  <2> QED
    BY <2>2, <2>3 DEF Entered, Entries
<1>7. ASSUME NEW q \in Questions, NEW option \in RegradeOptions, RegradeQuestion(p, q, option)
      PROVE  /\ UNCHANGED <<rows, nrows, answers, ext, gb, now, fired>> /\ closed' = closed
             /\ req[p] = Idle /\ Alone(p) /\ Entered(p, req'[p])
  <2> DEFINE listed == [i \in Ids |-> IF i \in Done THEN rows[i] ELSE NoRow]
             r == [Idle EXCEPT !.q = q, !.option = option, !.text = key, !.list = listed]
  <2>0. listed \in [Ids -> Row]
    BY NoneTypes DEF Inv, TypeOK, TablesOK
  <2>1. r \in Request /\ ~[r EXCEPT !.pc = "regrade_find", !.op = "regrade"].touched
    <3> HIDE DEF listed
    <3> QED
      BY <1>0, <2>0 DEF TypeOK, TablesOK, Request, Idle
  <2>2. Begin(p, "regrade", "regrade_find", r) /\ UNCHANGED <<rows, nrows, answers, ext, gb, key, closed, now, fired>>
    BY <1>7 DEF RegradeQuestion
  <2>3. /\ req[p] = Idle /\ Alone(p) /\ "regrade" \in Ops[p] /\ req'[p].pc = "regrade_find" /\ req'[p].op = "regrade"
        /\ ~req'[p].touched
    <3> HIDE DEF r
    <3> QED
      BY <1>0, <2>1, <2>2, Beginning
  <2> QED
    BY <2>2, <2>3 DEF Entered, Entries
<1>8. ASSUME NEW i \in Ids, MarkResultsSeen(p, i)
      PROVE  /\ UNCHANGED <<rows, nrows, answers, ext, gb, now, fired>> /\ closed' = closed
             /\ req[p] = Idle /\ Alone(p) /\ Entered(p, req'[p])
  <2> DEFINE r == [Idle EXCEPT !.id = i, !.at = now]
  <2>1. r \in Request
    BY <1>0, IdRange DEF TypeOK, TablesOK, Request, Idle
  <2>2. Begin(p, "see", "see_save", r) /\ UNCHANGED <<rows, nrows, answers, ext, gb, key, closed, now, fired>>
    BY <1>8 DEF MarkResultsSeen
  <2>3. /\ req[p] = Idle /\ Alone(p) /\ "see" \in Ops[p] /\ req'[p].pc = "see_save" /\ req'[p].op = "see"
    <3> HIDE DEF r
    <3> QED
      BY <1>0, <2>1, <2>2, Beginning
  <2> QED
    BY <2>2, <2>3 DEF Entered, Entries
<1>9. ASSUME NEW excused \in BOOLEAN, SetExcused(p, excused)
      PROVE  /\ UNCHANGED <<rows, nrows, answers, ext, gb, now, fired>> /\ closed' = closed
             /\ req[p] = Idle /\ Alone(p) /\ Entered(p, req'[p])
  <2>1. \E r : Begin(p, "excuse", "excuse_save", r)
    BY <1>9 DEF SetExcused
  <2>2. req'[p].pc = "excuse_save" /\ req'[p].op = "excuse" /\ req[p] = Idle /\ Alone(p) /\ "excuse" \in Ops[p]
    <3>1. req' \in [Procs -> Request]
      BY <1>9, SetExcusedStep DEF Inv, TypeOK
    <3> QED
      BY <1>0, <2>1, <3>1 DEF Begin, Goto, TypeOK, Alone, Request
  <2> QED
    BY <1>9, <2>2 DEF Entered, Entries, SetExcused
<1>10. CASE SetPeriod(p) \/ \E text \in Texts : EditKey(p, text)
  BY <1>10 DEF SetPeriod, EditKey
<1>11. CASE AutoSubmit(p)
  <2> DEFINE r == [Idle EXCEPT !.at = now]
  <2>1. r \in Request
    BY <1>0 DEF TypeOK, TablesOK, Request, Idle
  <2>2. Begin(p, "autosubmit", "job_list", r) /\ UNCHANGED <<rows, nrows, answers, ext, gb, key, closed, now, fired>>
    BY <1>11 DEF AutoSubmit
  <2>3. /\ req[p] = Idle /\ Alone(p) /\ "autosubmit" \in Ops[p] /\ req'[p].pc = "job_list" /\ req'[p].op = "autosubmit"
    <3> HIDE DEF r
    <3> QED
      BY <1>0, <2>1, <2>2, Beginning
  <2> QED
    BY <2>2, <2>3 DEF Entered, Entries
<1> QED
  BY <1>1, <1>2, <1>3, <1>4, <1>5, <1>6, <1>7, <1>8, <1>9, <1>10, <1>11 DEF Arrive

\* What any other step than a worker's next statement does.
Outside ==
  /\ UNCHANGED <<rows, nrows, answers, ext, gb, fired>>
  /\ closed' = closed \/ \E p \in Procs : "period" \in Ops[p]
  /\ now' \in {now, now + 1}
  /\ \/ req' = req
     \/ now' = now /\ \E p \in Procs : Enters(p) \/ (Crashes /\ Alone(p) /\ req'[p] = Idle)

\* A step is one worker's statement, or something from outside.
LEMMA AnyStep ==
  ASSUME Inv, [Next]_vars
  PROVE  Outside \/ \E p \in Procs : Continue(p)
<1>1. ASSUME NEW p \in Procs, Arrive(p) \/ AutoSubmit(p)
      PROVE  Outside
  BY <1>1, Arrivals DEF Outside
<1>2. ASSUME NEW p \in Procs, Crash(p)
      PROVE  Outside
  BY <1>2 DEF Outside, Crash, Finish, Goto, Alone, Inv, TypeOK
<1>3. CASE Tick
  BY <1>3 DEF Outside, Tick
<1>4. CASE UNCHANGED vars
  BY <1>4 DEF Outside, vars
<1> QED
  BY <1>1, <1>2, <1>3, <1>4 DEF Next

\* Workers are at what they were asked for.
LEMMA ServingStep ==
  ASSUME Inv, Serving, [Next]_vars
  PROVE  Serving'
<1> SUFFICES ASSUME NEW o \in Procs
             PROVE  req'[o].pc = "idle" \/ (req'[o].op \in Ops[o] /\ Tasks(req'[o]))
  BY DEF Serving, Tasks
<1>0. req[o].pc = "idle" \/ (req[o].op \in Ops[o] /\ Tasks(req[o]))
  BY DEF Serving
<1>1. Idle.pc = "idle"
  BY DEF Idle
<1>2. CASE Outside
  <2>1. CASE Entered(o, req'[o])
    BY <2>1 DEF Entered, Entries, Tasks, TurnIns, Pushers
  <2> QED
    BY <1>0, <1>1, <1>2, <2>1 DEF Outside, Enters, Alone
<1>3. ASSUME NEW p \in Procs, Continue(p)
      PROVE  req'[o].pc = "idle" \/ (req'[o].op \in Ops[o] /\ Tasks(req'[o]))
  <2>1. Alone(p) /\ (req'[p] = Idle \/ Follows(req[p], req'[p]))
    BY <1>3, Walks DEF Inv
  <2>2. CASE o # p
    BY <1>0, <2>1, <2>2 DEF Alone
  <2>3. CASE o = p /\ Follows(req[o], req'[o])
    BY <1>0, <2>3 DEF Follows, Edges, Tasks, TurnIns, Pushers
  <2> QED
    BY <1>1, <2>1, <2>2, <2>3
<1> QED
  BY <1>2, <1>3, AnyStep

-----------------------------------------------------------------------------
\* What a statement does to an attempt

\* Saving a copy of a turned-in attempt changes no stamp and no attempt in
\* progress.
LEMMA CopyWritten ==
  ASSUME Inv, NEW i \in Used, NEW j, NEW c, Copy(c, j), rows' = [rows EXCEPT ![j] = c]
  PROVE  Stamp(rows'[i]) = Stamp(rows[i]) /\ (i \in Untaken => rows'[i] = rows[i])
<1>1. i \in Ids /\ DOMAIN rows = Ids
  BY UsedIds DEF Inv, TypeOK, TablesOK
<1>2. i \in Untaken => i # j
  BY DEF Copy, Untaken, Done, Completed
<1> QED
  BY <1>1, <1>2 DEF Copy

\* The copies the full-row saves write are of turned-in attempts.
LEMMA FullRowSaves ==
  ASSUME Inv, NEW p \in Procs,
         KeptSave(p) \/ LinkSave(p) \/ GradeSave(p) \/ RegradeSave(p)
  PROVE  \E j, c : Copy(c, j) /\ rows' = [rows EXCEPT ![j] = c]
<1>1. req[p] \in Request /\ Agrees(req[p])
  BY WorkerState
<1>2. CASE KeptSave(p)
  BY <1>1, <1>2 DEF KeptSave, At, Agrees, KeptLabels
<1>3. CASE LinkSave(p)
  <2>1. Copy(req[p].row, req[p].latest) /\ req[p].row \in Row
    BY <1>1, <1>3 DEF LinkSave, At, Agrees, KeptLabels, Request
  <2>2. Copy([req[p].row EXCEPT !.linked = TRUE], req[p].latest)
    BY <2>1 DEF Row, Copy, Completed, Scored, Stamp
  <2> QED
    BY <1>3, <2>2 DEF LinkSave
<1>4. CASE GradeSave(p)
  <2> DEFINE row == IF req[p].fudge = Nil THEN req[p].row ELSE [req[p].row EXCEPT !.fudge = req[p].fudge]
  <2>1. /\ Copy(req[p].row, req[p].id) /\ req[p].row \in Row /\ req[p].fudge \in Int \cup {Nil}
        /\ req[p].held \in [Questions -> Answer]
    BY <1>1, <1>4 DEF GradeSave, At, Agrees, GradeLabels, Request
  <2>2. row \in Row /\ Copy(row, req[p].id)
    BY <2>1 DEF Row, Copy, Completed, Scored, Stamp
  <2>3. rows' = [rows EXCEPT ![req[p].id] = Rescored(row, req[p].held)]
    BY <1>4 DEF GradeSave
  <2> HIDE DEF row
  <2> QED
    BY <2>1, <2>2, <2>3, CopyRescored
<1>5. CASE RegradeSave(p)
  BY <1>1, <1>5 DEF RegradeSave, At, Agrees, RegradeLabels
<1> QED
  BY <1>2, <1>3, <1>4, <1>5

\* An attempt keeps its number and start; in progress, its deadline, lock and
\* fudge points too, but for the statements made to change them.
LEMMA RowsStay ==
  ASSUME Inv, NEW p \in Procs, Continue(p), NEW i \in Used
  PROVE  /\ rows'[i].attempt = rows[i].attempt /\ rows'[i].startedAt = rows[i].startedAt
         /\ i \in Untaken =>
              /\ \/ rows'[i].endAt = rows[i].endAt
                 \/ SetEndAt(p) /\ req[p].id = i /\ rows'[i].endAt = req[p].row.endAt
              /\ rows'[i].read = rows[i].read \/ AppendReadQuestion(p)
              /\ rows'[i].fudge = rows[i].fudge
              /\ \/ rows'[i].state = "untaken"
                 \/ /\ FinalizeIfInProgress(p) /\ req[p].id = i /\ rows'[i].finishedAt = req[p].row.finishedAt
                    /\ rows'[i].score = req[p].row.score /\ rows'[i].state = req[p].row.state
<1>1. i \in Ids /\ rows \in [Ids -> Row] /\ rows[i] \in Row
  BY UsedIds DEF Inv, TypeOK, TablesOK
<1>2. i \in Untaken => rows[i].state = "untaken"
  BY DEF Untaken
<1>3. CASE UNCHANGED rows
  BY <1>2, <1>3
<1>4. CASE StartCreate(p)
  <2>1. nrows + 1 # i
    BY <1>1, BoundsAssumption DEF Inv, TypeOK, TablesOK, Used, Ids
  <2> QED
    BY <1>1, <1>2, <1>4, <2>1 DEF StartCreate
<1>5. CASE AppendReadQuestion(p)
  BY <1>1, <1>2, <1>5 DEF AppendReadQuestion, Row
<1>6. CASE FinalizeIfInProgress(p)
  <2> DEFINE done == [rows[i] EXCEPT !.finishedAt = req[p].row.finishedAt, !.score = req[p].row.score,
                                     !.kept = req[p].row.kept, !.state = req[p].row.state]
  <2>1. rows' = rows \/ (i # req[p].id /\ rows'[i] = rows[i]) \/ (i = req[p].id /\ rows'[i] = done)
    BY <1>1, <1>6 DEF FinalizeIfInProgress
  <2>2. /\ done.attempt = rows[i].attempt /\ done.startedAt = rows[i].startedAt
        /\ done.endAt = rows[i].endAt /\ done.read = rows[i].read /\ done.fudge = rows[i].fudge
        /\ done.finishedAt = req[p].row.finishedAt /\ done.score = req[p].row.score
        /\ done.state = req[p].row.state
    BY <1>1 DEF Row
  <2> HIDE DEF done
  <2> QED
    BY <1>2, <1>6, <2>1, <2>2
<1>7. CASE SetEndAt(p)
  BY <1>1, <1>2, <1>7 DEF SetEndAt, Row
<1>8. CASE ResultsSeenSave(p)
  BY <1>1, <1>2, <1>8 DEF ResultsSeenSave, Row
<1>9. CASE KeptSave(p) \/ LinkSave(p) \/ GradeSave(p) \/ RegradeSave(p)
  <2>1. PICK j, c : Copy(c, j) /\ rows' = [rows EXCEPT ![j] = c]
    BY <1>9, FullRowSaves
  <2>2. Stamp(rows'[i]) = Stamp(rows[i]) /\ (i \in Untaken => rows'[i] = rows[i])
    BY <2>1, CopyWritten
  <2> QED
    BY <1>2, <2>2 DEF Stamp
<1> QED
  BY <1>3, <1>4, <1>5, <1>6, <1>7, <1>8, <1>9, Writes

\* An attempt in use stays in use; one that was in use and is in progress, was.
LEMMA UsedStays ==
  ASSUME Inv, [Next]_vars
  PROVE  /\ Used \subseteq Used' /\ Done \subseteq Done'
         /\ \A i \in Used : i \in Untaken' => i \in Untaken
<1>1. Shows
  BY NextStep
<1>2. nrows \in Nat /\ nrows + 1 \notin Used
  BY DEF Inv, TypeOK, TablesOK, Used
<1> QED
  BY <1>1, <1>2 DEF Shows, Steady, Opens, TurnsIn, Tells, Used, Done, Untaken

\* What the graded attempt holds before it is saved.
GradedAnswers(i) == [q \in Questions |-> Graded(q, FirstAnswer(i, q))]

\* The job and /complete list the first answers, graded, and save the changed ones.
LEMMA FinalizeListed ==
  ASSUME Inv, NEW p \in Procs, FinalizeList(p)
  PROVE  LET g == GradedAnswers(req[p].id) IN
         /\ req'[p].id = req[p].id /\ req'[p].held = g
         /\ req'[p].todo = {q \in Questions : g[q] # NoAnswer}
         /\ req'[p].row.finishedAt = req[p].row.finishedAt
         /\ req'[p].row.score = IF IsSurvey THEN SurveyScore ELSE Sum(g)
         /\ req'[p].row.state = IF ~IsSurvey /\ g["essay"] # NoAnswer THEN "pending_review" ELSE "complete"
<1> DEFINE g == GradedAnswers(req[p].id)
           score == IF IsSurvey THEN SurveyScore ELSE Sum(g)
           todo == {q \in Questions : g[q] # NoAnswer}
           state == IF ~IsSurvey /\ g["essay"] # NoAnswer THEN "pending_review" ELSE "complete"
           r == [req[p] EXCEPT !.pc = "fin_save", !.held = g, !.todo = todo,
                               !.row.score = score, !.row.kept = score, !.row.state = state]
<1>1. req[p] \in Request /\ req[p].row \in Row
  BY WorkerState DEF Request
<1>2. Goto(p, r)
  BY DEF FinalizeList, GradedAnswers, Sum
<1> HIDE DEF g, score, todo, state
<1>3. /\ r.id = req[p].id /\ r.held = g /\ r.todo = todo /\ r.row.score = score
      /\ r.row.state = state /\ r.row.finishedAt = req[p].row.finishedAt
  BY <1>1 DEF Request, Row
<1> HIDE DEF r
<1>4. req'[p] = r
  BY <1>2 DEF Goto, Inv, TypeOK
<1> QED
  BY <1>3, <1>4 DEF g, score, todo, state

\* Saving a graded answer row only takes it off the list.
LEMMA FinalizeSaved ==
  ASSUME Inv, NEW p \in Procs, FinalizeSave(p)
  PROVE  /\ req'[p].id = req[p].id /\ req'[p].held = req[p].held /\ req'[p].row = req[p].row
         /\ req'[p].pc = req[p].pc
         /\ \E q \in req[p].todo : /\ answers' = [answers EXCEPT ![req[p].id][q][1] = req[p].held[q]]
                                   /\ req'[p].todo = req[p].todo \ {q}
<1> DEFINE r(q) == [req[p] EXCEPT !.todo = @ \ {q}]
<1>1. req[p] \in Request
  BY WorkerState
<1>2. PICK q \in req[p].todo : answers' = [answers EXCEPT ![req[p].id][q][1] = req[p].held[q]] /\ Goto(p, r(q))
  BY DEF FinalizeSave
<1>3. /\ r(q).id = req[p].id /\ r(q).row = req[p].row /\ r(q).held = req[p].held
      /\ r(q).todo = req[p].todo \ {q} /\ r(q).pc = req[p].pc
  BY <1>1 DEF Request
<1> HIDE DEF r
<1>4. req'[p] = r(q)
  BY <1>2 DEF Goto, Inv, TypeOK
<1> QED
  BY <1>2, <1>3, <1>4

\* What leads a worker to fin_save.
LEMMA ToFinSave ==
  ASSUME Inv, NEW p \in Procs, Continue(p), Follows(req[p], req'[p]), req'[p].pc = "fin_save"
  PROVE  FinalizeList(p) \/ FinalizeSave(p)
<1>1. FinalizeList(p) \/ FinalizeSave(p) \/ FinalizeIfInProgress(p)
  BY Labelled DEF Follows, Edges
<1>2. [req[p] EXCEPT !.pc = "kept_read"].pc = "kept_read"
  BY WorkerState DEF Request
<1>3. Idle.pc = "idle" /\ [Idle EXCEPT !.pc = "job_list", !.op = req[p].op, !.at = req[p].at].pc = "job_list"
  BY DEF Idle
<1> QED
  BY <1>1, <1>2, <1>3 DEF FinalizeIfInProgress, Finish, Goto, Inv, TypeOK

-----------------------------------------------------------------------------
\* The attempt limit

\* Attempts numbered in order: the latest is the last.
LEMMA LastIsLatest ==
  ASSUME Inv, Numbered, nrows > 0
  PROVE  Latest(Used) = nrows
<1>1. nrows \in Nat /\ nrows \in Used
  BY DEF Inv, TypeOK, TablesOK, Used
<1>2. \A j \in Used : \/ rows[j].attempt < rows[nrows].attempt
                      \/ rows[j].attempt = rows[nrows].attempt /\ nrows <= j
  BY <1>1 DEF Numbered, Used
<1>3. \A i \in Used : (\A j \in Used : \/ rows[j].attempt < rows[i].attempt
                                       \/ rows[j].attempt = rows[i].attempt /\ i <= j) => i = nrows
  BY <1>1 DEF Numbered, Used
<1> QED
  BY <1>1, <1>2, <1>3 DEF Latest

\* A prepared attempt has the next number, and the limit allows it.
LEMMA StartFindPermits ==
  ASSUME Inv, Numbered, NEW p \in Procs, StartFind(p), req'[p].pc = "start_create"
  PROVE  /\ req'[p].ext = req[p].ext /\ req'[p].row.attempt = nrows + 1
         /\ Allowed(nrows + 1, req[p].ext)
<1> DEFINE attempt == IF nrows = 0 THEN 1 ELSE rows[Latest(Used)].attempt + 1
           row == NewAttempt(attempt, req[p].at, req[p].ext)
           r == [req[p] EXCEPT !.pc = "start_create", !.row = row]
<1>1. req[p] \in Request /\ nrows \in Nat
  BY WorkerState DEF Inv, TypeOK, TablesOK
<1>2. attempt = nrows + 1
  <2>1. nrows > 0 => Latest(Used) = nrows /\ nrows \in Used
    BY <1>1, LastIsLatest DEF Used
  <2> QED
    BY <1>1, <2>1 DEF Numbered
<1>3. Goto(p, Idle) \/ (Goto(p, r) /\ Allowed(attempt, req[p].ext))
  BY DEF StartFind, Finish
<1>4. Idle.pc # "start_create"
  BY DEF Idle
<1>5. req'[p] = r /\ Allowed(attempt, req[p].ext)
  <2> HIDE DEF r, attempt
  <2> QED
    BY <1>3, <1>4 DEF Goto, Inv, TypeOK
<1>6. row.attempt = attempt
  BY DEF NewAttempt, NoRow
<1>7. r.ext = req[p].ext /\ r.row = row
  <2> HIDE DEF row
  <2> QED
    BY <1>1 DEF Request
<1> QED
  BY <1>2, <1>5, <1>6, <1>7

\* Every step keeps the attempts numbered and the prepared ones permitted.
LEMMA LimitStep ==
  ASSUME Apart("start", {"start", "extend"}), Inv, Serving, LimitInv, [Next]_vars
  PROVE  LimitInv'
<1> DEFINE Starts(o) == req[o].pc \in {"start_find", "start_create"}
<1>1. CASE Outside
  <2>1. Numbered'
    BY <1>1 DEF Outside, Numbered, Used, LimitInv
  <2>2. \A o \in Procs : req'[o] = req[o] => Permitted(req[o])'
    BY <1>1 DEF Outside, LimitInv, Permitted, Allowed
  <2>3. \A o \in Procs : req'[o] = Idle => Permitted(req[o])'
    BY DEF Permitted, Idle
  <2>4. \A o \in Procs : Enters(o) => Permitted(req[o])'
    BY <1>1 DEF Outside, Enters, Entered, Entries, Permitted
  <2> QED
    BY <1>1, <2>1, <2>2, <2>3, <2>4 DEF Outside, LimitInv, Enters, Alone
<1>2. ASSUME NEW p \in Procs, Continue(p)
      PROVE  LimitInv'
  <2>1. Numbered /\ \A o \in Procs : Permitted(req[o])
    BY DEF LimitInv
  <2>2. nrows \in Nat /\ rows \in [Ids -> Row]
    BY DEF Inv, TypeOK, TablesOK
  <2>3. Alone(p) /\ (req'[p] = Idle \/ Follows(req[p], req'[p]))
    BY <1>2, Walks DEF Inv
  <2>4. Numbered'
    <3>1. \A i \in Used : rows'[i].attempt = rows[i].attempt
      BY <1>2, RowsStay
    <3>2. CASE UNCHANGED nrows
      BY <2>1, <3>1, <3>2 DEF Numbered, Used
    <3>3. CASE StartCreate(p)
      <4>1. CASE UNCHANGED nrows
        BY <2>1, <3>1, <4>1 DEF Numbered, Used
      <4>2. CASE ~UNCHANGED nrows
        <5>1. nrows' = nrows + 1 /\ rows' = [rows EXCEPT ![nrows + 1] = req[p].row] /\ nrows # MaxRows
          BY <3>3, <4>2 DEF StartCreate, InsertRefused
        <5>2. nrows + 1 \in Ids
          BY <5>1, BoundsAssumption DEF Inv, TypeOK, TablesOK, Ids
        <5>3. rows'[nrows + 1].attempt = nrows + 1
          BY <2>1, <2>2, <3>3, <5>1, <5>2 DEF StartCreate, At, Permitted
        <5> QED
          BY <2>1, <2>2, <3>1, <5>1, <5>3 DEF Numbered, Used
      <4> QED
        BY <4>1, <4>2
    <3> QED
      BY <1>2, <3>2, <3>3, Writes
  <2>5. ASSUME NEW o \in Procs
        PROVE  Permitted(req[o])'
    <3>1. CASE o # p /\ Starts(o)
      <4>1. "start" \in Ops[o]
        BY <3>1 DEF Serving, Tasks
      <4>2. Ops[p] \cap {"start", "extend"} = {}
        BY <3>1, <4>1 DEF Apart
      <4>3. ~StartCreate(p) /\ ~ExtensionUpsert(p)
        BY <4>2 DEF Serving, Tasks, StartCreate, ExtensionUpsert, At
      <4>4. nrows' = nrows /\ ext' = ext
        BY <1>2, <4>3, Writes
      <4> QED
        BY <2>1, <2>3, <3>1, <4>4 DEF Alone, Permitted, Allowed
    <3>2. CASE o # p /\ ~Starts(o)
      BY <2>3, <3>2 DEF Alone, Permitted
    <3>3. CASE o = p
      <4>1. CASE req'[p] = Idle
        BY <3>3, <4>1 DEF Permitted, Idle
      <4>2. CASE Follows(req[p], req'[p]) /\ req'[p].pc # "start_create"
        BY <3>3, <4>2 DEF Follows, Edges, Permitted
      <4>3. CASE Follows(req[p], req'[p]) /\ req'[p].pc = "start_create"
        <5>1. req[p].pc = "start_find"
          BY <4>3 DEF Follows, Edges
        <5>2. StartFind(p)
          BY <1>2, <5>1, Labelled
        <5>3. nrows' = nrows /\ ext' = ext
          BY <5>2 DEF StartFind
        <5>4. /\ req'[p].ext = req[p].ext /\ req'[p].row.attempt = nrows + 1
              /\ Allowed(nrows + 1, req[p].ext)
          BY <2>1, <4>3, <5>2, StartFindPermits
        <5> QED
          BY <2>1, <3>3, <5>1, <5>3, <5>4 DEF Permitted, Allowed
      <4> QED
        BY <2>3, <4>1, <4>2, <4>3
    <3> QED
      BY <3>1, <3>2, <3>3
  <2> QED
    BY <2>4, <2>5 DEF LimitInv
<1> QED
  BY <1>1, <1>2, AnyStep

\* Nobody serves anything at first.
LEMMA InitServing == Init => Serving /\ (\A p \in Procs : req[p] = Idle) /\ Used = {} /\ Done = {} /\ Untaken = {}
<1> SUFFICES ASSUME Init PROVE Serving /\ (\A p \in Procs : req[p] = Idle) /\ Used = {} /\ Done = {} /\ Untaken = {}
  OBVIOUS
<1>1. Used = {} /\ \A p \in Procs : req[p] = Idle
  BY DEF Init, Used
<1>2. Idle.pc = "idle"
  BY DEF Idle
<1> QED
  BY <1>1, <1>2 DEF Serving, Done, Untaken

\* Workers are always at what they were asked for.
LEMMA AlwaysServing == Spec => []Serving
<1>1. Init => Serving
  BY InitServing
<1>2. Inv /\ Serving /\ [Next]_vars => Serving'
  BY ServingStep
<1> QED
  BY Invariance, <1>1, <1>2, PTL DEF Spec

\* StartSubmission creates no attempt beyond the allowed ones and the extra
\* ones granted so far, if no one else starts an attempt or moderates the
\* student meanwhile.
THEOREM LimitHolds ==
  ASSUME Apart("start", {"start", "extend"})
  PROVE  Spec => LimitRespected
<1> DEFINE Within == nrows' > nrows /\ AllowedAttempts > 0 => nrows' <= AllowedAttempts + ext.attempts
<1>1. Init => LimitInv
  BY InitServing DEF LimitInv, Numbered, Permitted, Idle
<1>2. Inv /\ Serving /\ LimitInv /\ [Next]_vars => LimitInv'
  BY LimitStep
<1>3. ASSUME Inv, LimitInv, [Next]_vars PROVE [Within]_vars
  <2>1. nrows \in Nat /\ AllowedAttempts \in Nat
    BY <1>3, QuizAssumption DEF Inv, TypeOK, TablesOK
  <2>2. CASE Outside
    BY <2>1, <2>2 DEF Outside
  <2>3. ASSUME NEW p \in Procs, Continue(p) PROVE Within
    <3>1. CASE UNCHANGED nrows
      BY <2>1, <3>1
    <3>2. CASE StartCreate(p)
      BY <1>3, <2>1, <3>2 DEF StartCreate, At, LimitInv, Permitted, Allowed
    <3> QED
      BY <2>3, <3>1, <3>2, Writes
  <2> QED
    BY <1>3, <2>2, <2>3, AnyStep
<1> QED
  BY Invariance, AlwaysServing, <1>1, <1>2, <1>3, PTL DEF Spec, LimitRespected

-----------------------------------------------------------------------------
\* Finish times

\* A prepared attempt starts no later than now and no later than it ends.
LEMMA StartFindBegins ==
  ASSUME Inv, NEW p \in Procs, StartFind(p), Punctual(req[p]), req'[p].pc = "start_create"
  PROVE  Begun(req'[p].row)
<1> DEFINE attempt == IF nrows = 0 THEN 1 ELSE rows[Latest(Used)].attempt + 1
           row == NewAttempt(attempt, req[p].at, req[p].ext)
           r == [req[p] EXCEPT !.pc = "start_create", !.row = row]
<1>1. /\ req[p] \in Request /\ req[p].at \in Nat /\ req[p].ext.time \in Nat
      /\ req[p].ext.unlocked \in BOOLEAN /\ req[p].pc = "start_find"
  BY WorkerState DEF Request, Extension, StartFind, At
<1>2. Goto(p, Idle) \/ Goto(p, r)
  BY DEF StartFind, Finish
<1>3. Idle.pc # "start_create"
  BY DEF Idle
<1>4. req'[p] = r
  <2> HIDE DEF r
  <2> QED
    BY <1>2, <1>3 DEF Goto, Inv, TypeOK
<1>5. row.startedAt = req[p].at /\ row.endAt = Deadline(req[p].at, req[p].ext)
  BY DEF NewAttempt, NoRow
<1>6. r.row = row
  <2> HIDE DEF row
  <2> QED
    BY <1>1 DEF Request
<1>7. /\ req[p].at <= now
      /\ Deadline(req[p].at, req[p].ext) # Nil => req[p].at <= Deadline(req[p].at, req[p].ext)
  BY <1>1, QuizAssumption, NilAssumption DEF Punctual, Deadline
<1> HIDE DEF row
<1> QED
  BY <1>4, <1>5, <1>6, <1>7 DEF Begun

\* The job finishes an overdue attempt at its deadline.
LEMMA JobListTimed ==
  ASSUME Inv, NEW p \in Procs, JobList(p), \A i \in Untaken : Begun(rows[i]),
         req'[p].pc = "fin_list"
  PROVE  req'[p].id \in Untaken /\ Timed(req'[p].row.finishedAt, rows[req'[p].id])
<1> DEFINE row(i) == [rows[i] EXCEPT !.finishedAt = rows[i].endAt]
           r(i) == [req[p] EXCEPT !.pc = "fin_list", !.id = i, !.row = row(i)]
<1>1. req[p] \in Request /\ \A i \in Ids : rows[i] \in Row
  BY WorkerState, UsedIds
<1>2. Goto(p, Idle) \/ \E i \in Ids : Overdue(i, req[p].at) /\ Goto(p, r(i))
  BY DEF JobList, Finish
<1>3. Idle.pc # "fin_list"
  BY DEF Idle
<1>4. PICK i \in Ids : Overdue(i, req[p].at) /\ req'[p] = r(i)
  <2> HIDE DEF r
  <2> QED
    BY <1>2, <1>3 DEF Goto, Inv, TypeOK
<1>5. r(i).id = i /\ r(i).row = row(i)
  <2> HIDE DEF row
  <2> QED
    BY <1>1 DEF Request
<1>6. row(i).finishedAt = rows[i].endAt
  BY <1>1 DEF Row
<1>7. i \in Untaken /\ rows[i].endAt # Nil /\ rows[i].endAt \in Int
  BY <1>1, <1>4 DEF Overdue, Row
<1> HIDE DEF r, row
<1> QED
  BY <1>4, <1>5, <1>6, <1>7, QuizAssumption DEF Begun, Timed

\* A moderator's new deadline is after the attempt's start.
LEMMA ExtensionAfterStart ==
  ASSUME Inv, NEW p \in Procs, ExtensionFind(p), \A i \in Untaken : Begun(rows[i]),
         req'[p].pc = "ext_set"
  PROVE  /\ req'[p].id \in Untaken /\ req'[p].row.endAt \in Int
         /\ rows[req'[p].id].startedAt <= req'[p].row.endAt
<1> DEFINE i == Latest(Used)
           end == NewEnd(req[p].inp, rows[i].endAt)
           row == [rows[i] EXCEPT !.endAt = end]
           r == [req[p] EXCEPT !.pc = "ext_set", !.id = i, !.row = row]
<1>1. req[p] \in Request /\ Agrees(req[p]) /\ req[p].pc = "ext_find"
  BY WorkerState DEF ExtensionFind, At
<1>2. \/ Goto(p, Idle)
      \/ nrows > 0 /\ rows[i].state = "untaken" /\ rows[i].endAt # Nil /\ Goto(p, r)
  BY DEF ExtensionFind, Finish
<1>3. Idle.pc # "ext_set"
  BY DEF Idle
<1>4. req'[p] = r /\ nrows > 0 /\ rows[i].state = "untaken" /\ rows[i].endAt # Nil
  <2> HIDE DEF r, i
  <2> QED
    BY <1>2, <1>3 DEF Goto, Inv, TypeOK
<1>5. i \in Used
  <2>1. Used # {} /\ Used \in SUBSET Ids
    BY <1>4, UsedIds DEF Used, Inv, TypeOK, TablesOK
  <2> QED
    BY <2>1, LatestIn, UsedIds DEF Row
<1>6. i \in Untaken /\ rows[i] \in Row /\ rows[i].endAt \in Int /\ rows[i].startedAt <= now /\ now \in Nat
  BY <1>4, <1>5, UsedIds DEF Untaken, Begun, Row, Inv, TypeOK, TablesOK
<1>7. end \in Int /\ rows[i].startedAt <= end
  <2> DEFINE in == req[p].inp
  <2>1. in.fromNow # Nil \/ in.fromEnd # Nil
    BY <1>1 DEF Agrees
  <2>2. in \in ExtInputs
    BY <1>1, <2>1 DEF Request, NoInput
  <2>3. in.fromNow \in (Nat \ {0}) \cup {Nil} /\ in.fromEnd \in (Nat \ {0}) \cup {Nil}
    BY <2>2, ExtAssumption
  <2>4. rows[i].startedAt \in Nat
    BY <1>6 DEF Row
  <2> HIDE DEF in, i
  <2>5. NewEnd(in, rows[i].endAt) \in Int /\ rows[i].startedAt <= NewEnd(in, rows[i].endAt)
    BY <1>6, <2>1, <2>3, <2>4, NilAssumption DEF NewEnd
  <2> QED
    BY <2>5 DEF in
<1>8. row.endAt = end
  BY <1>6 DEF Row
<1>9. r.id = i /\ r.row = row
  <2> HIDE DEF row, i
  <2> QED
    BY <1>1 DEF Request
<1> HIDE DEF r, row, end, i
<1> QED
  BY <1>4, <1>6, <1>7, <1>8, <1>9

\* Every step keeps the times of attempts and of the copies workers hold in order.
LEMMA TimeStep ==
  ASSUME Apart("extend", TurnIns), Inv, Serving, TimeInv, [Next]_vars
  PROVE  TimeInv'
<1>0. /\ FinishedInTime /\ (\A i \in Untaken : Begun(rows[i])) /\ (\A o \in Procs : Punctual(req[o]))
      /\ now \in Nat /\ \A i \in Ids : rows[i] \in Row /\ rows[i].startedAt \in Nat
  BY UsedIds DEF TimeInv, Inv, TypeOK, TablesOK, Row
<1>1. CASE Outside
  <2>1. rows' = rows /\ Used' = Used /\ Done' = Done /\ Untaken' = Untaken /\ now <= now' /\ now' \in Nat
    BY <1>0, <1>1 DEF Outside, Used, Done, Untaken
  <2>2. \A a \in Row : Begun(a) => Begun(a)'
    BY <1>0, <2>1 DEF Begun, Row
  <2>3. FinishedInTime'
    BY <1>0, <2>1 DEF FinishedInTime
  <2>4. \A i \in Untaken' : Begun(rows[i])'
    BY <1>0, <2>1, <2>2, UsedIds DEF Begun
  <2>5. \A o \in Procs : req'[o] = req[o] => Punctual(req[o])'
    <3> SUFFICES ASSUME NEW o \in Procs, req'[o] = req[o] PROVE Punctual(req[o])'
      OBVIOUS
    <3>1. req[o] \in Request /\ req[o].row \in Row /\ req[o].at \in Nat
      BY WorkerState DEF Request
    <3> QED
      BY <1>0, <2>1, <2>2, <3>1 DEF Punctual, Begun, Timed
  <2>6. \A o \in Procs : req'[o] = Idle => Punctual(req[o])'
    BY DEF Punctual, Idle
  <2>7. ASSUME NEW o \in Procs, Enters(o), now' = now PROVE Punctual(req[o])'
    <3>1. CASE req'[o].pc = "fin_list"
      <4>1. /\ req'[o].id \in Untaken
            /\ req'[o].row = [rows[req'[o].id] EXCEPT !.finishedAt = FinishAt(rows[req'[o].id])]
        BY <2>7, <3>1 DEF Enters, Entered
      <4>2. rows[req'[o].id] \in Row /\ Begun(rows[req'[o].id])
        BY <1>0, <4>1, UsedIds
      <4>3. req'[o].row.finishedAt = FinishAt(rows[req'[o].id])
        BY <4>1, <4>2 DEF Row
      <4>4. Timed(FinishAt(rows[req'[o].id]), rows[req'[o].id])
        BY <1>0, <4>2, QuizAssumption, NilAssumption DEF Timed, Begun, FinishAt, Expired, Row
      <4> QED
        BY <2>1, <3>1, <4>3, <4>4 DEF Punctual, Timed
    <3>2. CASE req'[o].pc = "start_find"
      BY <1>0, <2>7, <3>2, NilAssumption DEF Enters, Entered, Open, Punctual
    <3> QED
      BY <2>7, <3>1, <3>2 DEF Enters, Entered, Entries, Punctual
  <2> QED
    BY <1>1, <2>3, <2>4, <2>5, <2>6, <2>7 DEF Outside, TimeInv, Enters, Alone
<1>2. ASSUME NEW p \in Procs, Continue(p)
      PROVE  TimeInv'
  <2>1. Alone(p) /\ (req'[p] = Idle \/ Follows(req[p], req'[p]))
    BY <1>2, Walks DEF Inv
  <2>2. now' = now
    BY <1>2, Writes
  <2>3. \A i \in Used : rows'[i].startedAt = rows[i].startedAt
    BY <1>2, RowsStay
  <2>4. \A i \in Used : i \in Untaken' => i \in Untaken
    BY UsedStays
  <2>5. SetEndAt(p) => \A o \in Procs : o # p => req[o].pc \notin {"fin_list", "fin_save"}
    BY DEF SetEndAt, At, Serving, Tasks, Apart
  <2>6. FinishedInTime'
    <3> SUFFICES ASSUME NEW i \in Done'
                 PROVE  /\ rows'[i].startedAt <= rows'[i].finishedAt
                        /\ rows'[i].endAt # Nil => rows'[i].finishedAt <= rows'[i].endAt + CompletionGrace
      BY DEF FinishedInTime
    <3>1. CASE i \in Done
      <4>1. Stamp(rows'[i]) = Stamp(rows[i])
        BY <3>1, NextStep DEF Shows, Steady, Opens, TurnsIn, Tells
      <4> QED
        BY <1>0, <3>1, <4>1 DEF Stamp, FinishedInTime
    <3>2. CASE i \notin Done
      <4>1. i \in Untaken
        BY <3>2, NextStep DEF Shows, Steady, Opens, TurnsIn, Tells, Done, Used
      <4>2. i \in Used /\ rows'[i].state # "untaken"
        BY <4>1 DEF Untaken, Done, Completed
      <4>3. /\ FinalizeIfInProgress(p) /\ req[p].id = i /\ rows'[i].finishedAt = req[p].row.finishedAt
            /\ rows'[i].endAt = rows[i].endAt \/ SetEndAt(p)
        BY <1>2, <4>1, <4>2, RowsStay
      <4>4. ~SetEndAt(p) /\ req[p].pc = "fin_save"
        BY <4>3 DEF FinalizeIfInProgress, SetEndAt, At
      <4>5. Timed(req[p].row.finishedAt, rows[i])
        BY <1>0, <4>1, <4>3, <4>4 DEF Punctual
      <4> QED
        BY <2>3, <4>2, <4>3, <4>4, <4>5 DEF Timed
    <3> QED
      BY <3>1, <3>2
  <2>7. ASSUME NEW i \in Untaken' PROVE Begun(rows[i])'
    <3>1. CASE i \in Used
      <4>1. i \in Untaken /\ Begun(rows[i])
        BY <1>0, <2>4, <2>7, <3>1
      <4>2. \/ rows'[i].endAt = rows[i].endAt
            \/ SetEndAt(p) /\ req[p].id = i /\ rows'[i].endAt = req[p].row.endAt
        BY <1>2, <3>1, <4>1, RowsStay
      <4>3. SetEndAt(p) /\ req[p].id = i => rows[i].startedAt <= req[p].row.endAt
        BY <1>0, <4>1 DEF SetEndAt, At, Punctual
      <4> QED
        BY <2>2, <2>3, <3>1, <4>1, <4>2, <4>3 DEF Begun
    <3>2. CASE i \notin Used
      <4>1. nrows' # nrows
        BY <2>7, <3>2 DEF Used, Untaken
      <4>2. StartCreate(p)
        BY <1>2, <4>1, Writes
      <4>3. nrows' = nrows + 1 /\ rows' = [rows EXCEPT ![nrows + 1] = req[p].row] /\ nrows # MaxRows
        BY <4>1, <4>2 DEF StartCreate, InsertRefused
      <4>4. nrows + 1 \in Ids /\ i = nrows + 1
        BY <2>7, <3>2, <4>3, BoundsAssumption DEF Inv, TypeOK, TablesOK, Ids, Used, Untaken
      <4>5. rows'[i] = req[p].row
        BY <4>3, <4>4 DEF Inv, TypeOK, TablesOK
      <4> QED
        BY <1>0, <2>2, <4>2, <4>5 DEF StartCreate, At, Punctual, Begun
    <3> QED
      BY <3>1, <3>2
  <2>8. ASSUME NEW o \in Procs PROVE Punctual(req[o])'
    <3>1. req[o] \in Request /\ Agrees(req[o])
      BY WorkerState
    <3>2. CASE o # p
      <4>1. req'[o] = req[o] /\ Punctual(req[o])
        BY <1>0, <2>1, <3>2 DEF Alone
      <4>2. ASSUME req[o].pc \in {"fin_list", "fin_save"}, req[o].id \in Untaken'
            PROVE  Timed(req[o].row.finishedAt, rows'[req[o].id])
        <5>1. req[o].id \in Used /\ req[o].id \in Untaken
          BY <2>4, <3>1, <4>2 DEF Agrees, AttemptLabels
        <5>2. ~SetEndAt(p)
          BY <2>5, <3>2, <4>2
        <5>3. rows'[req[o].id].endAt = rows[req[o].id].endAt
          BY <1>2, <5>1, <5>2, RowsStay
        <5> QED
          BY <2>3, <4>1, <4>2, <5>1, <5>3 DEF Punctual, Timed
      <4>3. ASSUME req[o].pc = "ext_set", req[o].id \in Untaken'
            PROVE  req[o].row.endAt \in Int /\ rows'[req[o].id].startedAt <= req[o].row.endAt
        <5>1. req[o].id \in Used /\ req[o].id \in Untaken
          BY <2>4, <3>1, <4>3 DEF Agrees, AttemptLabels
        <5> QED
          BY <2>3, <4>1, <4>3, <5>1 DEF Punctual
      <4> QED
        BY <2>2, <4>1, <4>2, <4>3 DEF Punctual, Begun
    <3>3. CASE o = p /\ req'[p] = Idle
      BY <3>3 DEF Punctual, Idle
    <3>4. CASE o = p /\ Follows(req[p], req'[p])
      <4>1. CASE req'[p].pc = "start_create"
        <5>1. StartFind(p)
          BY <1>2, <3>4, <4>1, Labelled DEF Follows, Edges
        <5>2. Begun(req'[p].row)
          BY <1>0, <4>1, <5>1, StartFindBegins
        <5> QED
          BY <2>2, <3>4, <4>1, <5>2 DEF Punctual, Begun
      <4>2. CASE req'[p].pc = "fin_list"
        <5>1. JobList(p)
          BY <1>2, <3>4, <4>2, Labelled DEF Follows, Edges
        <5>2. req'[p].id \in Untaken /\ Timed(req'[p].row.finishedAt, rows[req'[p].id]) /\ rows' = rows
          BY <1>0, <4>2, <5>1, JobListTimed DEF JobList
        <5> QED
          BY <3>4, <4>2, <5>2 DEF Punctual, Timed
      <4>3. CASE req'[p].pc = "fin_save"
        <5>1. FinalizeList(p) \/ FinalizeSave(p)
          BY <1>2, <3>4, <4>3, ToFinSave
        <5>3. /\ req'[p].id = req[p].id /\ req'[p].row.finishedAt = req[p].row.finishedAt
              /\ rows' = rows /\ nrows' = nrows /\ req[p].pc \in {"fin_list", "fin_save"}
          BY <5>1, FinalizeListed, FinalizeSaved DEF FinalizeList, FinalizeSave, At
        <5>4. Untaken' = Untaken
          BY <5>3 DEF Untaken, Used
        <5> QED
          BY <1>0, <3>4, <4>3, <5>3, <5>4 DEF Punctual, Timed
      <4>4. CASE req'[p].pc = "ext_set"
        <5>1. ExtensionFind(p)
          BY <1>2, <3>4, <4>4, Labelled DEF Follows, Edges
        <5>2. /\ req'[p].row.endAt \in Int /\ rows[req'[p].id].startedAt <= req'[p].row.endAt
              /\ rows' = rows
          BY <1>0, <4>4, <5>1, ExtensionAfterStart DEF ExtensionFind
        <5> QED
          BY <3>4, <4>4, <5>2 DEF Punctual
      <4>5. req'[p].pc # "start_find"
        BY <3>4 DEF Follows, Edges
      <4> QED
        BY <3>4, <4>1, <4>2, <4>3, <4>4, <4>5 DEF Punctual
    <3> QED
      BY <2>1, <3>2, <3>3, <3>4
  <2> QED
    BY <2>6, <2>7, <2>8 DEF TimeInv
<1> QED
  BY <1>1, <1>2, AnyStep

\* Every turned-in attempt finished after it started and within the grace after
\* its deadline, if no moderator moves the deadline while the attempt is being
\* turned in.
THEOREM TurnedInInTime ==
  ASSUME Apart("extend", TurnIns)
  PROVE  Spec => []FinishedInTime
<1>1. Init => TimeInv
  BY InitServing DEF TimeInv, FinishedInTime, Punctual, Idle
<1>2. Inv /\ Serving /\ TimeInv /\ [Next]_vars => TimeInv'
  BY TimeStep
<1>3. TimeInv => FinishedInTime
  BY DEF TimeInv
<1> QED
  BY Invariance, AlwaysServing, <1>1, <1>2, <1>3, PTL DEF Spec

-----------------------------------------------------------------------------
\* What a worker holds after a read

LEMMA AnswerFound ==
  ASSUME Inv, NEW p \in Procs, AnswerFind(p)
  PROVE  /\ req'[p].id = req[p].id /\ req'[p].q = req[p].q /\ req'[p].text = req[p].text
         /\ req'[p].held[req[p].q] = FirstAnswer(req[p].id, req[p].q)
<1> DEFINE a == FirstAnswer(req[p].id, req[p].q)
           r == [req[p] EXCEPT !.pc = "answer_save", !.held[req[p].q] = a]
<1>1. req[p] \in Request /\ Agrees(req[p]) /\ req[p].pc = "answer_find"
  BY WorkerState DEF AnswerFind, At
<1>2. req[p].q \in Questions
  BY <1>1 DEF Agrees, QuestionLabels
<1>3. Goto(p, r)
  BY DEF AnswerFind
<1> HIDE DEF a
<1>4. r.id = req[p].id /\ r.q = req[p].q /\ r.text = req[p].text /\ r.held[req[p].q] = a
  BY <1>1, <1>2 DEF Request
<1> HIDE DEF r
<1> QED
  BY <1>3, <1>4 DEF Goto, Inv, TypeOK, a

\* A grader holds the attempt's first answers.
LEMMA GradeListed ==
  ASSUME Inv, NEW p \in Procs, GradeList(p)
  PROVE  /\ req'[p].id = req[p].id /\ req'[p].q = req[p].q /\ req'[p].row = req[p].row
         /\ req'[p].k = 1 /\ req'[p].held = Firsts(req[p].id)
<1> DEFINE label == IF req[p].q = "none" THEN "grade_save" ELSE "grade_mark"
           held == Firsts(req[p].id)
           r == [req[p] EXCEPT !.pc = label, !.held = held, !.k = 1]
<1>1. req[p] \in Request
  BY WorkerState
<1>2. Goto(p, r)
  BY DEF GradeList, Firsts
<1> HIDE DEF held, label
<1>3. r.id = req[p].id /\ r.q = req[p].q /\ r.row = req[p].row /\ r.k = 1 /\ r.held = held
  BY <1>1 DEF Request
<1> HIDE DEF r
<1> QED
  BY <1>2, <1>3 DEF Goto, Inv, TypeOK, held

\* A grader's mark goes to the answer row at hand, a blank one first if the
\* question was skipped.
Mark(r, a) == IF r.mark = Nil THEN a ELSE [a EXCEPT !.points = r.mark, !.via = "manual"]

\* A grader's mark is saved in the first answer row, which is added first if there is none.
LEMMA GradeMarked ==
  ASSUME Inv, NEW p \in Procs, GradeMark(p)
  PROVE  LET r == req[p]
             s == req'[p]
             a == req[p].held[req[p].q]
         IN
         /\ r.q \in Questions /\ r.id \in Done
         /\ s.id = r.id /\ s.q = r.q /\ s.row = r.row /\ s.mark = r.mark /\ s.fudge = r.fudge
         /\ \/ /\ a = NoAnswer /\ s.pc = "grade_mark" /\ s.k = Len(answers[r.id][r.q]) + 1
               /\ s.held = [r.held EXCEPT ![r.q] = BlankAnswer]
               /\ answers' = [answers EXCEPT ![r.id][r.q] = Append(@, BlankAnswer)]
            \/ /\ a # NoAnswer /\ s.pc = "grade_save"
               /\ s.held = [r.held EXCEPT ![r.q] = Mark(r, a)]
               /\ answers' = [answers EXCEPT ![r.id][r.q][r.k] = Mark(r, a)]
<1> DEFINE i == req[p].id
           q == req[p].q
           a == req[p].held[q]
           marked == Mark(req[p], a)
           n == Len(answers[i][q]) + 1
           blank == [req[p] EXCEPT !.held[q] = BlankAnswer, !.k = n]
           done == [req[p] EXCEPT !.pc = "grade_save", !.held[q] = marked]
<1>1. req[p] \in Request /\ Agrees(req[p]) /\ req[p].pc = "grade_mark"
  BY WorkerState DEF GradeMark, At
<1>2. q \in Questions /\ i \in Done
  BY <1>1 DEF Agrees, QuestionLabels, GradeLabels, Copy
<1>3. \/ a = NoAnswer /\ answers' = [answers EXCEPT ![i][q] = Append(@, BlankAnswer)] /\ Goto(p, blank)
      \/ a # NoAnswer /\ answers' = [answers EXCEPT ![i][q][req[p].k] = marked] /\ Goto(p, done)
  BY DEF GradeMark, Mark
<1> HIDE DEF marked, n
<1>4. /\ blank.id = i /\ blank.q = q /\ blank.row = req[p].row /\ blank.pc = "grade_mark"
      /\ blank.k = n /\ blank.held = [req[p].held EXCEPT ![q] = BlankAnswer]
      /\ blank.mark = req[p].mark /\ blank.fudge = req[p].fudge
      /\ done.id = i /\ done.q = q /\ done.row = req[p].row /\ done.pc = "grade_save"
      /\ done.held = [req[p].held EXCEPT ![q] = marked]
      /\ done.mark = req[p].mark /\ done.fudge = req[p].fudge
  BY <1>1 DEF Request
<1> HIDE DEF blank, done
<1>6. \/ a = NoAnswer /\ answers' = [answers EXCEPT ![i][q] = Append(@, BlankAnswer)] /\ req'[p] = blank
      \/ a # NoAnswer /\ answers' = [answers EXCEPT ![i][q][req[p].k] = marked] /\ req'[p] = done
  BY <1>3 DEF Goto, Inv, TypeOK
<1> QED
  BY <1>2, <1>4, <1>6 DEF marked, n

\* A regrade that goes on to an answer is at a listed attempt's first one.
LEMMA RegradeFound ==
  ASSUME Inv, NEW p \in Procs, RegradeFind(p), req'[p].pc = "regrade_mark"
  PROVE  /\ req'[p].q = req[p].q /\ req'[p].k = 1
         /\ req'[p].id \in Ids /\ req[p].list[req'[p].id] # NoRow
         /\ req'[p].row = req[p].list[req'[p].id]
         /\ req'[p].list = [req[p].list EXCEPT ![req'[p].id] = NoRow]
         /\ req'[p].held[req[p].q] = FirstAnswer(req'[p].id, req[p].q)
         /\ req'[p].touched = req[p].touched
<1> DEFINE left == {i \in Ids : req[p].list[i] # NoRow}
           i == CHOOSE i \in left : \A j \in left : i <= j
           a == FirstAnswer(i, req[p].q)
           points == Repointed(req[p].q, a, req[p].option, req[p].text)
           over == [req[p] EXCEPT !.pc = "kept_read"]
           skipped == [req[p] EXCEPT !.list[i] = NoRow]
           mark == [req[p] EXCEPT !.pc = "regrade_mark", !.id = i, !.row = req[p].list[i],
                                  !.list[i] = NoRow, !.k = 1, !.mark = points,
                                  !.held[req[p].q] = a]
<1>1. req[p] \in Request /\ Agrees(req[p]) /\ req[p].pc = "regrade_find"
  BY WorkerState DEF RegradeFind, At
<1>2. req[p].q \in Questions
  BY <1>1 DEF Agrees, QuestionLabels
<1>3. Goto(p, over) \/ Goto(p, Idle) \/ Goto(p, skipped) \/ (Goto(p, mark) /\ left # {})
  BY DEF RegradeFind
<1>4. Idle.pc = "idle"
  BY DEF Idle
<1>5. over.pc = "kept_read" /\ skipped.pc = "regrade_find"
  BY <1>1 DEF Request
<1>6. req'[p] = mark /\ left # {}
  <2> HIDE DEF over, skipped, mark, left
  <2> QED
    BY <1>3, <1>4, <1>5 DEF Goto, Inv, TypeOK
<1>7. i \in left
  <2>1. left \in SUBSET Nat
    BY BoundsAssumption DEF Ids
  <2>2. \E m \in left : \A j \in left : m <= j
    BY <1>6, <2>1, Smallest
  <2> HIDE DEF left
  <2> QED
    BY <2>2
<1> HIDE DEF i, a, points
<1>8. /\ mark.q = req[p].q /\ mark.k = 1 /\ mark.id = i /\ mark.row = req[p].list[i]
      /\ mark.list = [req[p].list EXCEPT ![i] = NoRow] /\ mark.held[req[p].q] = a
      /\ mark.touched = req[p].touched
  BY <1>1, <1>2 DEF Request
<1> HIDE DEF mark
<1> QED
  BY <1>6, <1>7, <1>8 DEF a

\* A regrade writes the answer it read, graded again.
LEMMA RegradeMarked ==
  ASSUME Inv, NEW p \in Procs, RegradeMark(p)
  PROVE  LET r == req[p]
             s == req'[p]
             a == req[p].held[req[p].q]
             b == [a EXCEPT !.points = r.mark,
                            !.via = IF r.q = "essay" \/ a.via = "manual" THEN "manual" ELSE "auto"]
         IN
         /\ r.q \in Questions /\ r.id \in Done
         /\ s.id = r.id /\ s.q = r.q /\ s.row = r.row /\ s.list = r.list /\ s.touched = r.touched
         /\ \/ /\ a = NoAnswer /\ s.pc = "regrade_mark" /\ s.k = Len(answers[r.id][r.q]) + 1
               /\ s.held = [r.held EXCEPT ![r.q] = BlankAnswer]
               /\ answers' = [answers EXCEPT ![r.id][r.q] = Append(@, BlankAnswer)]
            \/ /\ a # NoAnswer /\ s.pc = "regrade_list"
               /\ answers' = [answers EXCEPT ![r.id][r.q][r.k] = b]
<1> DEFINE i == req[p].id
           q == req[p].q
           a == req[p].held[q]
           b == [a EXCEPT !.points = req[p].mark,
                          !.via = IF q = "essay" \/ a.via = "manual" THEN "manual" ELSE "auto"]
           n == Len(answers[i][q]) + 1
           blank == [req[p] EXCEPT !.held[q] = BlankAnswer, !.k = n]
           done == [req[p] EXCEPT !.pc = "regrade_list"]
<1>1. req[p] \in Request /\ Agrees(req[p]) /\ req[p].pc = "regrade_mark"
  BY WorkerState DEF RegradeMark, At
<1>2. q \in Questions /\ i \in Done
  BY <1>1 DEF Agrees, QuestionLabels, RegradeLabels, Copy
<1>3. \/ a = NoAnswer /\ answers' = [answers EXCEPT ![i][q] = Append(@, BlankAnswer)] /\ Goto(p, blank)
      \/ a # NoAnswer /\ answers' = [answers EXCEPT ![i][q][req[p].k] = b] /\ Goto(p, done)
  BY DEF RegradeMark
<1> HIDE DEF b, n
<1>4. /\ blank.id = i /\ blank.q = q /\ blank.row = req[p].row /\ blank.pc = "regrade_mark"
      /\ blank.k = n /\ blank.held = [req[p].held EXCEPT ![q] = BlankAnswer]
      /\ blank.list = req[p].list /\ blank.touched = req[p].touched
      /\ done.id = i /\ done.q = q /\ done.row = req[p].row /\ done.pc = "regrade_list"
      /\ done.list = req[p].list /\ done.touched = req[p].touched
  BY <1>1 DEF Request
<1> HIDE DEF blank, done
<1>6. \/ a = NoAnswer /\ answers' = [answers EXCEPT ![i][q] = Append(@, BlankAnswer)] /\ req'[p] = blank
      \/ a # NoAnswer /\ answers' = [answers EXCEPT ![i][q][req[p].k] = b] /\ req'[p] = done
  BY <1>3 DEF Goto, Inv, TypeOK
<1> QED
  BY <1>2, <1>4, <1>6 DEF b, n

-----------------------------------------------------------------------------
\* The students' answers

\* The texts of attempt i's answers to q stay, whatever rows are added.
TextsStay(i, q) ==
  \A k \in DOMAIN answers[i][q] :
    k \in DOMAIN answers'[i][q] /\ answers'[i][q][k].text = answers[i][q][k].text

\* A first answer is a copy of a row of the table.
LEMMA FirstCopied ==
  ASSUME Inv, NEW i \in Ids, NEW q \in Questions
  PROVE  FirstAnswer(i, q) = NoAnswer \/ Copied(FirstAnswer(i, q), i, q, 1)
<1>1. answers[i][q] \in Seq(Answer)
  BY DEF Inv, TypeOK, TablesOK
<1>2. answers[i][q] # <<>> => 1 \in DOMAIN answers[i][q]
  BY <1>1
<1> QED
  BY <1>2 DEF FirstAnswer, Copied

\* An answer row added at the end is there.
LEMMA AppendedLast ==
  ASSUME NEW s \in Seq(Answer), NEW a \in Answer
  PROVE  Len(s) + 1 \in DOMAIN Append(s, a) /\ Append(s, a)[Len(s) + 1] = a
<1>1. Append(s, a) \in Seq(Answer) /\ Len(Append(s, a)) = Len(s) + 1 /\ Append(s, a)[Len(s) + 1] = a
  BY AppendProperties
<1>2. Len(s) \in Nat /\ DOMAIN Append(s, a) = 1..Len(Append(s, a))
  BY <1>1, LenProperties
<1> QED
  BY <1>1, <1>2

\* Appending a row, or saving one with its text, changes no text.
LEMMA TextsKept ==
  ASSUME Inv, NEW i \in Ids, NEW q \in Questions, NEW j \in Ids, NEW u \in Questions, NEW k, NEW a,
         \/ answers' = [answers EXCEPT ![j][u] = Append(@, a)]
         \/ answers' = [answers EXCEPT ![j][u][k] = a] /\ Copied(a, j, u, k)
  PROVE  TextsStay(i, q)
<1>1. answers \in [Ids -> [Questions -> Seq(Answer)]]
  BY DEF Inv, TypeOK, TablesOK
<1>2. CASE answers' = [answers EXCEPT ![j][u] = Append(@, a)]
  <2>1. CASE i = j /\ q = u
    <3>1. answers'[i][q] = Append(answers[i][q], a) /\ answers[i][q] \in Seq(Answer)
      BY <1>1, <1>2, <2>1
    <3>2. /\ Len(Append(answers[i][q], a)) = Len(answers[i][q]) + 1
          /\ \A m \in 1..Len(answers[i][q]) : Append(answers[i][q], a)[m] = answers[i][q][m]
      BY <3>1
    <3>3. DOMAIN answers[i][q] = 1..Len(answers[i][q]) /\ DOMAIN answers'[i][q] = 1..(Len(answers[i][q]) + 1)
          /\ Len(answers[i][q]) \in Nat
      BY <3>1, <3>2
    <3> QED
      BY <3>1, <3>2, <3>3 DEF TextsStay
  <2>2. CASE ~(i = j /\ q = u)
    <3>1. answers'[i][q] = answers[i][q]
      BY <1>1, <1>2, <2>2
    <3> QED
      BY <3>1 DEF TextsStay
  <2> QED
    BY <2>1, <2>2
<1>3. CASE answers' = [answers EXCEPT ![j][u][k] = a] /\ Copied(a, j, u, k)
  <2>1. CASE i = j /\ q = u
    <3>1. answers'[i][q] = [answers[i][q] EXCEPT ![k] = a]
      BY <1>1, <1>3, <2>1
    <3> QED
      BY <1>3, <2>1, <3>1 DEF TextsStay, Copied
  <2>2. CASE ~(i = j /\ q = u)
    <3>1. answers'[i][q] = answers[i][q]
      BY <1>1, <1>3, <2>2
    <3> QED
      BY <3>1 DEF TextsStay
  <2> QED
    BY <2>1, <2>2
<1> QED
  BY <1>2, <1>3

\* Only the student's own save changes a text, and of an attempt in progress.
LEMMA OnlyAnswering ==
  ASSUME Inv, TextInv, NEW p \in Procs, Continue(p), NEW i \in Ids, NEW q \in Questions
  PROVE  TextsStay(i, q) \/ (AnswerSave(p) /\ i = req[p].id /\ i \in Untaken /\ q = req[p].q)
<1>0. req[p] \in Request /\ Agrees(req[p]) /\ Quotes(req[p])
  BY WorkerState DEF TextInv
<1>1. CASE UNCHANGED answers
  BY <1>1 DEF TextsStay
<1>2. CASE AnswerSave(p)
  <2>1. req[p].id \in Untaken
    BY <1>0, <1>2 DEF AnswerSave, At, Quotes
  <2>2. CASE i = req[p].id /\ q = req[p].q
    BY <1>2, <2>1, <2>2
  <2>3. CASE ~(i = req[p].id /\ q = req[p].q)
    <3>1. \E s : answers' = [answers EXCEPT ![req[p].id][req[p].q] = s]
      BY <1>2 DEF AnswerSave
    <3>2. answers'[i][q] = answers[i][q]
      BY <2>3, <3>1 DEF Inv, TypeOK, TablesOK
    <3> QED
      BY <3>2 DEF TextsStay
  <2> QED
    BY <2>2, <2>3
<1>3. CASE FinalizeSave(p)
  <2>1. req[p].pc = "fin_save"
    BY <1>3 DEF FinalizeSave, At
  <2>2. req[p].id \in Ids /\ req[p].todo \subseteq Questions
    BY <1>0, <2>1, UsedIds DEF Agrees, AttemptLabels, Request
  <2>3. PICK u \in req[p].todo : answers' = [answers EXCEPT ![req[p].id][u][1] = req[p].held[u]]
    BY <1>3 DEF FinalizeSave
  <2>4. Copied(req[p].held[u], req[p].id, u, 1) /\ u \in Questions
    BY <1>0, <2>1, <2>2 DEF Quotes
  <2> QED
    BY <2>2, <2>3, <2>4, TextsKept
<1>4. CASE GradeMark(p)
  <2> DEFINE a == req[p].held[req[p].q]
             b == Mark(req[p], a)
  <2>1. /\ req[p].q \in Questions /\ req[p].id \in Ids
        /\ \/ answers' = [answers EXCEPT ![req[p].id][req[p].q] = Append(@, BlankAnswer)]
           \/ a # NoAnswer /\ answers' = [answers EXCEPT ![req[p].id][req[p].q][req[p].k] = b]
    BY <1>4, GradeMarked, UsedIds
  <2>2. a # NoAnswer => Copied(a, req[p].id, req[p].q, req[p].k)
    BY <1>0, <1>4 DEF GradeMark, At, Quotes
  <2>3. b.text = a.text
    BY <1>0, <2>1 DEF Mark, Request, Answer
  <2>4. a # NoAnswer => Copied(b, req[p].id, req[p].q, req[p].k)
    <3> HIDE DEF a, b
    <3> QED
      BY <2>2, <2>3 DEF Copied
  <2> HIDE DEF a, b
  <2> QED
    BY <2>1, <2>4, TextsKept
<1>5. CASE RegradeMark(p)
  <2> DEFINE a == req[p].held[req[p].q]
             b == [a EXCEPT !.points = req[p].mark,
                            !.via = IF req[p].q = "essay" \/ a.via = "manual" THEN "manual" ELSE "auto"]
  <2>1. /\ req[p].q \in Questions /\ req[p].id \in Ids
        /\ \/ answers' = [answers EXCEPT ![req[p].id][req[p].q] = Append(@, BlankAnswer)]
           \/ a # NoAnswer /\ answers' = [answers EXCEPT ![req[p].id][req[p].q][req[p].k] = b]
    BY <1>5, RegradeMarked, UsedIds
  <2>2. a # NoAnswer => Copied(a, req[p].id, req[p].q, req[p].k)
    BY <1>0, <1>5 DEF RegradeMark, At, Quotes
  <2>3. b.text = a.text
    BY <1>0, <2>1 DEF Request, Answer
  <2>4. a # NoAnswer => Copied(b, req[p].id, req[p].q, req[p].k)
    <3> HIDE DEF a, b
    <3> QED
      BY <2>2, <2>3 DEF Copied
  <2> HIDE DEF a, b
  <2> QED
    BY <2>1, <2>4, TextsKept
<1> QED
  BY <1>1, <1>2, <1>3, <1>4, <1>5, Writes

\* Grading keeps the text of an answer.
LEMMA GradedText ==
  ASSUME NEW q, NEW a \in Answer
  PROVE  Graded(q, a) # NoAnswer => a # NoAnswer /\ Graded(q, a).text = a.text
BY DEF Graded, Answer

\* A worker's next read quotes the table.
LEMMA QuotesNext ==
  ASSUME Inv, TextInv, NEW p \in Procs, Continue(p), Follows(req[p], req'[p]),
         \A i \in Ids, q \in Questions : TextsStay(i, q) \/ AnswerSave(p)
  PROVE  Quotes(req[p])'
<1>0. /\ req[p] \in Request /\ Agrees(req[p]) /\ Quotes(req[p])
      /\ answers \in [Ids -> [Questions -> Seq(Answer)]]
  BY WorkerState DEF TextInv, Inv, TypeOK, TablesOK
<1>1. CASE req'[p].pc = "answer_save"
  <2>1. AnswerFind(p)
    BY <1>1, Labelled DEF Follows, Edges
  <2>2. req'[p].id = req[p].id /\ req[p].id \in Untaken /\ rows' = rows /\ nrows' = nrows
    BY <1>0, <2>1, AnswerFound DEF AnswerFind, At, Quotes
  <2> QED
    BY <1>1, <2>2 DEF Quotes, Untaken, Used
<1>2. CASE req'[p].pc = "fin_save"
  <2>1. CASE FinalizeList(p)
    <3> DEFINE i == req[p].id
    <3>1. i \in Ids /\ answers' = answers
      BY <1>0, <2>1, UsedIds DEF FinalizeList, At, Agrees, AttemptLabels
    <3>2. /\ req'[p].id = i /\ req'[p].held = GradedAnswers(i)
          /\ req'[p].todo = {q \in Questions : GradedAnswers(i)[q] # NoAnswer}
      BY <2>1, FinalizeListed
    <3>3. ASSUME NEW q \in Questions, GradedAnswers(i)[q] # NoAnswer
          PROVE  Copied(GradedAnswers(i)[q], i, q, 1)
      <4>1. FirstAnswer(i, q) \in Answer /\ GradedAnswers(i)[q] = Graded(q, FirstAnswer(i, q))
        BY <3>1, FirstAnswerType DEF GradedAnswers
      <4>2. FirstAnswer(i, q) # NoAnswer /\ GradedAnswers(i)[q].text = FirstAnswer(i, q).text
        BY <3>3, <4>1, GradedText
      <4> QED
        BY <3>1, <4>2, FirstCopied DEF Copied
    <3> HIDE DEF i
    <3> QED
      BY <1>2, <3>1, <3>2, <3>3 DEF Quotes, Copied
  <2>2. CASE FinalizeSave(p)
    <3>1. req[p].pc = "fin_save" /\ ~AnswerSave(p)
      BY <2>2 DEF FinalizeSave, AnswerSave, At
    <3>2. /\ req'[p].id = req[p].id /\ req'[p].held = req[p].held
          /\ req'[p].todo \subseteq req[p].todo
      BY <2>2, FinalizeSaved
    <3>3. req[p].id \in Ids /\ req[p].todo \subseteq Questions
      BY <1>0, <3>1, UsedIds DEF Agrees, AttemptLabels, Request
    <3>4. \A q \in req[p].todo : Copied(req[p].held[q], req[p].id, q, 1)
      BY <1>0, <3>1 DEF Quotes
    <3>5. \A q \in req[p].todo : Copied(req[p].held[q], req[p].id, q, 1)'
      <4> SUFFICES ASSUME NEW q \in req[p].todo
                   PROVE  1 \in DOMAIN answers'[req[p].id][q] /\ answers'[req[p].id][q][1].text = req'[p].held[q].text
        BY <3>2 DEF Copied
      <4> QED
        BY <3>1, <3>2, <3>3, <3>4 DEF TextsStay, Copied
    <3> QED
      BY <1>2, <3>2, <3>5 DEF Quotes, Copied
  <2> QED
    BY <1>2, <2>1, <2>2, ToFinSave
<1>3. CASE req'[p].pc = "grade_mark"
  <2>1. GradeList(p) \/ GradeMark(p)
    BY <1>3, Labelled DEF Follows, Edges
  <2>2. CASE GradeList(p)
    <3>1. req[p].id \in Ids /\ answers' = answers
      BY <1>0, <2>2, UsedIds DEF GradeList, At, Agrees, GradeLabels, Copy
    <3>2. req'[p].q \in Questions
      <4>1. Inv'
        BY ContinueStep
      <4>2. Agrees(req[p])'
        BY <4>1 DEF Inv
      <4> QED
        BY <1>3, <4>2 DEF Agrees, QuestionLabels
    <3>3. req'[p].id = req[p].id /\ req'[p].k = 1 /\ req'[p].held[req'[p].q] = FirstAnswer(req[p].id, req'[p].q)
      BY <2>2, <3>2, GradeListed DEF Firsts
    <3>4. FirstAnswer(req[p].id, req'[p].q) = NoAnswer \/ Copied(FirstAnswer(req[p].id, req'[p].q), req[p].id, req'[p].q, 1)
      BY <3>1, <3>2, FirstCopied
    <3> QED
      BY <1>3, <3>1, <3>3, <3>4 DEF Quotes, Copied
  <2>3. CASE GradeMark(p)
    <3> DEFINE i == req[p].id
               q == req[p].q
    <3>1. /\ q \in Questions /\ i \in Ids /\ req'[p].id = i /\ req'[p].q = q
          /\ req'[p].k = Len(answers[i][q]) + 1 /\ req'[p].held = [req[p].held EXCEPT ![q] = BlankAnswer]
          /\ answers' = [answers EXCEPT ![i][q] = Append(@, BlankAnswer)]
      BY <1>3, <2>3, GradeMarked, UsedIds
    <3>2. req'[p].held[q] = BlankAnswer
      BY <1>0, <3>1 DEF Request
    <3>3. answers'[i][q] = Append(answers[i][q], BlankAnswer) /\ answers[i][q] \in Seq(Answer)
      BY <1>0, <3>1
    <3>4. Len(answers[i][q]) + 1 \in DOMAIN answers'[i][q] /\ answers'[i][q][Len(answers[i][q]) + 1] = BlankAnswer
      BY <3>3, AppendedLast, NoneTypes
    <3> HIDE DEF i, q
    <3> QED
      BY <1>3, <3>1, <3>2, <3>4 DEF Quotes, Copied
  <2> QED
    BY <2>1, <2>2, <2>3
<1>4. CASE req'[p].pc = "regrade_mark"
  <2>1. RegradeFind(p) \/ RegradeMark(p)
    BY <1>4, Labelled DEF Follows, Edges
  <2>2. CASE RegradeFind(p)
    <3>1. /\ req'[p].q = req[p].q /\ req'[p].k = 1 /\ req'[p].id \in Ids
          /\ req'[p].held[req[p].q] = FirstAnswer(req'[p].id, req[p].q) /\ answers' = answers
      BY <1>4, <2>2, RegradeFound DEF RegradeFind
    <3>2. req[p].q \in Questions
      BY <1>0, <2>2 DEF RegradeFind, At, Agrees, QuestionLabels
    <3>3. FirstAnswer(req'[p].id, req[p].q) = NoAnswer \/ Copied(FirstAnswer(req'[p].id, req[p].q), req'[p].id, req[p].q, 1)
      BY <3>1, <3>2, FirstCopied
    <3> QED
      BY <1>4, <3>1, <3>3 DEF Quotes, Copied
  <2>3. CASE RegradeMark(p)
    <3> DEFINE i == req[p].id
               q == req[p].q
    <3>1. /\ q \in Questions /\ i \in Ids /\ req'[p].id = i /\ req'[p].q = q
          /\ req'[p].k = Len(answers[i][q]) + 1 /\ req'[p].held = [req[p].held EXCEPT ![q] = BlankAnswer]
          /\ answers' = [answers EXCEPT ![i][q] = Append(@, BlankAnswer)]
      BY <1>4, <2>3, RegradeMarked, UsedIds
    <3>2. req'[p].held[q] = BlankAnswer
      BY <1>0, <3>1 DEF Request
    <3>3. answers'[i][q] = Append(answers[i][q], BlankAnswer) /\ answers[i][q] \in Seq(Answer)
      BY <1>0, <3>1
    <3>4. Len(answers[i][q]) + 1 \in DOMAIN answers'[i][q] /\ answers'[i][q][Len(answers[i][q]) + 1] = BlankAnswer
      BY <3>3, AppendedLast, NoneTypes
    <3> HIDE DEF i, q
    <3> QED
      BY <1>4, <3>1, <3>2, <3>4 DEF Quotes, Copied
  <2> QED
    BY <2>1, <2>2, <2>3
<1>5. req'[p].pc # "answer_find"
  BY DEF Follows, Edges
<1> QED
  BY <1>1, <1>2, <1>3, <1>4, <1>5 DEF Quotes

\* Every step keeps what workers quote in the table.
LEMMA TextStep ==
  ASSUME Apart("answer", TurnIns), Inv, Serving, TextInv, [Next]_vars
  PROVE  TextInv'
<1>1. CASE Outside
  <2>1. rows' = rows /\ nrows' = nrows /\ answers' = answers /\ Untaken' = Untaken
    BY <1>1 DEF Outside, Untaken, Used
  <2>2. \A o \in Procs : req'[o] = req[o] => Quotes(req[o])'
    BY <2>1 DEF TextInv, Quotes, Copied
  <2>3. \A o \in Procs : req'[o] = Idle => Quotes(req[o])'
    BY DEF Quotes, Idle
  <2>4. \A o \in Procs : Enters(o) => Quotes(req[o])'
    BY <2>1 DEF Enters, Entered, Entries, Quotes
  <2> QED
    BY <1>1, <2>2, <2>3, <2>4 DEF Outside, TextInv, Enters, Alone
<1>2. ASSUME NEW p \in Procs, Continue(p), NEW o \in Procs
      PROVE  Quotes(req[o])'
  <2>1. Alone(p) /\ (req'[p] = Idle \/ Follows(req[p], req'[p]))
    BY <1>2, Walks DEF Inv
  <2>2. CASE o # p
    <3>1. req'[o] = req[o] /\ Quotes(req[o]) /\ req[o] \in Request /\ Agrees(req[o])
      BY <2>1, <2>2, WorkerState DEF Alone, TextInv
    <3>2. ASSUME req[o].pc \in {"answer_find", "answer_save"} PROVE req[o].id \in Untaken'
      <4>1. req[o].id \in Untaken /\ req[o].id \in Used /\ "answer" \in Ops[o]
        BY <3>1, <3>2, UsedIds DEF Quotes, Serving, Tasks
      <4>2. ~FinalizeIfInProgress(p)
        BY <2>2, <4>1 DEF FinalizeIfInProgress, At, Serving, Tasks, Apart
      <4>3. rows'[req[o].id].state = "untaken"
        BY <1>2, <4>1, <4>2, RowsStay
      <4> QED
        BY <4>1, <4>3, UsedStays DEF Untaken
    <3>3. ASSUME req[o].pc = "fin_save", NEW q \in req[o].todo
          PROVE  1 \in DOMAIN answers'[req[o].id][q] /\ answers'[req[o].id][q][1].text = req[o].held[q].text
      <4>1. req[o].id \in Ids /\ q \in Questions /\ req[o].op \in Ops[o] /\ req[o].op \in TurnIns
        BY <3>1, <3>3, UsedIds DEF Agrees, AttemptLabels, Request, Serving, Tasks
      <4>2. ~AnswerSave(p)
        BY <2>2, <4>1 DEF AnswerSave, At, Serving, Tasks, Apart
      <4>3. TextsStay(req[o].id, q)
        BY <1>2, <4>1, <4>2, OnlyAnswering
      <4> QED
        BY <3>1, <3>3, <4>3 DEF TextsStay, Quotes, Copied
    <3>4. ASSUME req[o].pc \in {"grade_mark", "regrade_mark"}, req[o].held[req[o].q] # NoAnswer
          PROVE  /\ req[o].k \in DOMAIN answers'[req[o].id][req[o].q]
                 /\ answers'[req[o].id][req[o].q][req[o].k].text = req[o].held[req[o].q].text
      <4>1. req[o].id \in Done /\ req[o].id \in Ids /\ req[o].q \in Questions
        BY <3>1, <3>4, UsedIds DEF Agrees, GradeLabels, RegradeLabels, QuestionLabels, Copy
      <4>2. req[o].id \notin Untaken
        BY <4>1 DEF Done, Untaken, Completed
      <4>3. TextsStay(req[o].id, req[o].q)
        BY <1>2, <4>1, <4>2, OnlyAnswering
      <4> QED
        BY <3>1, <3>4, <4>3 DEF TextsStay, Quotes, Copied
    <3> QED
      BY <3>1, <3>2, <3>3, <3>4 DEF Quotes, Copied
  <2>3. CASE o = p /\ req'[p] = Idle
    BY <2>3 DEF Quotes, Idle
  <2>4. CASE o = p /\ Follows(req[p], req'[p])
    <3>1. \A i \in Ids, q \in Questions : TextsStay(i, q) \/ AnswerSave(p)
      BY <1>2, OnlyAnswering
    <3> QED
      BY <1>2, <2>4, <3>1, QuotesNext
  <2> QED
    BY <2>1, <2>2, <2>3, <2>4
<1>3. ASSUME NEW p \in Procs, Continue(p)
      PROVE  TextInv'
  BY <1>2, <1>3 DEF TextInv
<1> QED
  BY <1>1, <1>3, AnyStep

\* Nobody quotes anything at first.
LEMMA InitText == Init => TextInv
BY InitServing DEF TextInv, Quotes, Idle

\* The answers of a turned-in attempt stay the ones the student had saved, if
\* no answer is being saved while the attempt is turned in.
THEOREM TurnedInAnswersStay ==
  ASSUME Apart("answer", TurnIns)
  PROVE  Spec => AnswersFinal
<1> DEFINE Final == \A i \in Done, q \in Questions : \A k \in DOMAIN answers[i][q] :
                      answers'[i][q][k].text = answers[i][q][k].text
<1>1. Inv /\ Serving /\ TextInv /\ [Next]_vars => TextInv'
  BY TextStep
<1>2. ASSUME Inv, TextInv, [Next]_vars PROVE [Final]_vars
  <2>1. CASE Outside
    BY <2>1 DEF Outside
  <2>2. ASSUME NEW p \in Procs, Continue(p), NEW i \in Done, NEW q \in Questions
        PROVE  TextsStay(i, q)
    <3>1. i \in Ids /\ i \notin Untaken
      BY <1>2, UsedIds DEF Done, Untaken, Completed
    <3> QED
      BY <1>2, <2>2, <3>1, OnlyAnswering
  <2> QED
    BY <1>2, <2>1, <2>2, AnyStep DEF TextsStay
<1> QED
  BY Invariance, AlwaysServing, InitText, <1>1, <1>2, PTL DEF Spec, AnswersFinal

-----------------------------------------------------------------------------
\* The can't-go-back lock

\* A prepared attempt is new: nothing locked, no fudge points.
LEMMA StartFound ==
  ASSUME Inv, NEW p \in Procs, StartFind(p), req'[p].pc = "start_create"
  PROVE  req'[p].row.read = {} /\ req'[p].row.fudge = 0
<1> DEFINE r(x) == [req[p] EXCEPT !.pc = "start_create", !.row = x]
<1>1. Goto(p, Idle) \/ \E n, t, e : Goto(p, r(NewAttempt(n, t, e)))
  BY DEF StartFind, Finish
<1>2. Idle.pc = "idle"
  BY DEF Idle
<1>3. \A x : r(x).row = x
  BY WorkerState DEF Request
<1>4. \A n, t, e : NewAttempt(n, t, e).read = {} /\ NewAttempt(n, t, e).fudge = 0
  BY DEF NewAttempt, NoRow
<1>5. \E n, t, e : req'[p] = r(NewAttempt(n, t, e))
  <2> HIDE DEF r
  <2> QED
    BY <1>1, <1>2 DEF Goto, Inv, TypeOK
<1> HIDE DEF r
<1> QED
  BY <1>3, <1>4, <1>5

\* Only an answer save adds answers to an attempt in progress.
LEMMA OnlyAnswers ==
  ASSUME Inv, TextInv, NEW p \in Procs, Continue(p), ~AnswerSave(p),
         NEW i \in Untaken, NEW q \in Questions
  PROVE  DOMAIN answers'[i][q] = DOMAIN answers[i][q]
<1>0. i \in Ids /\ i \notin Done /\ answers \in [Ids -> [Questions -> Seq(Answer)]]
  BY UsedIds DEF Untaken, Done, Completed, Inv, TypeOK, TablesOK
<1>1. CASE UNCHANGED answers
  BY <1>1
<1>2. CASE FinalizeSave(p)
  <2>1. PICK u \in req[p].todo : answers' = [answers EXCEPT ![req[p].id][u][1] = req[p].held[u]]
    BY <1>2 DEF FinalizeSave
  <2>2. CASE i = req[p].id /\ q = u
    <3>1. answers'[i][q] = [answers[i][q] EXCEPT ![1] = req[p].held[u]]
      BY <1>0, <2>1, <2>2
    <3> QED
      BY <3>1
  <2>3. CASE ~(i = req[p].id /\ q = u)
    BY <1>0, <2>1, <2>3
  <2> QED
    BY <2>2, <2>3
<1>3. CASE GradeMark(p) \/ RegradeMark(p)
  <2>1. req[p].id # i
    BY <1>0, <1>3, GradeMarked, RegradeMarked
  <2>2. answers'[i] = answers[i]
    BY <1>0, <1>3, <2>1 DEF GradeMark, RegradeMark
  <2> QED
    BY <2>2
<1> QED
  BY <1>1, <1>2, <1>3, Writes

\* Every step keeps saves away from locked questions, and a quiz that can go back without locks.
LEMMA LockStep ==
  ASSUME Apart("answer", TurnIns \cup {"read"}), Inv, Serving, TextInv, LockInv, [Next]_vars
  PROVE  LockInv'
<1>0. /\ \A i \in Untaken : rows[i].read # {} => CantGoBack
      /\ \A o \in Procs : Unlocked(req[o])
  BY DEF LockInv
<1>1. CASE Outside
  <2>1. rows' = rows /\ nrows' = nrows /\ Untaken' = Untaken
    BY <1>1 DEF Outside, Untaken, Used
  <2>2. \A o \in Procs : req'[o] = req[o] => Unlocked(req[o])'
    BY <1>0, <2>1 DEF Unlocked
  <2>3. \A o \in Procs : req'[o] = Idle => Unlocked(req[o])'
    BY DEF Unlocked, Idle
  <2>4. ASSUME NEW o \in Procs, Enters(o) PROVE Unlocked(req[o])'
    <3>1. CASE req'[o].pc = "answer_find"
      <4>1. req'[o].id \in Untaken /\ ~Locked(rows[req'[o].id], req'[o].q)
        BY <2>4, <3>1 DEF Enters, Entered
      <4> QED
        BY <1>0, <2>1, <3>1, <4>1 DEF Locked, Unlocked
    <3> QED
      BY <2>4, <3>1 DEF Enters, Entered, Entries, Unlocked
  <2> QED
    BY <1>0, <1>1, <2>1, <2>2, <2>3, <2>4 DEF Outside, LockInv, Enters, Alone
<1>2. ASSUME NEW p \in Procs, Continue(p)
      PROVE  LockInv'
  <2>1. Alone(p) /\ (req'[p] = Idle \/ Follows(req[p], req'[p]))
    BY <1>2, Walks DEF Inv
  <2>2. ASSUME NEW i \in Untaken', rows'[i].read # {} PROVE CantGoBack
    <3>1. CASE i \in Used
      <4>1. i \in Untaken
        BY <2>2, <3>1, UsedStays
      <4>2. rows'[i].read = rows[i].read \/ AppendReadQuestion(p)
        BY <1>2, <3>1, <4>1, RowsStay
      <4> QED
        BY <1>0, <2>2, <4>1, <4>2 DEF AppendReadQuestion, At, Unlocked
    <3>2. CASE i \notin Used
      <4>1. nrows' # nrows
        BY <2>2, <3>2 DEF Used, Untaken
      <4>2. StartCreate(p)
        BY <1>2, <4>1, Writes
      <4>3. nrows' = nrows + 1 /\ rows' = [rows EXCEPT ![nrows + 1] = req[p].row] /\ nrows # MaxRows
        BY <4>1, <4>2 DEF StartCreate, InsertRefused
      <4>4. nrows + 1 \in Ids /\ i = nrows + 1
        BY <2>2, <3>2, <4>3, BoundsAssumption DEF Inv, TypeOK, TablesOK, Ids, Used, Untaken
      <4>5. rows'[i] = req[p].row
        BY <4>3, <4>4 DEF Inv, TypeOK, TablesOK
      <4> QED
        BY <1>0, <2>2, <4>2, <4>5 DEF StartCreate, At, Unlocked
    <3> QED
      BY <3>1, <3>2
  <2>3. ASSUME NEW o \in Procs PROVE Unlocked(req[o])'
    <3>0. req[o] \in Request /\ Quotes(req[o]) /\ Unlocked(req[o])
      BY <1>0, WorkerState DEF TextInv
    <3>1. CASE o # p
      <4>1. req'[o] = req[o]
        BY <2>1, <3>1 DEF Alone
      <4>2. ASSUME req[o].pc \in {"answer_find", "answer_save"}
            PROVE  req[o].q \notin rows'[req[o].id].read
        <5>1. req[o].id \in Untaken /\ req[o].id \in Used /\ "answer" \in Ops[o]
          BY <3>0, <4>2, UsedIds DEF Quotes, Serving, Tasks
        <5>2. ~AppendReadQuestion(p)
          BY <3>1, <5>1 DEF AppendReadQuestion, At, Serving, Tasks, Apart
        <5>3. rows'[req[o].id].read = rows[req[o].id].read
          BY <1>2, <5>1, <5>2, RowsStay
        <5> QED
          BY <3>0, <4>2, <5>3 DEF Unlocked
      <4> QED
        BY <3>0, <4>1, <4>2 DEF Unlocked
    <3>2. CASE o = p /\ req'[p] = Idle
      BY <3>2 DEF Unlocked, Idle
    <3>3. CASE o = p /\ Follows(req[p], req'[p])
      <4>1. CASE req'[p].pc = "start_create"
        <5>1. StartFind(p)
          BY <1>2, <3>3, <4>1, Labelled DEF Follows, Edges
        <5> QED
          BY <3>3, <4>1, <5>1, StartFound DEF Unlocked
      <4>2. CASE req'[p].pc = "answer_save"
        <5>1. AnswerFind(p)
          BY <1>2, <3>3, <4>2, Labelled DEF Follows, Edges
        <5>2. req'[p].id = req[p].id /\ req'[p].q = req[p].q /\ rows' = rows /\ req[p].pc = "answer_find"
          BY <5>1, AnswerFound DEF AnswerFind, At
        <5> QED
          BY <3>0, <3>3, <4>2, <5>2 DEF Unlocked
      <4>3. req'[p].pc \notin {"answer_find", "read_append"}
        BY <3>3 DEF Follows, Edges
      <4> QED
        BY <3>3, <4>1, <4>2, <4>3 DEF Unlocked
    <3> QED
      BY <2>1, <3>1, <3>2, <3>3
  <2> QED
    BY <2>2, <2>3 DEF LockInv
<1> QED
  BY <1>1, <1>2, AnyStep

\* The answer to a question the student moved past does not change any more,
\* if no answer is being saved while the student moves on or turns in.
THEOREM PassedAnswersStay ==
  ASSUME Apart("answer", TurnIns \cup {"read"})
  PROVE  Spec => LockedAnswersKept
<1> DEFINE Kept == \A i \in Untaken : \A q \in rows[i].read :
                     AnswerTexts(answers'[i][q]) = AnswerTexts(answers[i][q])
<1>1. Apart("answer", TurnIns)
  BY DEF Apart
<1>2. Inv /\ Serving /\ TextInv /\ [Next]_vars => TextInv'
  BY <1>1, TextStep
<1>3. Inv /\ Serving /\ TextInv /\ LockInv /\ [Next]_vars => LockInv'
  BY LockStep
<1>4. Init => LockInv
  BY InitServing DEF LockInv, Unlocked, Idle
<1>5. ASSUME Inv, TextInv, LockInv, [Next]_vars PROVE [Kept]_vars
  <2>1. CASE Outside
    BY <2>1 DEF Outside
  <2>2. ASSUME NEW p \in Procs, Continue(p), NEW i \in Untaken, NEW q \in rows[i].read
        PROVE  AnswerTexts(answers'[i][q]) = AnswerTexts(answers[i][q])
    <3>1. i \in Ids /\ q \in Questions
      BY <1>5, <2>2, UsedIds DEF Row
    <3>2. CASE AnswerSave(p)
      <4>1. ~(i = req[p].id /\ q = req[p].q)
        BY <1>5, <2>2, <3>2 DEF AnswerSave, At, LockInv, Unlocked
      <4>2. \E s : answers' = [answers EXCEPT ![req[p].id][req[p].q] = s]
        BY <3>2 DEF AnswerSave
      <4>3. answers'[i][q] = answers[i][q]
        BY <1>5, <3>1, <4>1, <4>2 DEF Inv, TypeOK, TablesOK
      <4> QED
        BY <4>3
    <3>3. CASE ~AnswerSave(p)
      <4>1. TextsStay(i, q)
        BY <1>5, <2>2, <3>1, <3>3, OnlyAnswering
      <4>2. DOMAIN answers'[i][q] = DOMAIN answers[i][q]
        BY <1>5, <2>2, <3>1, <3>3, OnlyAnswers
      <4> QED
        BY <4>1, <4>2 DEF TextsStay, AnswerTexts
    <3> QED
      BY <3>2, <3>3
  <2> QED
    BY <1>5, <2>1, <2>2, AnyStep
<1> QED
  BY Invariance, AlwaysServing, InitText, <1>2, <1>3, <1>4, <1>5, PTL DEF Spec, LockedAnswersKept

-----------------------------------------------------------------------------
\* Excusals

\* A push records the excusal it read; the next push reads the row again.
LEMMA GradebookFound ==
  ASSUME Inv, NEW p \in Procs, GradebookFind(p), req'[p].pc = "gb_save"
  PROVE  /\ req'[p].gb = gb /\ req'[p].row = req[p].row /\ req'[p].latest = req[p].latest
         /\ ~closed
<1> DEFINE r == [req[p] EXCEPT !.pc = "gb_save", !.gb = gb]
           f == [req[p] EXCEPT !.pc = "fire"]
<1>1. Goto(p, Idle) \/ Goto(p, f) \/ (~closed /\ Goto(p, r))
  BY DEF GradebookFind, AfterKept
<1>2. Idle.pc = "idle"
  BY DEF Idle
<1>3. f.pc = "fire" /\ r.gb = gb /\ r.row = req[p].row /\ r.latest = req[p].latest
  BY WorkerState DEF Request
<1> HIDE DEF r, f
<1> QED
  BY <1>1, <1>2, <1>3 DEF Goto, Inv, TypeOK

\* What a push writes has the excusal of the row it read.
LEMMA PushKeepsExcusal ==
  ASSUME NEW g \in GradebookRow, NEW a
  PROVE  Pushed(g, a).excused = g.excused
BY DEF Pushed, GradebookRow

\* Every step keeps the excusal a push read the one in the gradebook.
LEMMA ExcusalStep ==
  ASSUME Apart("excuse", Pushers), Inv, Serving, ExcusalInv, [Next]_vars
  PROVE  ExcusalInv'
<1> SUFFICES ASSUME NEW o \in Procs, req'[o].pc = "gb_save"
             PROVE  req'[o].gb.excused = gb'.excused
  BY DEF ExcusalInv
<1>0. Idle.pc = "idle"
  BY DEF Idle
<1>1. CASE Outside
  <2>1. ~Enters(o) /\ req'[o] # Idle
    BY <1>0 DEF Enters, Entered, Entries
  <2>2. req'[o] = req[o] /\ gb' = gb
    BY <1>1, <2>1 DEF Outside, Enters, Alone
  <2> QED
    BY <2>2 DEF ExcusalInv
<1>2. ASSUME NEW p \in Procs, Continue(p)
      PROVE  req'[o].gb.excused = gb'.excused
  <2>1. Alone(p) /\ (req'[p] = Idle \/ Follows(req[p], req'[p]))
    BY <1>2, Walks DEF Inv
  <2>2. CASE o # p
    <3>1. req'[o] = req[o] /\ req[o].pc = "gb_save" /\ req[o].gb.excused = gb.excused
      BY <2>1, <2>2 DEF Alone, ExcusalInv
    <3>2. ~ExcusedSave(p)
      BY <2>2, <3>1 DEF ExcusedSave, At, Serving, Tasks, Apart
    <3>3. CASE GradebookSave(p)
      <4>1. req[p].gb \in GradebookRow /\ req[p].gb.excused = gb.excused
        BY <3>3, WorkerState DEF GradebookSave, At, ExcusalInv, Request
      <4>2. gb' = gb \/ gb' = Pushed(req[p].gb, req[p].row)
        BY <3>3 DEF GradebookSave
      <4> QED
        BY <3>1, <4>1, <4>2, PushKeepsExcusal
    <3> QED
      BY <1>2, <3>1, <3>2, <3>3, Writes
  <2>3. CASE o = p
    <3>1. req[p].pc = "gb_find"
      BY <1>0, <2>1, <2>3 DEF Follows, Edges
    <3>2. GradebookFind(p)
      BY <1>2, <3>1, Labelled
    <3>3. req'[p].gb = gb /\ gb' = gb
      BY <2>3, <3>2, GradebookFound DEF GradebookFind
    <3> QED
      BY <2>3, <3>3
  <2> QED
    BY <2>2, <2>3
<1> QED
  BY <1>1, <1>2, AnyStep

\* A score push never takes an excusal back, if nobody excuses the student while
\* the push is under way.
THEOREM ExcusalStays ==
  ASSUME Apart("excuse", Pushers)
  PROVE  Spec => ExcusalKept
<1> DEFINE Kept == gb.excused /\ (\A p \in Procs : req[p].op # "excuse") => gb'.excused
<1>1. Inv /\ Serving /\ ExcusalInv /\ [Next]_vars => ExcusalInv'
  BY ExcusalStep
<1>2. Init => ExcusalInv
  BY InitServing DEF ExcusalInv, Idle
<1>3. ASSUME Inv, Serving, ExcusalInv, [Next]_vars PROVE [Kept]_vars
  <2>1. CASE Outside
    BY <2>1 DEF Outside
  <2>2. ASSUME NEW p \in Procs, Continue(p) PROVE Kept
    <3>1. CASE UNCHANGED gb
      BY <3>1
    <3>2. CASE GradebookSave(p)
      <4>1. req[p].gb \in GradebookRow /\ req[p].gb.excused = gb.excused
        BY <1>3, <3>2, WorkerState DEF GradebookSave, At, ExcusalInv, Request
      <4>2. gb' = gb \/ gb' = Pushed(req[p].gb, req[p].row)
        BY <3>2 DEF GradebookSave
      <4> QED
        BY <4>1, <4>2, PushKeepsExcusal
    <3>3. CASE ExcusedSave(p)
      BY <1>3, <3>3 DEF ExcusedSave, At, Serving, Tasks
    <3> QED
      BY <2>2, <3>1, <3>2, <3>3, Writes
  <2> QED
    BY <1>3, <2>1, <2>2, AnyStep
<1> QED
  BY Invariance, AlwaysServing, <1>1, <1>2, <1>3, PTL DEF Spec, ExcusalKept

-----------------------------------------------------------------------------
\* The kept score and the gradebook, read and saved

\* After the kept score: the callbacks, or nothing.
LEMMA AfterKeptShape ==
  ASSUME NEW r \in Request
  PROVE  AfterKept(r) = Idle \/ AfterKept(r).pc = "fire"
BY DEF AfterKept, Request

\* After a save of the attempt: the kept scores, or the next attempt of a regrade.
LEMMA AfterSaveShape ==
  ASSUME NEW r \in Request
  PROVE  \/ IsGraded /\ AfterSave(r).pc = "gb_find" /\ AfterSave(r).row = r.row /\ AfterSave(r).latest = r.latest
         \/ ~IsGraded /\ (AfterSave(r) = Idle \/ AfterSave(r).pc = "fire")
<1>1. CASE IsGraded
  BY <1>1 DEF AfterSave, Request
<1>2. CASE ~IsGraded
  BY <1>2, AfterKeptShape DEF AfterSave
<1> QED
  BY <1>1, <1>2

\* Where refreshKeptScore goes: to a save if the latest attempt's kept score is
\* not the policy's, to the gradebook of a graded quiz, or nowhere.
LEMMA KeptFound ==
  ASSUME Inv, NEW p \in Procs, KeptRead(p)
  PROVE  LET s == req'[p]
             i == Latest(Done)
         IN
         \/ /\ s = Idle \/ s.pc = "fire"
            /\ Done = {} \/ (~IsGraded /\ rows[i].kept = KeptScore(Done))
         \/ /\ s.pc = "gb_find" /\ IsGraded /\ Done # {} /\ i \in Done
            /\ s.latest = i /\ s.row = rows[i] /\ rows[i].kept = KeptScore(Done)
         \/ /\ s.pc = "kept_save" /\ Done # {} /\ i \in Done
            /\ s.latest = i /\ s.row = [rows[i] EXCEPT !.kept = KeptScore(Done)]
<1> DEFINE i == Latest(Done)
           kept == KeptScore(Done)
           row == [rows[i] EXCEPT !.kept = kept]
           read == [req[p] EXCEPT !.latest = i, !.row = row]
           save == [read EXCEPT !.pc = "kept_save"]
<1>1. req[p] \in Request
  BY WorkerState
<1>2. \/ Done = {} /\ req'[p] = AfterKept(req[p])
      \/ Done # {} /\ rows[i].kept = kept /\ req'[p] = AfterSave(read)
      \/ Done # {} /\ req'[p] = save
  BY DEF KeptRead, Goto, Inv, TypeOK
<1>3. CASE Done = {}
  BY <1>1, <1>2, <1>3, AfterKeptShape
<1>4. CASE Done # {}
  <2>1. i \in Done
    BY <1>4, LatestIn, UsedIds DEF Row
  <2>2. kept \in Int
    BY <1>4, KeptScoreType, UsedIds DEF Inv, DoneScored, Scored, Row
  <2>3. rows[i] \in Row /\ i \in Ids
    BY <2>1, UsedIds
  <2> HIDE DEF kept, i
  <2>4. row \in Row
    BY <2>2, <2>3 DEF Row
  <2>5. rows[i].kept = kept => row = rows[i]
    BY <2>3 DEF Row
  <2> HIDE DEF row
  <2>6. read \in Request /\ read.row = row /\ read.latest = i
    BY <1>1, <2>3, <2>4, IdRange DEF Request
  <2>7. save.pc = "kept_save" /\ save.row = row /\ save.latest = i
    BY <1>1 DEF Request
  <2> HIDE DEF read, save
  <2> QED
    BY <1>2, <1>4, <2>1, <2>5, <2>6, <2>7, AfterSaveShape DEF kept, i, row
<1> QED
  BY <1>3, <1>4

\* Saving the kept score leads on to the gradebook.
LEMMA KeptSaved ==
  ASSUME Inv, NEW p \in Procs, KeptSave(p)
  PROVE  \/ IsGraded /\ req'[p].pc = "gb_find" /\ req'[p].row = req[p].row /\ req'[p].latest = req[p].latest
         \/ ~IsGraded /\ (req'[p] = Idle \/ req'[p].pc = "fire")
<1>1. req'[p] = AfterSave(req[p]) /\ req[p] \in Request
  BY WorkerState DEF KeptSave, Goto, Inv, TypeOK
<1> QED
  BY <1>1, AfterSaveShape

\* The push writes what it read, with the kept score, and links the attempt.
LEMMA GradebookSaved ==
  ASSUME Inv, NEW p \in Procs, GradebookSave(p)
  PROVE  LET r == req[p]
             s == req'[p]
         IN
         \/ gb' = gb /\ gb.exists /\ ~r.gb.exists /\ (s = Idle \/ s.pc = "fire")
         \/ gb' = Pushed(r.gb, r.row) /\ r.row.linked /\ (s = Idle \/ s.pc = "fire")
         \/ gb' = Pushed(r.gb, r.row) /\ s.pc = "link_save" /\ s.row = r.row /\ s.latest = r.latest
<1> DEFINE link == [req[p] EXCEPT !.pc = "link_save"]
<1>1. req[p] \in Request
  BY WorkerState
<1>2. link.pc = "link_save" /\ link.row = req[p].row /\ link.latest = req[p].latest
  BY <1>1 DEF Request
<1>3. \/ gb' = gb /\ gb.exists /\ ~req[p].gb.exists /\ req'[p] = AfterKept(req[p])
      \/ gb' = Pushed(req[p].gb, req[p].row) /\ req[p].row.linked /\ req'[p] = AfterKept(req[p])
      \/ gb' = Pushed(req[p].gb, req[p].row) /\ req'[p] = link
  BY DEF GradebookSave, Goto, Inv, TypeOK
<1> HIDE DEF link
<1> QED
  BY <1>1, <1>2, <1>3, AfterKeptShape

\* Only a closed grading period stops a push.
LEMMA GradebookOpen ==
  ASSUME Inv, NEW p \in Procs, GradebookFind(p)
  PROVE  req'[p].pc = "gb_save" \/ (closed /\ (req'[p] = Idle \/ req'[p].pc = "fire"))
<1> DEFINE r == [req[p] EXCEPT !.pc = "gb_save", !.gb = gb]
<1>1. req[p] \in Request
  BY WorkerState
<1>2. req'[p] = r \/ (closed /\ req'[p] = AfterKept(req[p]))
  BY DEF GradebookFind, Goto, Inv, TypeOK
<1>3. r.pc = "gb_save"
  BY <1>1 DEF Request
<1> HIDE DEF r
<1> QED
  BY <1>1, <1>2, <1>3, AfterKeptShape

\* A rescored copy is scored by the answers it was rescored from.
LEMMA RescoredBy ==
  ASSUME NEW c \in Row, NEW g \in [Questions -> Answer],
         g["essay"].via = "absent" <=> g["essay"] = NoAnswer
  PROVE  ScoredBy(Rescored(c, g), g)
<1> DEFINE score == IF QuizType = "graded_survey" /\ SurveyPoints # Nil
                    THEN SurveyPoints ELSE PointsTotal(g, c.fudge)
           state == IF ~IsSurvey /\ g["essay"].via \in {"none", "auto"}
                    THEN "pending_review" ELSE "complete"
           row == [c EXCEPT !.score = score, !.state = state]
<1>1. Rescored(c, g) = row
  BY DEF Rescored
<1>2. g["essay"].via \in {"absent", "none", "auto", "manual"}
  BY DEF Questions, Answer
<1>3. state = "pending_review" <=> ~IsSurvey /\ g["essay"] # NoAnswer /\ g["essay"].via # "manual"
  BY <1>2
<1>4. PointsTotal(g, c.fudge) = Sum(g) + c.fudge
  BY DEF PointsTotal, Sum
<1>5. score = IF QuizType = "graded_survey" /\ SurveyPoints # Nil THEN SurveyPoints ELSE Sum(g) + c.fudge
  BY <1>4
<1> HIDE DEF score, state
<1>6. row.score = score /\ row.state = state /\ row.fudge = c.fudge
  BY DEF Row
<1> HIDE DEF row
<1> QED
  BY <1>1, <1>3, <1>5, <1>6 DEF ScoredBy

\* The graded answers of an attempt nobody graded score it.
LEMMA GradedBy ==
  ASSUME NEW g \in [Questions -> Answer], NEW h \in [Questions -> Answer], NEW a,
         \A q \in Questions : g[q] = Graded(q, h[q]) /\ h[q].via # "manual"
                              /\ (h[q].via = "absent" <=> h[q] = NoAnswer),
         a.score = IF IsSurvey THEN SurveyScore ELSE Sum(g), a.fudge = 0,
         a.state = IF ~IsSurvey /\ g["essay"] # NoAnswer THEN "pending_review" ELSE "complete"
  PROVE  /\ ScoredBy(a, g)
         /\ \A q \in Questions : g[q].via # "manual" /\ (g[q].via = "absent" <=> g[q] = NoAnswer)
         /\ \A q \in Questions : g[q] = NoAnswer <=> h[q] = NoAnswer
<1>1. ASSUME NEW q \in Questions
      PROVE  /\ g[q].via # "manual" /\ (g[q].via = "absent" <=> g[q] = NoAnswer)
             /\ g[q] = NoAnswer <=> h[q] = NoAnswer
             /\ IsSurvey => Points(g[q]) = 0
  <2>1. h[q] \in Answer /\ NoAnswer.via = "absent" /\ NoAnswer.points = Nil
    BY DEF NoAnswer
  <2>2. CASE h[q] = NoAnswer
    BY <2>1, <2>2 DEF Graded, Points
  <2>3. CASE h[q] # NoAnswer
    <3> DEFINE b == Graded(q, h[q])
    <3>1. b.via \in {"auto", h[q].via} /\ (IsSurvey => b.points = 0)
      BY <2>1, <2>3 DEF Graded, Answer
    <3>2. b.via # "manual" /\ b.via # "absent"
      BY <2>3, <3>1
    <3>3. b = g[q]
      OBVIOUS
    <3> HIDE DEF b
    <3> QED
      BY <2>1, <2>3, <3>1, <3>2, <3>3 DEF Points
  <2> QED
    BY <2>2, <2>3
<1>2. IsSurvey => Sum(g) = 0
  BY <1>1 DEF Sum, Questions
<1>3. Sum(g) \in Int
  <2>1. g["auto"] \in Answer /\ g["essay"] \in Answer
    BY DEF Questions
  <2>2. Points(g["auto"]) \in Int /\ Points(g["essay"]) \in Int
    BY <2>1, GradedType
  <2> QED
    BY <2>2 DEF Sum
<1>4. a.score = IF QuizType = "graded_survey" /\ SurveyPoints # Nil THEN SurveyPoints ELSE Sum(g) + a.fudge
  BY <1>2, <1>3 DEF IsSurvey, SurveyScore
<1>5. g["essay"].via # "manual"
  BY <1>1 DEF Questions
<1> QED
  BY <1>1, <1>4, <1>5 DEF ScoredBy

-----------------------------------------------------------------------------
\* Scores

\* A rescored row read back for its save.
LEMMA RegradeListed ==
  ASSUME Inv, NEW p \in Procs, RegradeList(p)
  PROVE  /\ req'[p].id = req[p].id /\ req'[p].pc = "regrade_save"
         /\ req'[p].touched = req[p].touched
         /\ \E c \in Row : req'[p].row = Rescored(c, Firsts(req[p].id))
<1> DEFINE c == [req[p].row EXCEPT !.before = IF @ = Nil THEN req[p].row.score ELSE @]
           row == Rescored(c, Firsts(req[p].id))
           r == [req[p] EXCEPT !.pc = "regrade_save", !.row = row]
<1>1. req[p] \in Request /\ req[p].row \in Row
  BY WorkerState DEF Request
<1>2. c \in Row
  BY <1>1 DEF Row
<1>3. req'[p] = r
  BY DEF RegradeList, Firsts, Goto, Inv, TypeOK
<1> HIDE DEF c, row
<1>4. r.id = req[p].id /\ r.pc = "regrade_save" /\ r.row = row /\ r.touched = req[p].touched
  BY <1>1 DEF Request
<1> HIDE DEF r
<1> QED
  BY <1>2, <1>3, <1>4 DEF row

\* What a worker's copies must not be wrong about after an unscored step.
ScoreSame(a, b) == a.state = b.state /\ a.score = b.score /\ a.fudge = b.fudge

\* Whether a score is right depends on the score's own columns.
LEMMA ScoredSame ==
  ASSUME NEW a, NEW b, NEW g, ScoreSame(a, b), ScoredBy(a, g)
  PROVE  ScoredBy(b, g)
BY DEF ScoreSame, ScoredBy

\* Steps that leave the answers and what scores say as they are.
LEMMA ScoreKept ==
  ASSUME OneWorker, Inv, ScoreInv, NEW p \in Procs,
         UNCHANGED <<answers, nrows>>, \A i \in Used : ScoreSame(rows[i], rows'[i]),
         Grades(req[p])', \A i \in Done : AtAttempt(req[p], i) => AtAttempt(req'[p], i)
  PROVE  ScoreInv'
<1>1. Used' = Used /\ Done' = Done /\ Untaken' = Untaken
  BY DEF Used, Done, Untaken, ScoreSame, Completed
<1>2. Present' /\ Empty'
  BY <1>1 DEF ScoreInv, Present, Empty
<1>3. \A i, q : FirstAnswer(i, q)' = FirstAnswer(i, q)
  BY DEF FirstAnswer
<1>4. \A i : Firsts(i)' = Firsts(i)
  BY <1>3 DEF Firsts
<1>5. ASSUME NEW i \in Untaken PROVE Ungraded(i)'
  <2>1. Ungraded(i) /\ i \in Used
    BY DEF ScoreInv, Untaken
  <2> QED
    BY <1>3, <2>1 DEF Ungraded, ScoreSame
<1>6. ASSUME NEW i \in Done, Marked(i) PROVE Marked(i)'
  <2>1. ScoreSame(rows[i], rows'[i])
    BY DEF Done
  <2> QED
    BY <1>4, <1>6, <2>1, ScoredSame DEF Marked
<1>7. ASSUME NEW i \in Done PROVE Marked(i)' \/ AtAttempt(req'[p], i)
  <2>1. Marked(i) \/ AtAttempt(req[p], i)
    BY DEF ScoreInv, OneWorker
  <2> QED
    BY <1>6, <2>1
<1> QED
  BY <1>1, <1>2, <1>5, <1>7 DEF ScoreInv, OneWorker, AtAttempt

\* Steps that write an answer of one attempt.
LEMMA ScoreAnswered ==
  ASSUME OneWorker, Inv, ScoreInv, NEW p \in Procs, NEW j \in Used,
         UNCHANGED <<rows, nrows>>, \A i \in Ids : i # j => answers'[i] = answers[i],
         \A q \in Questions : \A k \in DOMAIN answers'[j][q] : answers'[j][q][k].via # "absent",
         j \in Untaken => \A q \in Questions : FirstAnswer(j, q)'.via # "manual",
         Grades(req[p])', \A i \in Done : AtAttempt(req[p], i) => i = j,
         j \in Done => AtAttempt(req'[p], j)
  PROVE  ScoreInv'
<1>1. Used' = Used /\ Done' = Done /\ Untaken' = Untaken /\ Used \subseteq Ids
  BY UsedIds DEF Used, Done, Untaken
<1>2. Present' /\ Empty'
  BY <1>1 DEF ScoreInv, Present, Empty
<1>3. \A i \in Ids, q \in Questions : i # j => FirstAnswer(i, q)' = FirstAnswer(i, q)
  BY DEF FirstAnswer
<1>4. \A i \in Ids : i # j => Firsts(i)' = Firsts(i)
  BY <1>3 DEF Firsts
<1>5. ASSUME NEW i \in Untaken PROVE Ungraded(i)'
  <2>1. Ungraded(i) /\ i \in Ids
    BY <1>1, UsedIds DEF ScoreInv
  <2> QED
    BY <1>3, <2>1 DEF Ungraded
<1>6. ASSUME NEW i \in Done PROVE Marked(i)' \/ AtAttempt(req'[p], i)
  <2>1. (Marked(i) \/ AtAttempt(req[p], i)) /\ i \in Ids
    BY UsedIds DEF ScoreInv, OneWorker
  <2> QED
    BY <1>4, <2>1 DEF Marked
<1> QED
  BY <1>1, <1>2, <1>5, <1>6 DEF ScoreInv, OneWorker, AtAttempt

\* Steps that save the score of one attempt.
LEMMA ScoreSaved ==
  ASSUME OneWorker, Inv, ScoreInv, NEW p \in Procs, NEW j \in Used,
         UNCHANGED <<answers, nrows>>, \A i \in Used : i # j => rows'[i] = rows[i],
         Completed(rows'[j]), ScoredBy(rows'[j], Firsts(j)),
         Grades(req[p])', \A i \in Done : AtAttempt(req[p], i) => i = j
  PROVE  ScoreInv'
<1>1. Used' = Used /\ Done' = Done \cup {j} /\ Untaken' \subseteq Untaken \ {j}
  BY DEF Used, Done, Untaken, Completed
<1>2. Present' /\ Empty'
  BY <1>1 DEF ScoreInv, Present, Empty
<1>3. \A i, q : FirstAnswer(i, q)' = FirstAnswer(i, q)
  BY DEF FirstAnswer
<1>4. \A i : Firsts(i)' = Firsts(i)
  BY <1>3 DEF Firsts
<1>5. ASSUME NEW i \in Untaken, i # j PROVE Ungraded(i)'
  <2>1. Ungraded(i) /\ i \in Used
    BY DEF ScoreInv, Untaken
  <2> QED
    BY <1>3, <1>5, <2>1 DEF Ungraded
<1>6. Marked(j)'
  BY <1>4 DEF Marked
<1>7. ASSUME NEW i \in Done, i # j PROVE Marked(i)'
  <2>1. Marked(i) /\ rows'[i] = rows[i]
    BY <1>7 DEF ScoreInv, OneWorker, Done
  <2> QED
    BY <1>4, <2>1 DEF Marked
<1> QED
  BY <1>1, <1>2, <1>5, <1>6, <1>7 DEF ScoreInv, OneWorker

\* Saving an answer row in place of the first, or adding one to none.
LEMMA FirstWritten ==
  ASSUME Inv, Present, NEW j \in Ids, NEW u \in Questions, NEW a \in Answer, a.via # "absent",
         \/ FirstAnswer(j, u) = NoAnswer /\ answers' = [answers EXCEPT ![j][u] = Append(@, a)]
         \/ answers[j][u] # <<>> /\ answers' = [answers EXCEPT ![j][u][1] = a]
  PROVE  /\ \A i \in Ids : i # j => answers'[i] = answers[i]
         /\ \A q \in Questions : q # u => answers'[j][q] = answers[j][q]
         /\ \A q \in Questions : \A k \in DOMAIN answers'[j][q] : answers'[j][q][k].via # "absent"
         /\ FirstAnswer(j, u)' = a
         /\ \A q \in Questions : q # u => FirstAnswer(j, q)' = FirstAnswer(j, q)
         /\ FirstAnswer(j, u) = NoAnswer => Len(answers[j][u]) = 0
<1>0. answers \in [Ids -> [Questions -> Seq(Answer)]] /\ answers[j][u] \in Seq(Answer)
  BY DEF Inv, TypeOK, TablesOK
<1>1. NoAnswer.via = "absent"
  BY DEF NoAnswer
<1>2. answers[j][u] # <<>> => 1 \in DOMAIN answers[j][u]
  BY <1>0
<1>3. FirstAnswer(j, u) = NoAnswer => answers[j][u] = <<>>
  BY <1>1, <1>2 DEF FirstAnswer, Present
<1>4. /\ \A i \in Ids : i # j => answers'[i] = answers[i]
      /\ \A q \in Questions : q # u => answers'[j][q] = answers[j][q]
  BY <1>0
<1>5. \/ answers[j][u] = <<>> /\ answers'[j][u] = Append(answers[j][u], a)
      \/ answers[j][u] # <<>> /\ answers'[j][u] = [answers[j][u] EXCEPT ![1] = a]
  BY <1>0, <1>3
<1>6. /\ answers'[j][u] # <<>> /\ answers'[j][u][1] = a
      /\ \A k \in DOMAIN answers'[j][u] : k = 1 \/ (k \in DOMAIN answers[j][u] /\ answers'[j][u][k] = answers[j][u][k])
  <2>1. CASE answers[j][u] = <<>> /\ answers'[j][u] = Append(answers[j][u], a)
    <3>1. answers'[j][u] = <<a>>
      BY <2>1
    <3> QED
      BY <3>1
  <2>2. CASE answers[j][u] # <<>> /\ answers'[j][u] = [answers[j][u] EXCEPT ![1] = a]
    <3>1. DOMAIN answers'[j][u] = DOMAIN answers[j][u] /\ answers'[j][u][1] = a
      BY <1>2, <2>2
    <3>2. answers'[j][u] # <<>>
      BY <1>2, <2>2, <3>1
    <3> QED
      BY <2>2, <3>1, <3>2
  <2> QED
    BY <1>5, <2>1, <2>2
<1>7. \A q \in Questions : \A k \in DOMAIN answers'[j][q] : answers'[j][q][k].via # "absent"
  BY <1>4, <1>6 DEF Present
<1>8. FirstAnswer(j, u)' = a
  BY <1>6 DEF FirstAnswer
<1>9. \A q \in Questions : q # u => FirstAnswer(j, q)' = FirstAnswer(j, q)
  BY <1>4 DEF FirstAnswer
<1> QED
  BY <1>0, <1>3, <1>4, <1>7, <1>8, <1>9

\* The first answers of an attempt are answers; absent means none.
LEMMA FirstsType ==
  ASSUME Inv, Present, NEW i \in Ids
  PROVE  /\ Firsts(i) \in [Questions -> Answer]
         /\ \A q \in Questions : /\ Firsts(i)[q] = FirstAnswer(i, q)
                                 /\ FirstAnswer(i, q).via = "absent" <=> FirstAnswer(i, q) = NoAnswer
                                 /\ FirstAnswer(i, q) # NoAnswer <=> answers[i][q] # <<>>
<1>1. Firsts(i) \in [Questions -> Answer] /\ \A q \in Questions : Firsts(i)[q] = FirstAnswer(i, q)
  BY FirstAnswerType DEF Firsts
<1>2. ASSUME NEW q \in Questions
      PROVE  /\ FirstAnswer(i, q).via = "absent" <=> FirstAnswer(i, q) = NoAnswer
             /\ FirstAnswer(i, q) # NoAnswer <=> answers[i][q] # <<>>
  <2>1. answers[i][q] \in Seq(Answer) /\ NoAnswer.via = "absent"
    BY DEF Inv, TypeOK, TablesOK, NoAnswer
  <2>2. answers[i][q] # <<>> => 1 \in DOMAIN answers[i][q]
    BY <2>1
  <2> QED
    BY <2>1, <2>2 DEF FirstAnswer, Present
<1> QED
  BY <1>1, <1>2

\* The row writers that leave the scores alone.
LEMMA ScoresStay ==
  ASSUME Inv, ScoreInv, NEW p \in Procs,
         \/ AppendReadQuestion(p) \/ SetEndAt(p) \/ ResultsSeenSave(p)
         \/ KeptSave(p) \/ LinkSave(p)
  PROVE  /\ \A i \in Used : ScoreSame(rows[i], rows'[i])
         /\ KeptSave(p) => rows'[req[p].latest] = req[p].row
         /\ LinkSave(p) => rows' = [rows EXCEPT ![req[p].latest] = [rows[req[p].latest] EXCEPT !.linked = TRUE]]
<1>0. \A i \in Used : i \in Ids /\ rows[i] \in Row /\ rows \in [Ids -> Row]
  BY UsedIds DEF Inv, TypeOK, TablesOK
<1>1. CASE AppendReadQuestion(p)
  BY <1>0, <1>1 DEF AppendReadQuestion, KeptSave, LinkSave, At, ScoreSame, Row
<1>2. CASE SetEndAt(p)
  BY <1>0, <1>2 DEF SetEndAt, KeptSave, LinkSave, At, ScoreSame, Row
<1>3. CASE ResultsSeenSave(p)
  BY <1>0, <1>3 DEF ResultsSeenSave, KeptSave, LinkSave, At, ScoreSame, Row
<1>4. CASE KeptSave(p)
  <2> DEFINE i == req[p].latest
             row == [rows[i] EXCEPT !.kept = req[p].row.kept]
  <2>1. i \in Done /\ i \in Used /\ req[p].row = row /\ req[p].pc = "kept_save"
    BY <1>4, UsedIds DEF KeptSave, At, ScoreInv, Grades
  <2>2. rows' = [rows EXCEPT ![i] = req[p].row]
    BY <1>4 DEF KeptSave
  <2>3. ScoreSame(rows[i], row)
    BY <1>0, <2>1 DEF ScoreSame, Row
  <2> HIDE DEF row, i
  <2> QED
    BY <1>0, <2>1, <2>2, <2>3 DEF ScoreSame, i, LinkSave, At
<1>5. CASE LinkSave(p)
  <2> DEFINE i == req[p].latest
             row == [rows[i] EXCEPT !.linked = TRUE]
  <2>1. req[p].row = rows[i] /\ req[p].pc = "link_save" /\ i \in Used
    BY <1>5, WorkerState, UsedIds DEF LinkSave, At, ScoreInv, Grades, Agrees, KeptLabels, Copy
  <2>2. rows' = [rows EXCEPT ![i] = row]
    BY <1>5, <2>1 DEF LinkSave
  <2>3. ScoreSame(rows[i], row)
    BY <1>0, <2>1 DEF ScoreSame, Row
  <2>4. \A k \in Used : ScoreSame(rows[k], rows'[k])
    <3> HIDE DEF row, i
    <3> QED
      BY <1>0, <2>1, <2>2, <2>3 DEF ScoreSame
  <2> QED
    BY <2>1, <2>2, <2>4 DEF KeptSave, At
<1> QED
  BY <1>1, <1>2, <1>3, <1>4, <1>5

\* No statement but these writes the answers or the score of an attempt.
ScoreWrites(p) ==
  \/ StartCreate(p) \/ AnswerSave(p) \/ FinalizeSave(p) \/ FinalizeIfInProgress(p)
  \/ GradeMark(p) \/ GradeSave(p) \/ RegradeMark(p) \/ RegradeSave(p)

\* A worker that only read holds what it read.
LEMMA GradesRead ==
  ASSUME OneWorker, Inv, ScoreInv, NEW p \in Procs, Continue(p), ~ScoreWrites(p),
         Follows(req[p], req'[p])
  PROVE  /\ Grades(req[p])'
         /\ \A i \in Done : AtAttempt(req[p], i) => AtAttempt(req'[p], i)
<1>0. /\ req[p] \in Request /\ Agrees(req[p]) /\ Grades(req[p]) /\ Present
      /\ \A i \in Untaken : Ungraded(i)
      /\ Untaken \subseteq Ids /\ Done \subseteq Ids /\ Done \subseteq Used
  BY WorkerState, UsedIds DEF ScoreInv
<1>1. CASE StartFind(p)
  <2>1. req'[p].pc = "start_create" /\ req[p].pc = "start_find"
    BY <1>1 DEF StartFind, At, Follows, Edges
  <2>2. req'[p].row.fudge = 0
    BY <1>1, <2>1, StartFound
  <2> QED
    BY <2>1, <2>2 DEF Grades, AtAttempt
<1>2. CASE AnswerFind(p)
  <2>1. req'[p].pc = "answer_save" /\ req[p].pc = "answer_find"
    BY <1>2 DEF AnswerFind, At, Follows, Edges
  <2>2. /\ req'[p].id = req[p].id /\ req'[p].q = req[p].q
        /\ req'[p].held[req[p].q] = FirstAnswer(req[p].id, req[p].q)
        /\ rows' = rows /\ nrows' = nrows /\ answers' = answers
    BY <1>2, AnswerFound DEF AnswerFind
  <2> QED
    BY <1>0, <2>1, <2>2 DEF Grades, AtAttempt, Untaken, Used, FirstAnswer
<1>3. CASE JobList(p)
  <2>1. req'[p].pc = "fin_list" /\ req[p].pc = "job_list"
    BY <1>3 DEF JobList, At, Follows, Edges
  <2> DEFINE r(i, x) == [req[p] EXCEPT !.pc = "fin_list", !.id = i, !.row = x]
  <2>2. req'[p] = Idle \/ \E i \in Untaken : \E x : req'[p] = r(i, x)
    BY <1>3 DEF JobList, Overdue, Finish, Goto, Inv, TypeOK
  <2>3. Idle.pc = "idle" /\ \A i, x : r(i, x).id = i
    BY <1>0 DEF Request, Idle
  <2>4. rows' = rows /\ nrows' = nrows
    BY <1>3 DEF JobList
  <2> HIDE DEF r
  <2>5. req'[p].id \in Untaken
    BY <2>1, <2>2, <2>3
  <2> QED
    BY <2>1, <2>4, <2>5 DEF Grades, AtAttempt, Untaken, Used
<1>4. CASE FinalizeList(p)
  <2>0. PICK i \in Ids : i = req[p].id
    BY <1>0, <1>4 DEF FinalizeList, At, Grades
  <2> DEFINE g == GradedAnswers(i)
             h == Firsts(i)
             b == [req'[p].row EXCEPT !.fudge = 0]
  <2>1. req'[p].pc = "fin_save" /\ req[p].pc = "fin_list" /\ i \in Untaken
    BY <1>0, <1>4, <2>0 DEF FinalizeList, At, Follows, Edges, Grades
  <2>2. /\ req'[p].id = i /\ req'[p].held = g
        /\ req'[p].todo = {q \in Questions : g[q] # NoAnswer}
        /\ req'[p].row.score = IF IsSurvey THEN SurveyScore ELSE Sum(g)
        /\ req'[p].row.state = IF ~IsSurvey /\ g["essay"] # NoAnswer THEN "pending_review" ELSE "complete"
    BY <1>4, <2>0, FinalizeListed
  <2>3. req'[p].row \in Row
    <3>1. Inv'
      BY ContinueStep
    <3> QED
      BY <3>1 DEF Inv, TypeOK, Request
  <2>4. b.fudge = 0 /\ b.score = req'[p].row.score /\ b.state = req'[p].row.state
    BY <2>3 DEF Row
  <2>5. h \in [Questions -> Answer] /\ \A q \in Questions : h[q] = FirstAnswer(i, q)
                /\ (h[q].via = "absent" <=> h[q] = NoAnswer) /\ (h[q] # NoAnswer <=> answers[i][q] # <<>>)
    BY <1>0, <2>1, FirstsType
  <2>6. g \in [Questions -> Answer] /\ \A q \in Questions : g[q] = Graded(q, h[q])
    BY <2>5, GradedType DEF GradedAnswers
  <2>7. \A q \in Questions : h[q].via # "manual"
    BY <1>0, <2>1, <2>5 DEF Ungraded
  <2> HIDE DEF g, h, b
  <2>8. /\ ScoredBy(b, g)
        /\ \A q \in Questions : g[q].via # "manual" /\ (g[q].via = "absent" <=> g[q] = NoAnswer)
        /\ \A q \in Questions : g[q] = NoAnswer <=> h[q] = NoAnswer
    BY <2>2, <2>4, <2>5, <2>6, <2>7, GradedBy
  <2>9. rows' = rows /\ nrows' = nrows /\ answers' = answers
    BY <1>4 DEF FinalizeList
  <2>10. ScoredBy([req'[p].row EXCEPT !.fudge = 0], req'[p].held)
    BY <2>2, <2>8 DEF b
  <2>11. \A q \in Questions : IF q \in req'[p].todo THEN answers[i][q] # <<>> /\ req'[p].held[q] # NoAnswer
                              ELSE req'[p].held[q] = FirstAnswer(i, q)
    BY <2>2, <2>5, <2>8
  <2>12. i \in Untaken'
    BY <2>1, <2>9 DEF Untaken, Used
  <2>13. \A q \in Questions : FirstAnswer(i, q)' = FirstAnswer(i, q) /\ answers'[i][q] = answers[i][q]
    BY <2>9 DEF FirstAnswer
  <2>14. ScoredBy([req[p].row EXCEPT !.fudge = 0], req[p].held)'
    BY <2>10 DEF ScoredBy, Sum, Points
  <2>15. \A q \in Questions : IF q \in req'[p].todo THEN answers'[req'[p].id][q] # <<>> /\ req'[p].held[q] # NoAnswer
                              ELSE req'[p].held[q] = FirstAnswer(req[p].id, q)'
    BY <2>2, <2>11, <2>13 DEF FirstAnswer
  <2>16. \A q \in Questions : req'[p].held[q].via # "manual" /\ (req'[p].held[q].via = "absent" <=> req'[p].held[q] = NoAnswer)
    BY <2>2, <2>8
  <2>17. (req[p].id \in Untaken)'
    BY <2>2, <2>12
  <2> QED
    BY <2>1, <2>14, <2>15, <2>16, <2>17 DEF Grades, AtAttempt
<1>5. CASE GradeList(p)
  <2>1. req'[p].pc \in {"grade_mark", "grade_save"} /\ req[p].pc = "grade_list"
    BY <1>5 DEF GradeList, At, Follows, Edges
  <2>2. req'[p].id = req[p].id /\ req'[p].k = 1 /\ req'[p].held = Firsts(req[p].id) /\ answers' = answers
    BY <1>5, GradeListed DEF GradeList
  <2> QED
    BY <2>1, <2>2 DEF Grades, AtAttempt, Firsts, FirstAnswer
<1>6. CASE RegradeFind(p)
  <2>1. req[p].pc = "regrade_find" /\ req'[p].pc \in {"kept_read", "regrade_find", "regrade_mark"}
    BY <1>6 DEF RegradeFind, At, Follows, Edges
  <2>2. CASE req'[p].pc = "regrade_mark"
    <3>1. /\ req'[p].q = req[p].q /\ req'[p].k = 1 /\ answers' = answers
          /\ req'[p].held[req[p].q] = FirstAnswer(req'[p].id, req[p].q)
      BY <1>6, <2>2, RegradeFound DEF RegradeFind
    <3> QED
      BY <2>1, <2>2, <3>1 DEF Grades, AtAttempt, FirstAnswer
  <2> QED
    BY <2>1, <2>2 DEF Grades, AtAttempt
<1>7. CASE RegradeList(p)
  <2>0. PICK i \in Ids : i = req[p].id
    BY <1>0, <1>7 DEF RegradeList, At, Agrees, RegradeLabels, Copy
  <2>1. req[p].pc = "regrade_list"
    BY <1>0, <1>7 DEF RegradeList, At, Agrees, RegradeLabels, Copy
  <2>2. PICK c \in Row : req'[p].row = Rescored(c, Firsts(i)) /\ req'[p].id = i /\ req'[p].pc = "regrade_save"
    BY <1>7, <2>0, RegradeListed
  <2>3. ScoredBy(req'[p].row, Firsts(i))
    <3>1. /\ Firsts(i) \in [Questions -> Answer]
          /\ Firsts(i)["essay"].via = "absent" <=> Firsts(i)["essay"] = NoAnswer
      BY <1>0, <2>1, FirstsType DEF Questions
    <3> QED
      BY <2>2, <3>1, RescoredBy
  <2>4. answers' = answers
    BY <1>7 DEF RegradeList
  <2>5. Firsts(req[p].id)' = Firsts(i)
    BY <2>2, <2>4 DEF Firsts, FirstAnswer
  <2>6. ScoredBy(req[p].row, Firsts(req[p].id))'
    BY <2>3, <2>5 DEF ScoredBy, Sum, Points
  <2> QED
    BY <2>0, <2>1, <2>2, <2>6 DEF Grades, AtAttempt
<1>8. CASE KeptRead(p)
  <2>1. req[p].pc = "kept_read" /\ rows' = rows /\ nrows' = nrows
    BY <1>8 DEF KeptRead, At
  <2>2. Idle.pc = "idle" /\ Done' = Done
    BY <2>1 DEF Idle, Done, Used
  <2>3. CASE req'[p].pc = "kept_save"
    <3>1. req'[p].latest \in Done /\ req'[p].row = [rows[req'[p].latest] EXCEPT !.kept = KeptScore(Done)]
      BY <1>8, <2>2, <2>3, KeptFound
    <3>2. req'[p].row.kept = KeptScore(Done)
      BY <1>0, <3>1, UsedIds DEF Row
    <3> QED
      BY <2>1, <2>2, <2>3, <3>1, <3>2 DEF Grades, AtAttempt
  <2>4. CASE req'[p].pc # "kept_save"
    <3>1. req'[p].pc \in {"gb_find", "fire"} /\ (req'[p].pc = "gb_find" => req'[p].row = rows[req'[p].latest])
      BY <1>8, <2>2, <2>4, KeptFound DEF Follows, Edges
    <3> QED
      BY <2>1, <3>1 DEF Grades, AtAttempt
  <2> QED
    BY <2>3, <2>4
<1>9. CASE KeptSave(p)
  <2>1. req[p].pc = "kept_save" /\ rows'[req[p].latest] = req[p].row
    BY <1>9, ScoresStay DEF KeptSave, At
  <2>2. /\ req'[p].pc \in {"gb_find", "fire"}
        /\ req'[p].pc = "gb_find" => req'[p].row = req[p].row /\ req'[p].latest = req[p].latest
    BY <1>9, <2>1, KeptSaved DEF Follows, Edges, Idle
  <2> QED
    BY <2>1, <2>2 DEF Grades, AtAttempt
<1>10. CASE GradebookFind(p) \/ GradebookSave(p)
  <2>1. req[p].pc \in {"gb_find", "gb_save"} /\ rows' = rows
    BY <1>10 DEF GradebookFind, GradebookSave, At
  <2>2. req'[p].pc \in {"gb_save", "link_save", "fire"} /\ Idle.pc = "idle"
    BY <2>1 DEF Follows, Edges, Idle
  <2>3. req'[p].pc \in {"gb_save", "link_save"} => req'[p].row = req[p].row
    <3>1. CASE GradebookFind(p)
      <4>1. req[p].pc = "gb_find"
        BY <3>1 DEF GradebookFind, At
      <4>2. req'[p].pc # "link_save"
        BY <4>1 DEF Follows, Edges
      <4> QED
        BY <3>1, <4>2, GradebookFound
    <3>2. CASE GradebookSave(p)
      <4>1. req[p].pc = "gb_save"
        BY <3>2 DEF GradebookSave, At
      <4>2. req'[p].pc # "gb_save"
        BY <4>1 DEF Follows, Edges
      <4> QED
        BY <2>2, <3>2, <4>2, GradebookSaved
    <3> QED
      BY <1>10, <3>1, <3>2
  <2>4. req'[p].pc \in {"gb_save", "link_save"} => req'[p].latest = req[p].latest
    <3>1. CASE GradebookFind(p)
      <4>1. req[p].pc = "gb_find"
        BY <3>1 DEF GradebookFind, At
      <4>2. req'[p].pc # "link_save"
        BY <4>1 DEF Follows, Edges
      <4> QED
        BY <3>1, <4>2, GradebookFound
    <3>2. CASE GradebookSave(p)
      <4>1. req[p].pc = "gb_save"
        BY <3>2 DEF GradebookSave, At
      <4>2. req'[p].pc # "gb_save"
        BY <4>1 DEF Follows, Edges
      <4> QED
        BY <2>2, <3>2, <4>2, GradebookSaved
    <3> QED
      BY <1>10, <3>1, <3>2
  <2> QED
    BY <1>0, <2>1, <2>2, <2>3, <2>4 DEF Grades, AtAttempt
<1>11. CASE /\ req'[p].pc \in {"job_list", "fire", "ext_find", "ext_set", "kept_read"}
            /\ req[p].pc \notin {"regrade_list", "regrade_mark", "regrade_save", "grade_save", "grade_mark"}
  BY <1>11 DEF Grades, AtAttempt
<1>12. req[p].pc \in {"start_find", "answer_find", "job_list", "fin_list", "grade_list", "regrade_find",
                      "regrade_list", "kept_read", "kept_save", "gb_find", "gb_save"} =>
         \/ StartFind(p) \/ AnswerFind(p) \/ JobList(p) \/ FinalizeList(p) \/ GradeList(p) \/ RegradeFind(p)
         \/ RegradeList(p) \/ KeptRead(p) \/ KeptSave(p) \/ GradebookFind(p) \/ GradebookSave(p)
  BY Labelled
<1>13. req[p].pc \notin {"start_create", "answer_save", "fin_save", "grade_mark", "grade_save",
                         "regrade_mark", "regrade_save"}
  BY Labelled DEF ScoreWrites
<1>14. \/ req[p].pc \in {"start_find", "answer_find", "job_list", "fin_list", "grade_list", "regrade_find",
                         "regrade_list", "kept_read", "kept_save", "gb_find", "gb_save"}
       \/ /\ req'[p].pc \in {"job_list", "fire", "ext_find", "ext_set", "kept_read"}
          /\ req[p].pc \notin {"regrade_list", "regrade_mark", "regrade_save", "grade_save", "grade_mark"}
  BY <1>13 DEF Follows, Edges
<1> QED
  BY <1>1, <1>2, <1>3, <1>4, <1>5, <1>6, <1>7, <1>8, <1>9, <1>10, <1>11, <1>12, <1>14

\* Arriving requests hold nothing the scores depend on.
LEMMA ScoreOutside ==
  ASSUME OneWorker, ~Crashes, Inv, ScoreInv, Outside
  PROVE  ScoreInv'
<1>1. UNCHANGED <<rows, nrows, answers>>
  BY DEF Outside
<1>2. CASE req' = req
  <2>1. Used' = Used /\ Done' = Done /\ Untaken' = Untaken
    BY <1>1 DEF Used, Done, Untaken
  <2>2. \A i, q : FirstAnswer(i, q)' = FirstAnswer(i, q)
    BY <1>1 DEF FirstAnswer
  <2>3. \A i : Firsts(i)' = Firsts(i)
    BY <2>2 DEF Firsts
  <2>4. Present' /\ Empty'
    BY <1>1, <2>1 DEF ScoreInv, Present, Empty
  <2>5. \A i \in Untaken : Ungraded(i)'
    BY <1>1, <2>2 DEF ScoreInv, Ungraded
  <2>6. \A i \in Done : Marked(i) => Marked(i)'
    BY <1>1, <2>3 DEF Marked
  <2>7. ASSUME NEW p \in Procs PROVE Grades(req[p])'
    <3>1. Grades(req[p])
      BY DEF ScoreInv
    <3>2. \A q : FirstAnswer(req[p].id, q)' = FirstAnswer(req[p].id, q)
      BY <1>1, <1>2 DEF FirstAnswer
    <3>3. Firsts(req[p].id)' = Firsts(req[p].id)
      BY <3>2 DEF Firsts
    <3>4. ScoredBy([req[p].row EXCEPT !.fudge = 0], req[p].held)' = ScoredBy([req[p].row EXCEPT !.fudge = 0], req[p].held)
      BY <1>2 DEF ScoredBy, Sum, Points
    <3>5. ScoredBy(req[p].row, Firsts(req[p].id))' = ScoredBy(req[p].row, Firsts(req[p].id))
      BY <1>2, <3>3 DEF ScoredBy, Sum, Points
    <3> QED
      BY <1>1, <1>2, <2>1, <3>1, <3>2, <3>3, <3>4, <3>5 DEF Grades
  <2> QED
    BY <1>2, <2>1, <2>4, <2>5, <2>6, <2>7 DEF ScoreInv, AtAttempt
<1>3. ASSUME NEW p \in Procs, Enters(p) PROVE ScoreInv'
  <2>1. \A i \in Done : ~AtAttempt(req[p], i)
    BY <1>3 DEF Enters, AtAttempt, Idle
  <2>2. req'[p].pc \in {"start_find", "answer_find", "read_append", "fin_list", "job_list", "ext_save",
                        "grade_list", "regrade_find", "see_save", "excuse_save"}
    BY <1>3 DEF Enters, Entered, Entries
  <2>3. req'[p].pc \in {"answer_find", "fin_list"} => (req[p].id \in Untaken)'
    BY <1>1, <1>3 DEF Enters, Entered, Untaken, Used
  <2>4. Grades(req[p])'
    BY <2>2, <2>3 DEF Grades
  <2>5. \A i \in Used : ScoreSame(rows[i], rows'[i])
    BY <1>1 DEF ScoreSame
  <2> QED
    BY <1>1, <2>1, <2>4, <2>5, ScoreKept
<1> QED
  BY <1>2, <1>3 DEF Outside

\* Statements that write neither an answer nor a score.
LEMMA ScoreUnwritten ==
  ASSUME OneWorker, Inv, ScoreInv, NEW p \in Procs, Continue(p), ~ScoreWrites(p)
  PROVE  ScoreInv'
<1>1. UNCHANGED <<answers, nrows>>
  BY Writes DEF ScoreWrites
<1>2. \A i \in Used : ScoreSame(rows[i], rows'[i])
  <2>1. CASE UNCHANGED rows
    BY <2>1 DEF ScoreSame
  <2>2. CASE \/ AppendReadQuestion(p) \/ SetEndAt(p) \/ ResultsSeenSave(p)
             \/ KeptSave(p) \/ LinkSave(p)
    BY <2>2, ScoresStay
  <2> QED
    BY <2>1, <2>2, Writes DEF ScoreWrites
<1>3. CASE Follows(req[p], req'[p])
  BY <1>1, <1>2, <1>3, GradesRead, ScoreKept
<1>4. CASE req'[p] = Idle
  <2>1. Idle.pc = "idle"
    BY DEF Idle
  <2>2. Grades(req[p])'
    BY <1>4, <2>1 DEF Grades
  <2>3. req[p].pc \notin {"grade_mark", "grade_save", "regrade_mark", "regrade_save"}
    BY Labelled DEF ScoreWrites
  <2>4. req[p].pc # "regrade_list"
    BY <1>4, <2>1, Labelled, RegradeListed
  <2>5. \A i \in Done : ~AtAttempt(req[p], i)
    BY <2>3, <2>4 DEF AtAttempt
  <2> QED
    BY <1>1, <1>2, <2>2, <2>5, ScoreKept
<1> QED
  BY <1>3, <1>4, Walks DEF Inv

\* A new attempt has no answers and no fudge points.
LEMMA ScoreCreated ==
  ASSUME OneWorker, Inv, ScoreInv, NEW p \in Procs, StartCreate(p)
  PROVE  ScoreInv'
<1>0. /\ req'[p] = Idle /\ Idle.pc = "idle" /\ answers' = answers /\ req[p].pc = "start_create"
      /\ req[p].row.state = "untaken" /\ req[p].row.fudge = 0
  BY WorkerState DEF StartCreate, Finish, Goto, Inv, TypeOK, Idle, At, Agrees, ScoreInv, Grades
<1>1. Grades(req[p])' /\ \A i \in Done : ~AtAttempt(req[p], i)
  BY <1>0 DEF Grades, AtAttempt
<1>2. CASE UNCHANGED <<rows, nrows>>
  <2>1. \A i \in Used : ScoreSame(rows[i], rows'[i])
    BY <1>2 DEF ScoreSame
  <2> QED
    BY <1>0, <1>1, <1>2, <2>1, ScoreKept
<1>3. CASE nrows # MaxRows /\ nrows' = nrows + 1 /\ rows' = [rows EXCEPT ![nrows + 1] = req[p].row]
  <2>0. PICK n \in Ids : n = nrows + 1
    BY <1>3, BoundsAssumption DEF Inv, TypeOK, TablesOK, Ids
  <2>1. n \notin Used /\ Used' = Used \cup {n} /\ Used \subseteq Ids /\ rows \in [Ids -> Row]
    BY <1>3, <2>0, BoundsAssumption, UsedIds DEF Inv, TypeOK, TablesOK, Ids, Used
  <2>2. rows'[n] = req[p].row /\ \A i \in Ids : i # n => rows'[i] = rows[i]
    BY <1>3, <2>0, <2>1
  <2>3. Done' = Done /\ Untaken' = Untaken \cup {n}
    BY <1>0, <2>1, <2>2 DEF Done, Untaken, Completed
  <2>4. Present' /\ Empty'
    BY <1>0, <2>1 DEF ScoreInv, Present, Empty
  <2>5. \A i, q : FirstAnswer(i, q)' = FirstAnswer(i, q)
    BY <1>0 DEF FirstAnswer
  <2>6. \A i : Firsts(i)' = Firsts(i)
    BY <2>5 DEF Firsts
  <2>7. ASSUME NEW i \in Untaken PROVE Ungraded(i)'
    <3>1. Ungraded(i) /\ rows'[i] = rows[i]
      BY <2>1, <2>2, UsedIds DEF ScoreInv
    <3> QED
      BY <2>5, <3>1 DEF Ungraded
  <2>8. Ungraded(n)'
    <3>1. \A q \in Questions : FirstAnswer(n, q) = NoAnswer
      BY <2>1 DEF ScoreInv, Empty, FirstAnswer
    <3>2. NoAnswer.via # "manual"
      BY DEF NoAnswer
    <3> QED
      BY <1>0, <2>2, <2>5, <3>1, <3>2 DEF Ungraded
  <2>9. ASSUME NEW i \in Done PROVE Marked(i)'
    <3>1. Marked(i) /\ rows'[i] = rows[i]
      BY <1>1, <2>1, <2>2, UsedIds DEF ScoreInv, OneWorker
    <3> QED
      BY <2>6, <3>1 DEF Marked
  <2> QED
    BY <1>1, <2>3, <2>4, <2>7, <2>8, <2>9 DEF ScoreInv, OneWorker
<1> QED
  BY <1>2, <1>3 DEF StartCreate, InsertRefused

\* A student's answer has no grader's score.
LEMMA ScoreAnswerSaved ==
  ASSUME OneWorker, Inv, ScoreInv, NEW p \in Procs, AnswerSave(p)
  PROVE  ScoreInv'
<1>1. PICK j \in Ids, u \in Questions : j = req[p].id /\ u = req[p].q
  BY WorkerState, UsedIds DEF AnswerSave, At, Agrees, AttemptLabels, QuestionLabels
<1>2. j \in Untaken /\ j \in Used /\ j \notin Done /\ req[p].held[u] = FirstAnswer(j, u)
  BY <1>1, UsedIds DEF AnswerSave, At, ScoreInv, Grades, Untaken, Done, Completed
<1>3. Ungraded(j) /\ Present /\ \A i \in Done : ~AtAttempt(req[p], i)
  BY <1>2 DEF ScoreInv, AnswerSave, At, AtAttempt
<1>4. req'[p] = Idle /\ Idle.pc = "idle" /\ UNCHANGED <<rows, nrows>>
  BY DEF AnswerSave, Finish, Goto, Inv, TypeOK, Idle
<1>5. Grades(req[p])'
  BY <1>4 DEF Grades
<1> DEFINE blank == [BlankAnswer EXCEPT !.text = req[p].text]
           saved == [FirstAnswer(j, u) EXCEPT !.text = req[p].text, !.points = Nil]
<1>6. /\ blank \in Answer /\ blank.via = "none"
      /\ saved \in Answer /\ saved.via = FirstAnswer(j, u).via
  <2>1. FirstAnswer(j, u) \in Answer /\ req[p].text \in Texts \cup {Nil}
    BY FirstAnswerType, WorkerState DEF Request
  <2> QED
    BY <2>1 DEF Answer, BlankAnswer
<1>7. \/ FirstAnswer(j, u) = NoAnswer /\ answers' = [answers EXCEPT ![j][u] = Append(@, blank)]
      \/ FirstAnswer(j, u) # NoAnswer /\ answers' = [answers EXCEPT ![j][u][1] = saved]
  BY <1>1, <1>2 DEF AnswerSave
<1>8. FirstAnswer(j, u) # NoAnswer => answers[j][u] # <<>> /\ FirstAnswer(j, u).via # "absent"
  BY <1>3, FirstsType
<1> HIDE DEF blank, saved
<1>9. \E a \in Answer : /\ a.via # "absent" /\ a.via # "manual"
        /\ \/ FirstAnswer(j, u) = NoAnswer /\ answers' = [answers EXCEPT ![j][u] = Append(@, a)]
           \/ answers[j][u] # <<>> /\ answers' = [answers EXCEPT ![j][u][1] = a]
  BY <1>3, <1>6, <1>7, <1>8 DEF Ungraded
<1>10. PICK a \in Answer : /\ a.via # "absent" /\ a.via # "manual"
        /\ \/ FirstAnswer(j, u) = NoAnswer /\ answers' = [answers EXCEPT ![j][u] = Append(@, a)]
           \/ answers[j][u] # <<>> /\ answers' = [answers EXCEPT ![j][u][1] = a]
  BY <1>9
<1>11. /\ \A i \in Ids : i # j => answers'[i] = answers[i]
       /\ \A q \in Questions : \A k \in DOMAIN answers'[j][q] : answers'[j][q][k].via # "absent"
       /\ FirstAnswer(j, u)' = a
       /\ \A q \in Questions : q # u => FirstAnswer(j, q)' = FirstAnswer(j, q)
  BY <1>3, <1>10, FirstWritten
<1>12. \A q \in Questions : FirstAnswer(j, q)'.via # "manual"
  BY <1>3, <1>10, <1>11 DEF Ungraded
<1> QED
  BY <1>2, <1>3, <1>4, <1>5, <1>11, <1>12, ScoreAnswered

\* Saving the graded answers one by one.
LEMMA ScoreFinalSave ==
  ASSUME OneWorker, Inv, ScoreInv, NEW p \in Procs, FinalizeSave(p)
  PROVE  ScoreInv'
<1>0. req[p] \in Request /\ req[p].pc = "fin_save" /\ req[p].id \in Untaken /\ Present /\ Grades(req[p])
  BY WorkerState DEF FinalizeSave, At, ScoreInv, Grades
<1>1. PICK j \in Ids : j = req[p].id
  BY <1>0, UsedIds
<1>2. j \in Untaken /\ j \in Used /\ j \notin Done /\ Ungraded(j) /\ \A i \in Done : ~AtAttempt(req[p], i)
  BY <1>0, <1>1, UsedIds DEF ScoreInv, Untaken, Done, Completed, AtAttempt
<1>3. PICK u \in req[p].todo : /\ answers' = [answers EXCEPT ![j][u][1] = req[p].held[u]]
                               /\ req'[p].todo = req[p].todo \ {u}
  BY <1>1, FinalizeSaved
<1>4. req'[p].id = j /\ req'[p].held = req[p].held /\ req'[p].row = req[p].row /\ req'[p].pc = "fin_save"
  BY <1>0, <1>1, FinalizeSaved
<1>5. u \in Questions /\ req[p].held \in [Questions -> Answer] /\ UNCHANGED <<rows, nrows>>
  BY <1>0 DEF Request, FinalizeSave
<1>6. PICK h \in [Questions -> Answer] : h = req[p].held
  BY <1>5
<1>7. /\ \A q \in Questions : IF q \in req[p].todo THEN answers[j][q] # <<>> /\ h[q] # NoAnswer
                                    ELSE h[q] = FirstAnswer(j, q)
      /\ \A q \in Questions : h[q].via # "manual" /\ (h[q].via = "absent" <=> h[q] = NoAnswer)
      /\ ScoredBy([req[p].row EXCEPT !.fudge = 0], h)
  BY <1>0, <1>1, <1>6 DEF Grades
<1>8. h[u] \in Answer /\ h[u].via # "absent" /\ answers[j][u] # <<>>
  BY <1>5, <1>7
<1>9. /\ \A i \in Ids : i # j => answers'[i] = answers[i]
      /\ \A q \in Questions : q # u => answers'[j][q] = answers[j][q]
      /\ \A q \in Questions : \A k \in DOMAIN answers'[j][q] : answers'[j][q][k].via # "absent"
      /\ FirstAnswer(j, u)' = h[u]
      /\ \A q \in Questions : q # u => FirstAnswer(j, q)' = FirstAnswer(j, q)
  <2>0. PICK a \in Answer : a = h[u]
    BY <1>8
  <2>1. answers' = [answers EXCEPT ![j][u][1] = a] /\ a.via # "absent"
    BY <1>3, <1>6, <1>8, <2>0
  <2>2. \/ FirstAnswer(j, u) = NoAnswer /\ answers' = [answers EXCEPT ![j][u] = Append(@, a)]
        \/ answers[j][u] # <<>> /\ answers' = [answers EXCEPT ![j][u][1] = a]
    BY <1>8, <2>1
  <2>3. /\ \A i \in Ids : i # j => answers'[i] = answers[i]
        /\ \A q \in Questions : q # u => answers'[j][q] = answers[j][q]
        /\ \A q \in Questions : \A k \in DOMAIN answers'[j][q] : answers'[j][q][k].via # "absent"
        /\ FirstAnswer(j, u)' = a
        /\ \A q \in Questions : q # u => FirstAnswer(j, q)' = FirstAnswer(j, q)
    <3>1. Present /\ u \in Questions /\ a.via # "absent"
      BY <1>0, <1>5, <2>1
    <3> QED
      BY <2>2, <3>1, FirstWritten
  <2> QED
    BY <2>0, <2>3
<1>10. \A q \in Questions : FirstAnswer(j, q)'.via # "manual"
  BY <1>2, <1>7, <1>9 DEF Ungraded
<1>11. Grades(req[p])'
  <2>1. \A q \in Questions : IF q \in req'[p].todo THEN answers'[j][q] # <<>> /\ h[q] # NoAnswer
                                    ELSE h[q] = FirstAnswer(j, q)'
    BY <1>3, <1>7, <1>9
  <2>2. FirstAnswer(req[p].id, u)' = FirstAnswer(j, u)' /\ \A q : FirstAnswer(req[p].id, q)' = FirstAnswer(j, q)'
    BY <1>4 DEF FirstAnswer
  <2>3. ScoredBy([req[p].row EXCEPT !.fudge = 0], req[p].held)'
    BY <1>4, <1>6, <1>7 DEF ScoredBy, Sum, Points
  <2>4. (req[p].id \in Untaken)'
    BY <1>2, <1>4, <1>5 DEF Untaken, Used
  <2>5. \A q \in Questions : IF q \in req'[p].todo THEN answers'[req'[p].id][q] # <<>> /\ req'[p].held[q] # NoAnswer
                                    ELSE req'[p].held[q] = FirstAnswer(req[p].id, q)'
    BY <1>4, <1>6, <2>1, <2>2
  <2>6. \A q \in Questions : req'[p].held[q].via # "manual" /\ (req'[p].held[q].via = "absent" <=> req'[p].held[q] = NoAnswer)
    BY <1>4, <1>6, <1>7
  <2> QED
    BY <1>4, <2>3, <2>4, <2>5, <2>6 DEF Grades
<1> QED
  BY <1>2, <1>5, <1>9, <1>10, <1>11, ScoreAnswered

\* Turning in records the score of the graded answers.
LEMMA ScoreTurnedIn ==
  ASSUME OneWorker, Inv, ScoreInv, NEW p \in Procs, FinalizeIfInProgress(p)
  PROVE  ScoreInv'
<1>0. /\ req[p] \in Request /\ req[p].pc = "fin_save" /\ req[p].todo = {} /\ req[p].id \in Untaken
      /\ Completed(req[p].row) /\ Grades(req[p])
  BY WorkerState DEF FinalizeIfInProgress, At, ScoreInv, Grades, Agrees
<1>1. PICK j \in Ids : j = req[p].id
  BY <1>0, UsedIds
<1>2. j \in Untaken /\ j \in Used /\ Ungraded(j) /\ \A i \in Done : ~AtAttempt(req[p], i)
  BY <1>0, <1>1, UsedIds DEF ScoreInv, AtAttempt
<1>3. PICK c \in Row, h \in [Questions -> Answer] : c = req[p].row /\ h = req[p].held
  BY <1>0 DEF Request
<1>4. h = Firsts(j) /\ ScoredBy([c EXCEPT !.fudge = 0], h)
  <2>1. \A q \in Questions : h[q] = FirstAnswer(j, q)
    BY <1>0, <1>1, <1>3 DEF Grades
  <2> QED
    BY <1>0, <1>3, <2>1 DEF Grades, Firsts
<1> DEFINE row == [rows[j] EXCEPT !.finishedAt = c.finishedAt, !.score = c.score, !.kept = c.kept, !.state = c.state]
           r == [req[p] EXCEPT !.pc = "kept_read"]
<1>5. rows' = [rows EXCEPT ![j] = row] /\ req'[p] = r /\ UNCHANGED <<answers, nrows>>
  BY <1>1, <1>2, <1>3 DEF FinalizeIfInProgress, InProgress, Goto, Inv, TypeOK
<1>6. rows[j] \in Row /\ rows \in [Ids -> Row]
  BY DEF Inv, TypeOK, TablesOK
<1>7. row.state = c.state /\ row.score = c.score /\ row.fudge = rows[j].fudge
  BY <1>6 DEF Row
<1>8. [c EXCEPT !.fudge = 0].state = c.state /\ [c EXCEPT !.fudge = 0].score = c.score /\ [c EXCEPT !.fudge = 0].fudge = 0
  BY <1>3 DEF Row
<1>9. r.pc = "kept_read"
  BY <1>0 DEF Request
<1> HIDE DEF row, r
<1>10. ScoredBy(row, Firsts(j)) /\ Completed(row)
  <2>1. ScoreSame([c EXCEPT !.fudge = 0], row)
    BY <1>2, <1>7, <1>8 DEF ScoreSame, Ungraded
  <2> QED
    BY <1>0, <1>3, <1>4, <1>7, <2>1, ScoredSame DEF Completed
<1>11. rows'[j] = row /\ \A i \in Used : i # j => rows'[i] = rows[i]
  BY <1>5, <1>6, UsedIds
<1>12. Grades(req[p])'
  BY <1>5, <1>9 DEF Grades
<1> QED
  BY <1>2, <1>5, <1>10, <1>11, <1>12, ScoreSaved

\* What a grader's mark does to an answer.
LEMMA MarkType ==
  ASSUME NEW r \in Request, NEW a \in Answer, a.via # "absent"
  PROVE  Mark(r, a) \in Answer /\ Mark(r, a).via # "absent"
BY DEF Mark, Answer, Request

\* A grader's mark is part of what the grader saves next.
LEMMA ScoreMarked ==
  ASSUME OneWorker, Inv, ScoreInv, NEW p \in Procs, GradeMark(p)
  PROVE  ScoreInv'
<1>0. /\ req[p] \in Request /\ req[p].pc = "grade_mark" /\ req[p].k = 1 /\ req[p].held = Firsts(req[p].id)
      /\ req[p].q \in Questions /\ req[p].id \in Done /\ Present
  BY WorkerState, GradeMarked DEF GradeMark, At, ScoreInv, Grades
<1>1. PICK j \in Ids, u \in Questions : j = req[p].id /\ u = req[p].q
  BY <1>0, UsedIds
<1>2. j \in Done /\ j \in Used /\ j \notin Untaken /\ \A i \in Done : AtAttempt(req[p], i) => i = j
  BY <1>0, <1>1, UsedIds DEF Done, Untaken, Completed, AtAttempt
<1>3. PICK h \in [Questions -> Answer] : h = req[p].held
  BY <1>0 DEF Request
<1>4. h = Firsts(j) /\ UNCHANGED <<rows, nrows>> /\ req'[p].id = j
  BY <1>0, <1>1, <1>3, GradeMarked DEF GradeMark
<1>5. \A q \in Questions : h[q] = FirstAnswer(j, q) /\ (h[q].via = "absent" <=> h[q] = NoAnswer)
                           /\ (h[q] # NoAnswer <=> answers[j][q] # <<>>)
  BY <1>0, <1>4, FirstsType
<1> DEFINE m == Mark(req[p], h[u])
<1>6. BlankAnswer \in Answer /\ BlankAnswer.via = "none"
  BY DEF BlankAnswer, Answer
<1>7. h[u] # NoAnswer => m \in Answer /\ m.via # "absent"
  BY <1>0, <1>5, MarkType
<1>8. \/ /\ h[u] = NoAnswer /\ req'[p].pc = "grade_mark" /\ req'[p].k = Len(answers[j][u]) + 1
         /\ req'[p].held = [h EXCEPT ![u] = BlankAnswer]
         /\ answers' = [answers EXCEPT ![j][u] = Append(@, BlankAnswer)]
      \/ /\ h[u] # NoAnswer /\ req'[p].pc = "grade_save"
         /\ req'[p].held = [h EXCEPT ![u] = m]
         /\ answers' = [answers EXCEPT ![j][u][1] = m]
  BY <1>0, <1>1, <1>3, GradeMarked
<1> HIDE DEF m
<1>9. \E a \in Answer :
        /\ a.via # "absent" /\ req'[p].held = [h EXCEPT ![u] = a]
        /\ \/ req'[p].pc = "grade_save"
           \/ req'[p].pc = "grade_mark" /\ h[u] = NoAnswer /\ req'[p].k = Len(answers[j][u]) + 1
        /\ \/ FirstAnswer(j, u) = NoAnswer /\ answers' = [answers EXCEPT ![j][u] = Append(@, a)]
           \/ answers[j][u] # <<>> /\ answers' = [answers EXCEPT ![j][u][1] = a]
  BY <1>5, <1>6, <1>7, <1>8
<1>10. PICK a \in Answer :
        /\ a.via # "absent" /\ req'[p].held = [h EXCEPT ![u] = a]
        /\ \/ req'[p].pc = "grade_save"
           \/ req'[p].pc = "grade_mark" /\ h[u] = NoAnswer /\ req'[p].k = Len(answers[j][u]) + 1
        /\ \/ FirstAnswer(j, u) = NoAnswer /\ answers' = [answers EXCEPT ![j][u] = Append(@, a)]
           \/ answers[j][u] # <<>> /\ answers' = [answers EXCEPT ![j][u][1] = a]
  BY <1>9
<1>11. /\ \A i \in Ids : i # j => answers'[i] = answers[i]
       /\ \A q \in Questions : \A k \in DOMAIN answers'[j][q] : answers'[j][q][k].via # "absent"
       /\ FirstAnswer(j, u)' = a
       /\ \A q \in Questions : q # u => FirstAnswer(j, q)' = FirstAnswer(j, q)
       /\ FirstAnswer(j, u) = NoAnswer => Len(answers[j][u]) = 0
  BY <1>0, <1>10, FirstWritten
<1>12. Grades(req[p])' /\ AtAttempt(req'[p], j)
  <2>1. req'[p].held = Firsts(j)'
    <3>1. \A q \in Questions : [h EXCEPT ![u] = a][q] = FirstAnswer(j, q)'
      BY <1>5, <1>11
    <3>2. [h EXCEPT ![u] = a] = [q \in Questions |-> FirstAnswer(j, q)']
      BY <3>1
    <3> QED
      BY <1>10, <3>2 DEF Firsts
  <2>2. (req[p].held = Firsts(req[p].id))'
    BY <1>4, <2>1 DEF Firsts, FirstAnswer
  <2>3. req'[p].pc = "grade_mark" => req'[p].k = 1
    BY <1>5, <1>10, <1>11
  <2> QED
    BY <1>4, <1>10, <2>2, <2>3 DEF Grades, AtAttempt
<1> QED
  BY <1>2, <1>4, <1>11, <1>12, ScoreAnswered

\* A regraded answer is read again before the attempt is saved.
LEMMA ScoreRemarked ==
  ASSUME OneWorker, Inv, ScoreInv, NEW p \in Procs, RegradeMark(p)
  PROVE  ScoreInv'
<1>0. /\ req[p] \in Request /\ req[p].pc = "regrade_mark" /\ req[p].k = 1
      /\ req[p].held[req[p].q] = FirstAnswer(req[p].id, req[p].q)
      /\ req[p].q \in Questions /\ req[p].id \in Done /\ Present
  BY WorkerState, RegradeMarked DEF RegradeMark, At, ScoreInv, Grades
<1>1. PICK j \in Ids, u \in Questions : j = req[p].id /\ u = req[p].q
  BY <1>0, UsedIds
<1>2. j \in Done /\ j \in Used /\ j \notin Untaken /\ \A i \in Done : AtAttempt(req[p], i) => i = j
  BY <1>0, <1>1, UsedIds DEF Done, Untaken, Completed, AtAttempt
<1>3. PICK h \in [Questions -> Answer] : h = req[p].held
  BY <1>0 DEF Request
<1>4. PICK f \in Answer : f = h[u]
  OBVIOUS
<1>5. /\ f = FirstAnswer(j, u) /\ (f.via = "absent" <=> f = NoAnswer) /\ (f # NoAnswer <=> answers[j][u] # <<>>)
      /\ UNCHANGED <<rows, nrows>> /\ req'[p].id = j /\ req'[p].q = u
  <2>1. f = FirstAnswer(j, u)
    BY <1>0, <1>1, <1>3, <1>4
  <2>2. (f.via = "absent" <=> f = NoAnswer) /\ (f # NoAnswer <=> answers[j][u] # <<>>)
    BY <1>0, <2>1, FirstsType
  <2>3. UNCHANGED <<rows, nrows>>
    BY DEF RegradeMark
  <2>4. req'[p].id = j /\ req'[p].q = u
    BY <1>1, RegradeMarked
  <2> QED
    BY <2>1, <2>2, <2>3, <2>4
<1> DEFINE m == [req[p].held[req[p].q] EXCEPT !.points = req[p].mark,
                   !.via = IF req[p].q = "essay" \/ req[p].held[req[p].q].via = "manual" THEN "manual" ELSE "auto"]
<1>6. BlankAnswer \in Answer /\ BlankAnswer.via = "none"
  BY DEF BlankAnswer, Answer
<1>7. m \in Answer /\ m.via # "absent"
  <2>1. req[p].held[req[p].q] \in Answer /\ req[p].mark \in Int \cup {Nil}
    BY <1>0 DEF Request
  <2> QED
    BY <2>1 DEF Answer
<1>8. \/ /\ f = NoAnswer /\ req'[p].pc = "regrade_mark" /\ req'[p].k = Len(answers[j][u]) + 1
         /\ req'[p].held = [h EXCEPT ![u] = BlankAnswer]
         /\ answers' = [answers EXCEPT ![j][u] = Append(@, BlankAnswer)]
      \/ /\ f # NoAnswer /\ req'[p].pc = "regrade_list"
         /\ answers' = [answers EXCEPT ![j][u][1] = m]
  <2>0. f = req[p].held[req[p].q]
    BY <1>1, <1>3, <1>4
  <2>1. \/ /\ f = NoAnswer /\ req'[p].pc = "regrade_mark" /\ req'[p].k = Len(answers[req[p].id][req[p].q]) + 1
           /\ req'[p].held = [req[p].held EXCEPT ![req[p].q] = BlankAnswer]
           /\ answers' = [answers EXCEPT ![req[p].id][req[p].q] = Append(@, BlankAnswer)]
        \/ /\ f # NoAnswer /\ req'[p].pc = "regrade_list"
           /\ answers' = [answers EXCEPT ![req[p].id][req[p].q][req[p].k] = m]
    BY <2>0, RegradeMarked
  <2> HIDE DEF m
  <2> QED
    BY <1>0, <1>1, <1>3, <2>1
<1> HIDE DEF m
<1>9. \E a \in Answer :
        /\ a.via # "absent"
        /\ \/ req'[p].pc = "regrade_list"
           \/ req'[p].pc = "regrade_mark" /\ f = NoAnswer /\ req'[p].k = Len(answers[j][u]) + 1 /\ req'[p].held[u] = a
        /\ \/ FirstAnswer(j, u) = NoAnswer /\ answers' = [answers EXCEPT ![j][u] = Append(@, a)]
           \/ answers[j][u] # <<>> /\ answers' = [answers EXCEPT ![j][u][1] = a]
  BY <1>5, <1>6, <1>7, <1>8
<1>10. PICK a \in Answer :
        /\ a.via # "absent"
        /\ \/ req'[p].pc = "regrade_list"
           \/ req'[p].pc = "regrade_mark" /\ f = NoAnswer /\ req'[p].k = Len(answers[j][u]) + 1 /\ req'[p].held[u] = a
        /\ \/ FirstAnswer(j, u) = NoAnswer /\ answers' = [answers EXCEPT ![j][u] = Append(@, a)]
           \/ answers[j][u] # <<>> /\ answers' = [answers EXCEPT ![j][u][1] = a]
  BY <1>9
<1>11. /\ \A i \in Ids : i # j => answers'[i] = answers[i]
       /\ \A q \in Questions : \A k \in DOMAIN answers'[j][q] : answers'[j][q][k].via # "absent"
       /\ FirstAnswer(j, u)' = a
       /\ FirstAnswer(j, u) = NoAnswer => Len(answers[j][u]) = 0
  BY <1>0, <1>10, FirstWritten
<1>12. Grades(req[p])' /\ AtAttempt(req'[p], j)
  <2>1. req'[p].pc = "regrade_mark" => (req[p].held[req[p].q] = FirstAnswer(req[p].id, req[p].q))' /\ req'[p].k = 1
    BY <1>5, <1>10, <1>11 DEF FirstAnswer
  <2> QED
    BY <1>5, <1>10, <2>1 DEF Grades, AtAttempt
<1> QED
  BY <1>2, <1>5, <1>11, <1>12, ScoreAnswered

\* The full-row saves of a grade and of a regrade score the attempt.
LEMMA ScoreGraded ==
  ASSUME OneWorker, Inv, ScoreInv, NEW p \in Procs, GradeSave(p) \/ RegradeSave(p)
  PROVE  ScoreInv'
<1>0. req[p] \in Request /\ Agrees(req[p]) /\ Grades(req[p]) /\ req[p].pc \in {"grade_save", "regrade_save"} /\ Present
  BY WorkerState DEF GradeSave, RegradeSave, At, ScoreInv
<1>1. req[p].id \in Done
  BY <1>0 DEF Agrees, GradeLabels, RegradeLabels, Copy
<1>2. PICK j \in Ids : j = req[p].id
  BY <1>1, UsedIds
<1>3. j \in Done /\ j \in Used /\ \A i \in Done : AtAttempt(req[p], i) => i = j
  BY <1>1, <1>2, UsedIds DEF AtAttempt
<1>4. \E c : rows' = [rows EXCEPT ![j] = c] /\ ScoredBy(c, Firsts(j))
  <2>1. CASE GradeSave(p)
    <3> DEFINE row == IF req[p].fudge = Nil THEN req[p].row ELSE [req[p].row EXCEPT !.fudge = req[p].fudge]
    <3>1. req[p].held = Firsts(j) /\ rows' = [rows EXCEPT ![j] = Rescored(row, req[p].held)]
      BY <1>0, <1>2, <2>1 DEF GradeSave, At, Grades
    <3>2. row \in Row
      BY <1>0 DEF Request, Row
    <3>3. Firsts(j) \in [Questions -> Answer] /\ (Firsts(j)["essay"].via = "absent" <=> Firsts(j)["essay"] = NoAnswer)
      BY <1>0, FirstsType DEF Questions
    <3> HIDE DEF row
    <3> QED
      BY <3>1, <3>2, <3>3, RescoredBy
  <2>2. CASE RegradeSave(p)
    BY <1>0, <1>2, <2>2 DEF RegradeSave, At, Grades
  <2> QED
    BY <2>1, <2>2
<1>5. PICK c : rows' = [rows EXCEPT ![j] = c] /\ ScoredBy(c, Firsts(j))
  BY <1>4
<1>6. rows'[j] = c /\ \A i \in Used : i # j => rows'[i] = rows[i]
  BY <1>5, UsedIds DEF Inv, TypeOK, TablesOK
<1>7. UNCHANGED <<answers, nrows>>
  BY DEF GradeSave, RegradeSave
<1>8. req'[p].pc \in {"kept_read", "regrade_find"}
  <2>1. [req[p] EXCEPT !.pc = "kept_read"].pc = "kept_read" /\ [req[p] EXCEPT !.pc = "regrade_find", !.touched = TRUE].pc = "regrade_find"
    BY <1>0 DEF Request
  <2> QED
    BY <2>1 DEF GradeSave, RegradeSave, Goto, Inv, TypeOK
<1>9. Grades(req[p])'
  BY <1>8 DEF Grades
<1>10. Completed(rows'[j])
  <2>1. Continue(p)
    BY DEF Continue
  <2>2. [Next]_vars
    BY <2>1 DEF Next
  <2> QED
    BY <1>3, <2>2, UsedStays DEF Done, Used
<1> QED
  BY <1>3, <1>5, <1>6, <1>7, <1>9, <1>10, ScoreSaved

\* Every step of requests served one by one keeps the scores right.
LEMMA ScoreStep ==
  ASSUME OneWorker, ~Crashes, Inv, ScoreInv, [Next]_vars
  PROVE  ScoreInv'
BY AnyStep, ScoreOutside, ScoreUnwritten, ScoreCreated, ScoreAnswerSaved, ScoreFinalSave, ScoreTurnedIn,
   ScoreMarked, ScoreRemarked, ScoreGraded DEF ScoreWrites

\* With no request in progress, a turned-in attempt's score is the points of its
\* first answers plus the fudge points, and it awaits review exactly while an
\* answered essay has no grader's score, if requests are served one by one and
\* none of them dies half way.
THEOREM ScoresMatch ==
  ASSUME OneWorker, ~Crashes
  PROVE  Spec => []ScoreMatchesAnswers
<1>1. Init => ScoreInv
  <2> SUFFICES ASSUME Init PROVE ScoreInv
    OBVIOUS
  <2>1. \A p \in Procs : req[p] = Idle /\ Idle.pc = "idle"
    BY InitServing DEF Idle
  <2>2. Present /\ Empty
    BY DEF Init, Present, Empty
  <2> QED
    BY <2>1, <2>2, InitServing DEF ScoreInv, Grades
<1>2. Inv /\ ScoreInv /\ [Next]_vars => ScoreInv'
  BY ScoreStep
<1>3. ScoreInv => ScoreMatchesAnswers
  <2> SUFFICES ASSUME ScoreInv, Quiet, NEW i \in Done
               PROVE  LET g == [q \in Questions |-> FirstAnswer(i, q)] IN
                      /\ rows[i].score = IF QuizType = "graded_survey" /\ SurveyPoints # Nil THEN SurveyPoints
                                         ELSE Points(g["auto"]) + Points(g["essay"]) + rows[i].fudge
                      /\ rows[i].state = "pending_review" <=>
                           ~IsSurvey /\ g["essay"] # NoAnswer /\ g["essay"].via # "manual"
    BY DEF ScoreMatchesAnswers
  <2>1. Marked(i)
    BY DEF ScoreInv, Quiet, AtAttempt, Idle
  <2> QED
    BY <2>1 DEF Marked, ScoredBy, Sum, Firsts
<1> QED
  BY Invariance, <1>1, <1>2, <1>3, PTL DEF Spec

-----------------------------------------------------------------------------
\* The kept score and the gradebook row

\* What the kept score and the gradebook row are made of.
Alike(a, b) ==
  /\ a.attempt = b.attempt /\ a.state = b.state /\ a.score = b.score
  /\ a.kept = b.kept /\ a.finishedAt = b.finishedAt /\ a.linked = b.linked

LatestIsLast ==
  Done # {} => /\ Latest(Done) \in Done
               /\ \A j \in Done : \/ rows[j].attempt < rows[Latest(Done)].attempt
                                  \/ /\ rows[j].attempt = rows[Latest(Done)].attempt
                                     /\ Latest(Done) <= j
HighestIsTop ==
  Done # {} => /\ Highest(Done) \in {rows[i].score : i \in Done}
               /\ \A j \in Done : rows[j].score <= Highest(Done)

\* What the policies choose among the turned-in attempts.
LEMMA Choices == Inv => LatestIsLast /\ HighestIsTop
<1> SUFFICES ASSUME Inv, Done # {} PROVE LatestIsLast /\ HighestIsTop
  BY DEF LatestIsLast, HighestIsTop
<1>1. Done \in SUBSET Ids /\ \A i \in Done : rows[i].attempt \in Nat /\ rows[i].score \in Int
  BY UsedIds DEF Inv, DoneScored, Scored, Row
<1> QED
  BY <1>1, LatestIn, HighestIn DEF LatestIsLast, HighestIsTop

\* The latest attempt and the kept score are the same after a step that turns
\* nothing in and changes no score.
LEMMA ChoiceStays ==
  ASSUME Inv, Inv', Done # {}, Done' = Done,
         \A i \in Done : rows'[i].attempt = rows[i].attempt /\ rows'[i].score = rows[i].score
  PROVE  Latest(Done)' = Latest(Done) /\ KeptScore(Done)' = KeptScore(Done) /\ Latest(Done) \in Done
<1>1. LatestIsLast /\ HighestIsTop
  BY Choices
<1>2. LatestIsLast' /\ HighestIsTop'
  BY Choices, PTL
<1>3. PICK S \in SUBSET Ids : S = Done
  BY UsedIds
<1>4. PICK a \in [S -> Nat], s \in [S -> Int] : \A i \in S : a[i] = rows[i].attempt /\ s[i] = rows[i].score
  <2>1. \A i \in S : rows[i].attempt \in Nat /\ rows[i].score \in Int
    BY <1>3, UsedIds DEF Inv, DoneScored, Scored, Row
  <2>2. [i \in S |-> rows[i].attempt] \in [S -> Nat] /\ [i \in S |-> rows[i].score] \in [S -> Int]
    BY <2>1
  <2> QED
    BY <2>2
<1>5. Latest(Done)' = Latest(Done) /\ Latest(Done) \in Done
  <2>1. Latest(Done) \in S /\ \A j \in S : \/ a[j] < a[Latest(Done)]
                                           \/ a[j] = a[Latest(Done)] /\ Latest(Done) <= j
    BY <1>1, <1>3, <1>4 DEF LatestIsLast
  <2>2. Latest(Done)' \in S /\ \A j \in S : \/ a[j] < a[Latest(Done)']
                                            \/ a[j] = a[Latest(Done)'] /\ Latest(Done)' <= j
    BY <1>2, <1>3, <1>4 DEF LatestIsLast
  <2>3. \A i, j \in S : a[i] \in Nat /\ i \in Nat
    BY BoundsAssumption DEF Ids
  <2>4. \A x, y \in S : /\ \A j \in S : a[j] < a[x] \/ (a[j] = a[x] /\ x <= j)
                        /\ \A j \in S : a[j] < a[y] \/ (a[j] = a[y] /\ y <= j)
                        => x = y
    <3> SUFFICES ASSUME NEW x \in S, NEW y \in S,
                        a[y] < a[x] \/ (a[y] = a[x] /\ x <= y), a[x] < a[y] \/ (a[x] = a[y] /\ y <= x)
                 PROVE  x = y
      OBVIOUS
    <3> QED
      BY <2>3
  <2> QED
    BY <1>3, <2>1, <2>2, <2>4
<1>6. Highest(Done)' = Highest(Done)
  <2>1. Highest(Done) \in {s[i] : i \in S} /\ \A j \in S : s[j] <= Highest(Done)
    BY <1>1, <1>3, <1>4 DEF HighestIsTop
  <2>2. Highest(Done)' \in {s[i] : i \in S} /\ \A j \in S : s[j] <= Highest(Done)'
    BY <1>2, <1>3, <1>4 DEF HighestIsTop
  <2>3. \A x, y \in {s[i] : i \in S} : (\A j \in S : s[j] <= x) /\ (\A j \in S : s[j] <= y) => x = y
    OBVIOUS
  <2> QED
    BY <2>1, <2>2, <2>3
<1>7. Average(Done)' = Average(Done)
  BY DEF Average
<1> QED
  BY <1>5, <1>6, <1>7 DEF KeptScore

\* A step that changes nothing the kept score and the gradebook row are made of
\* leaves them right if they were, and leaves a worker's view of them.
LEMMA KeptSteady ==
  ASSUME Inv, Inv', Done' = Done, gb' = gb, \A i \in Done : Alike(rows[i], rows'[i])
  PROVE  (KeptNow => KeptNow') /\ (ShownNow => ShownNow')
<1>1. CASE Done = {}
  BY <1>1 DEF KeptNow, ShownNow
<1>2. CASE Done # {}
  <2>1. Latest(Done)' = Latest(Done) /\ KeptScore(Done)' = KeptScore(Done) /\ Latest(Done) \in Done
    BY <1>2, ChoiceStays DEF Alike
  <2>2. Alike(rows[Latest(Done)], rows'[Latest(Done)])
    BY <2>1
  <2>3. rows[Latest(Done)]' = rows'[Latest(Done)]
    BY <2>1
  <2> QED
    BY <1>2, <2>1, <2>2, <2>3 DEF KeptNow, ShownNow, Displayed, Shown, Alike
<1> QED
  BY <1>1, <1>2

\* Requests that arrive, and every statement but a turn-in, a grade, a regrade
\* and their refresh and push, leave the turned-in attempts alike.
LEMMA RowsAlike ==
  ASSUME Inv, NEW p \in Procs, Continue(p),
         ~FinalizeIfInProgress(p), ~KeptSave(p), ~LinkSave(p), ~GradeSave(p), ~RegradeSave(p)
  PROVE  Done' = Done /\ \A i \in Done : Alike(rows[i], rows'[i])
<1>0. \A i \in Done : i \in Ids /\ i \in Used /\ i \notin Untaken /\ rows[i] \in Row /\ rows \in [Ids -> Row]
  BY UsedIds DEF Inv, TypeOK, TablesOK, Done, Untaken, Completed
<1>1. CASE UNCHANGED <<rows, nrows>>
  BY <1>1 DEF Alike, Done, Used
<1>2. CASE StartCreate(p) /\ ~UNCHANGED <<rows, nrows>>
  <2>1. /\ nrows' = nrows + 1 /\ nrows + 1 \in Ids /\ nrows + 1 \notin Used /\ nrows \in Nat
        /\ rows' = [rows EXCEPT ![nrows + 1] = req[p].row]
    BY <1>2, BoundsAssumption DEF StartCreate, InsertRefused, Inv, TypeOK, TablesOK, Ids, Used
  <2>2. req[p].row.state = "untaken"
    BY <1>2, WorkerState DEF StartCreate, At, Agrees
  <2>3. \A i \in Used : rows'[i] = rows[i]
    BY <2>1, UsedIds DEF Inv, TypeOK, TablesOK
  <2>4. rows'[nrows + 1] = req[p].row /\ Used' = Used \cup {nrows + 1}
    BY <2>1 DEF Inv, TypeOK, TablesOK, Used
  <2>5. Done' = Done
    BY <2>2, <2>3, <2>4 DEF Done, Completed
  <2> QED
    BY <1>0, <2>3, <2>5 DEF Alike
<1>3. CASE AppendReadQuestion(p)
  BY <1>0, <1>3 DEF AppendReadQuestion, InProgress, Alike, Done, Used, Row, Completed, Untaken
<1>4. CASE SetEndAt(p)
  BY <1>0, <1>4 DEF SetEndAt, InProgress, Alike, Done, Used, Row, Completed, Untaken
<1>5. CASE ResultsSeenSave(p)
  BY <1>0, <1>5 DEF ResultsSeenSave, Alike, Done, Used, Row, Completed, Untaken
<1> QED
  BY <1>1, <1>2, <1>3, <1>4, <1>5, Writes

\* A regrade that saved an attempt goes on to refresh the kept scores.
LEMMA RegradeGoesOn ==
  ASSUME Inv, NEW p \in Procs, RegradeFind(p), req[p].touched
  PROVE  \/ req'[p].pc = "kept_read"
         \/ req'[p].pc \in {"regrade_find", "regrade_mark"} /\ req'[p].touched
<1> DEFINE left == {i \in Ids : req[p].list[i] # NoRow}
           i == CHOOSE i \in left : \A j \in left : i <= j
           a == FirstAnswer(i, req[p].q)
           points == Repointed(req[p].q, a, req[p].option, req[p].text)
           over == [req[p] EXCEPT !.pc = "kept_read"]
           skipped == [req[p] EXCEPT !.list[i] = NoRow]
           mark == [req[p] EXCEPT !.pc = "regrade_mark", !.id = i, !.row = req[p].list[i],
                                  !.list[i] = NoRow, !.k = 1, !.mark = points,
                                  !.held[req[p].q] = a]
<1>1. req[p] \in Request /\ req[p].pc = "regrade_find"
  BY WorkerState DEF RegradeFind, At
<1>2. Goto(p, over) \/ Goto(p, skipped) \/ Goto(p, mark)
  BY DEF RegradeFind
<1> HIDE DEF i, a, points
<1>3. /\ over.pc = "kept_read" /\ skipped.pc = "regrade_find" /\ skipped.touched = req[p].touched
      /\ mark.pc = "regrade_mark" /\ mark.touched = req[p].touched
  BY <1>1 DEF Request
<1> HIDE DEF over, skipped, mark
<1> QED
  BY <1>2, <1>3 DEF Goto, Inv, TypeOK

\* Recording an attempt in a gradebook row that is not excused.
LEMMA PushedShown ==
  ASSUME NEW g \in GradebookRow, ~g.excused, NEW a \in Row
  PROVE  Pushed(g, a) = Shown(a, a.kept)
<1> DEFINE pending == a.state = "pending_review"
           sent == [g EXCEPT !.exists = TRUE, !.attempt = a.attempt, !.submittedAt = a.finishedAt]
           pushed == [sent EXCEPT !.score = a.kept, !.pending = pending]
           shown == [exists |-> TRUE, attempt |-> a.attempt, submittedAt |-> a.finishedAt,
                     score |-> a.kept, pending |-> pending, excused |-> FALSE]
<1>1. g.excused = FALSE /\ pending \in BOOLEAN /\ a.attempt \in Nat
      /\ a.finishedAt \in Int \cup {Nil} /\ a.kept \in Int \cup {Nil}
  BY DEF GradebookRow, Row
<1>2. Pushed(g, a) = pushed
  BY DEF Pushed, GradebookRow
<1>3. Shown(a, a.kept) = shown
  BY DEF Shown
<1> HIDE DEF pending
<1>4. sent \in GradebookRow /\ sent.exists = TRUE /\ sent.attempt = a.attempt
      /\ sent.submittedAt = a.finishedAt /\ sent.excused = FALSE
  BY <1>1 DEF GradebookRow
<1> HIDE DEF sent
<1>5. /\ pushed \in GradebookRow /\ pushed.score = a.kept /\ pushed.pending = pending
      /\ pushed.exists = TRUE /\ pushed.attempt = a.attempt
      /\ pushed.submittedAt = a.finishedAt /\ pushed.excused = FALSE
  BY <1>1, <1>4 DEF GradebookRow
<1>6. /\ shown \in GradebookRow /\ shown.score = a.kept /\ shown.pending = pending
      /\ shown.exists = TRUE /\ shown.attempt = a.attempt
      /\ shown.submittedAt = a.finishedAt /\ shown.excused = FALSE
  BY <1>1 DEF GradebookRow
<1> HIDE DEF pushed, shown
<1>7. pushed = shown
  BY <1>5, <1>6 DEF GradebookRow
<1> QED
  BY <1>2, <1>3, <1>7

Serial == /\ OneWorker /\ ~Crashes
          /\ \A p \in Procs : Ops[p] \cap {"excuse", "period"} = {}

\* What a request that arrives leaves as it was.
LEMMA KeptOutside ==
  ASSUME Serial, Inv, KeptInv, Outside
  PROVE  KeptInv'
<1>1. UNCHANGED <<rows, nrows, gb, closed>>
  BY DEF Outside, Serial
<1>2. /\ Done' = Done /\ Latest(Done)' = Latest(Done) /\ KeptScore(Done)' = KeptScore(Done)
      /\ KeptNow' = KeptNow /\ ShownNow' = ShownNow /\ Displayed' = Displayed
  <2>1. Done' = Done
    BY <1>1 DEF Done, Used
  <2>2. Latest(Done)' = Latest(Done)
    BY <1>1, <2>1 DEF Latest
  <2>3. Highest(Done)' = Highest(Done)
    BY <1>1, <2>1 DEF Highest
  <2>4. Average(Done)' = Average(Done)
    BY <1>1, <2>1 DEF Average
  <2>5. KeptScore(Done)' = KeptScore(Done)
    BY <1>1, <2>2, <2>3, <2>4 DEF KeptScore
  <2> QED
    BY <1>1, <2>1, <2>2, <2>5 DEF KeptNow, ShownNow, Displayed, Shown
<1>3. CASE req' = req
  <2>1. ASSUME NEW p \in Procs PROVE Keeps(req[p])'
    <3>1. Keeps(req[p]) /\ req'[p] = req[p]
      BY <1>3 DEF KeptInv
    <3>2. (rows[req[p].latest])' = rows[req[p].latest]
      BY <1>1, <3>1
    <3> QED
      BY <1>1, <1>2, <3>1, <3>2 DEF Keeps
  <2> QED
    BY <1>1, <1>2, <1>3, <2>1 DEF KeptInv, Refreshing, Pushing, Touched
<1>4. ASSUME NEW p \in Procs, Enters(p) PROVE KeptInv'
  <2>1. req[p] = Idle /\ Idle.pc = "idle" /\ \A o \in Procs : o = p
    BY <1>4 DEF Enters, Idle, Serial, OneWorker
  <2>2. KeptNow /\ ShownNow
    BY <2>1 DEF KeptInv, Refreshing, Pushing, Touched
  <2>3. req'[p].pc \notin {"kept_save", "gb_find", "gb_save", "link_save"}
    BY <1>4 DEF Enters, Entered, Entries
  <2>4. \A o \in Procs : Keeps(req[o])'
    BY <2>1, <2>3 DEF Keeps
  <2> QED
    BY <1>1, <1>2, <2>2, <2>4 DEF KeptInv
<1> QED
  BY <1>3, <1>4 DEF Outside, Serial

\* A worker that is not refreshing or pushing leaves things as they are, or
\* begins to refresh.
LEMMA KeptElsewhere ==
  ASSUME Serial, Inv, Inv', Serving, KeptInv, NEW p \in Procs, Continue(p),
         req[p].pc \notin {"kept_read", "kept_save", "gb_find", "gb_save", "link_save"}
  PROVE  KeptInv'
<1>0. /\ \A o \in Procs : o = p
      /\ KeptNow \/ Refreshing(req[p])
      /\ ShownNow \/ Pushing(req[p])
      /\ req'[p] = Idle \/ Follows(req[p], req'[p])
      /\ Idle.pc = "idle"
  BY Walks DEF KeptInv, Serial, OneWorker, Idle, Inv
<1>1. gb' = gb /\ closed' = closed
  BY Writes DEF GradebookSave, ExcusedSave, At, Serving, Tasks, Serial
<1>2. \A o \in Procs : Keeps(req[o])'
  <2>1. req'[p].pc \notin {"kept_save", "gb_find", "gb_save", "link_save"}
    BY <1>0 DEF Follows, Edges
  <2> QED
    BY <1>0, <2>1 DEF Keeps
<1>3. CASE Refreshing(req[p])'
  BY <1>1, <1>2, <1>3 DEF KeptInv, Pushing
<1>4. CASE ~Refreshing(req[p])'
  <2>1. ~GradeSave(p)
    <3>1. [req[p] EXCEPT !.pc = "kept_read"].pc = "kept_read"
      BY WorkerState DEF Request
    <3> QED
      BY <1>4, <3>1 DEF GradeSave, Refreshing, Goto, Inv, TypeOK
  <2>2. ~RegradeSave(p)
    <3> DEFINE r == [req[p] EXCEPT !.pc = "regrade_find", !.touched = TRUE]
    <3>1. r.pc = "regrade_find" /\ r.touched
      BY WorkerState DEF Request
    <3> HIDE DEF r
    <3>2. RegradeSave(p) => req'[p] = r
      BY DEF RegradeSave, Goto, Inv, TypeOK, r
    <3> QED
      BY <1>4, <3>1, <3>2 DEF Refreshing, Touched
  <2>3. ~Refreshing(req[p])
    <3>1. CASE req[p].pc = "regrade_find"
      BY <1>4, <3>1, Labelled, RegradeGoesOn DEF Refreshing, Touched
    <3>2. CASE req[p].pc = "regrade_mark"
      BY <1>4, <3>2, Labelled, RegradeMarked DEF Refreshing, Touched
    <3>3. CASE req[p].pc = "regrade_list"
      BY <1>4, <3>3, Labelled, RegradeListed DEF Refreshing, Touched
    <3>4. CASE req[p].pc = "regrade_save"
      <4>1. RegradeSave(p)
        BY <3>4, Labelled
      <4> QED
        BY <2>2, <4>1
    <3> QED
      BY <3>1, <3>2, <3>3, <3>4 DEF Refreshing, Touched
  <2>4. KeptNow /\ ShownNow
    BY <1>0, <2>3 DEF Pushing
  <2>5. CASE FinalizeIfInProgress(p)
    <3>1. req[p].id \in Untaken => Refreshing(req[p])'
      <4>1. [req[p] EXCEPT !.pc = "kept_read"].pc = "kept_read"
        BY WorkerState DEF Request
      <4> QED
        BY <2>5, <4>1 DEF FinalizeIfInProgress, InProgress, Refreshing, Goto, Inv, TypeOK
    <3>2. UNCHANGED <<rows, nrows>>
      BY <1>4, <2>5, <3>1 DEF FinalizeIfInProgress, InProgress
    <3>3. Done' = Done /\ \A i \in Done : Alike(rows[i], rows'[i])
      BY <3>2 DEF Done, Used, Alike
    <3>4. KeptNow' /\ ShownNow'
      BY <1>1, <2>4, <3>3, KeptSteady
    <3> QED
      BY <1>1, <1>2, <3>4 DEF KeptInv
  <2>6. CASE ~FinalizeIfInProgress(p)
    <3>1. ~KeptSave(p) /\ ~LinkSave(p)
      BY DEF KeptSave, LinkSave, At
    <3>2. Done' = Done /\ \A i \in Done : Alike(rows[i], rows'[i])
      BY <2>1, <2>2, <2>6, <3>1, RowsAlike
    <3>3. KeptNow' /\ ShownNow'
      BY <1>1, <2>4, <3>2, KeptSteady
    <3> QED
      BY <1>1, <1>2, <3>3 DEF KeptInv
  <2> QED
    BY <2>5, <2>6
<1> QED
  BY <1>3, <1>4

\* refreshKeptScore reads the turned-in attempts.
LEMMA KeptReadRight ==
  ASSUME Serial, Inv, KeptInv, NEW p \in Procs, KeptRead(p)
  PROVE  KeptInv'
<1>0. UNCHANGED <<rows, nrows, gb, closed>> /\ \A o \in Procs : o = p
  BY DEF KeptRead, Serial, OneWorker
<1>1. /\ Done' = Done /\ Latest(Done)' = Latest(Done) /\ KeptScore(Done)' = KeptScore(Done)
  <2>1. Done' = Done
    BY <1>0 DEF Done, Used
  <2>2. Latest(Done)' = Latest(Done)
    BY <1>0, <2>1 DEF Latest
  <2>3. Highest(Done)' = Highest(Done)
    BY <1>0, <2>1 DEF Highest
  <2>4. Average(Done)' = Average(Done)
    BY <1>0, <2>1 DEF Average
  <2>5. KeptScore(Done)' = KeptScore(Done)
    BY <1>0, <2>2, <2>3, <2>4 DEF KeptScore
  <2> QED
    BY <2>1, <2>2, <2>5
<1>2. Idle.pc = "idle"
  BY DEF Idle
<1>3. PICK i \in Ids \cup {Latest(Done)} : i = Latest(Done)
  OBVIOUS
<1>4. \/ /\ req'[p].pc \in {"idle", "fire"}
         /\ Done = {} \/ (~IsGraded /\ rows[i].kept = KeptScore(Done))
      \/ /\ req'[p].pc = "gb_find" /\ IsGraded
         /\ req'[p].latest = i /\ req'[p].row = rows[i] /\ rows[i].kept = KeptScore(Done)
      \/ /\ req'[p].pc = "kept_save"
         /\ req'[p].latest = i /\ req'[p].row = [rows[i] EXCEPT !.kept = KeptScore(Done)]
  BY <1>2, <1>3, KeptFound
<1>5. rows[i]' = rows[i] /\ (KeptScore(Done) = rows[i].kept => KeptNow')
  BY <1>0, <1>1, <1>3 DEF KeptNow
<1>6. CASE req'[p].pc \in {"idle", "fire"}
  <2>1. KeptNow' /\ ShownNow'
    BY <1>1, <1>4, <1>5, <1>6 DEF KeptNow, ShownNow
  <2>2. \A o \in Procs : Keeps(req[o])'
    BY <1>0, <1>6 DEF Keeps
  <2> QED
    BY <1>0, <2>1, <2>2 DEF KeptInv
<1>7. CASE req'[p].pc = "gb_find"
  <2>1. Keeps(req[p])'
    BY <1>1, <1>3, <1>4, <1>5, <1>7 DEF Keeps
  <2>2. KeptNow' /\ Pushing(req[p])'
    BY <1>4, <1>5, <1>7 DEF Pushing
  <2> QED
    BY <1>0, <2>1, <2>2 DEF KeptInv
<1>8. CASE req'[p].pc = "kept_save"
  <2>1. req'[p].latest = Latest(Done)' /\ req'[p].row = [rows'[i] EXCEPT !.kept = KeptScore(Done)']
    BY <1>1, <1>3, <1>4, <1>5, <1>8
  <2>2. req'[p].latest = i
    BY <1>4, <1>8
  <2>3. Keeps(req[p])'
    BY <1>8, <2>1, <2>2 DEF Keeps
  <2>4. Refreshing(req[p])' /\ Pushing(req[p])'
    BY <1>8 DEF Refreshing, Pushing
  <2> QED
    BY <1>0, <2>3, <2>4 DEF KeptInv
<1> QED
  BY <1>4, <1>6, <1>7, <1>8

\* The latest attempt gets the kept score.
LEMMA KeptSaveRight ==
  ASSUME Serial, Inv, Inv', KeptInv, NEW p \in Procs, KeptSave(p)
  PROVE  KeptInv'
<1>0. UNCHANGED <<nrows, gb, closed>> /\ (\A o \in Procs : o = p) /\ req[p].pc = "kept_save" /\ Idle.pc = "idle"
  BY DEF KeptSave, Serial, OneWorker, At, Idle
<1>1. Keeps(req[p]) /\ Copy(req[p].row, req[p].latest)
  BY <1>0, WorkerState DEF KeptInv, Agrees, KeptLabels
<1>2. PICK i \in Ids : i = Latest(Done) /\ i = req[p].latest /\ i \in Done
  BY <1>0, <1>1, UsedIds DEF Keeps, Copy
<1>3. PICK v : v = KeptScore(Done) /\ req[p].row = [rows[i] EXCEPT !.kept = v]
  BY <1>0, <1>1, <1>2 DEF Keeps
<1> DEFINE row == [rows[i] EXCEPT !.kept = v]
<1>4. /\ row.kept = v /\ row.score = rows[i].score /\ row.attempt = rows[i].attempt /\ row.state = rows[i].state
  BY UsedIds, <1>2 DEF Row
<1>5. rows' = [rows EXCEPT ![i] = row] /\ rows \in [Ids -> Row]
  BY <1>2, <1>3 DEF KeptSave, Inv, TypeOK, TablesOK
<1> HIDE DEF row
<1>6. rows'[i] = row /\ \A k \in Used : k # i => rows'[k] = rows[k]
  BY <1>5, UsedIds
<1>7. Done' = Done /\ \A k \in Done : rows'[k].attempt = rows[k].attempt /\ rows'[k].score = rows[k].score
  BY <1>0, <1>2, <1>4, <1>6, UsedIds DEF Done, Used, Completed
<1>8. Latest(Done)' = i /\ KeptScore(Done)' = v /\ (Done # {})'
  BY <1>2, <1>3, <1>7, ChoiceStays
<1>9. KeptNow'
  BY <1>4, <1>6, <1>8 DEF KeptNow
<1>10. CASE IsGraded /\ req'[p].pc = "gb_find" /\ req'[p].row = req[p].row /\ req'[p].latest = req[p].latest
  <2>1. Keeps(req[p])' /\ Pushing(req[p])'
    BY <1>2, <1>3, <1>6, <1>8, <1>10 DEF Keeps, Pushing, row
  <2> QED
    BY <1>0, <1>9, <2>1 DEF KeptInv
<1>11. CASE ~IsGraded /\ (req'[p] = Idle \/ req'[p].pc = "fire")
  <2>1. Keeps(req[p])' /\ ShownNow'
    BY <1>0, <1>11 DEF Keeps, ShownNow
  <2> QED
    BY <1>0, <1>9, <2>1 DEF KeptInv
<1> QED
  BY <1>10, <1>11, KeptSaved

\* The push reads the gradebook row before it writes it.
LEMMA PushFindRight ==
  ASSUME Serial, Inv, Inv', KeptInv, NEW p \in Procs, GradebookFind(p)
  PROVE  KeptInv'
<1>0. /\ UNCHANGED <<rows, nrows, gb, closed>> /\ (\A o \in Procs : o = p) /\ req[p].pc = "gb_find"
      /\ ~closed /\ Keeps(req[p])
  BY DEF GradebookFind, Serial, OneWorker, At, KeptInv
<1>1. req'[p].pc = "gb_save"
  BY <1>0, GradebookOpen
<1>2. req'[p].gb = gb /\ req'[p].row = req[p].row /\ req'[p].latest = req[p].latest
  BY <1>1, GradebookFound
<1>3. req[p].latest = Latest(Done) /\ req[p].row = rows[req[p].latest] /\ Copy(req[p].row, req[p].latest)
  BY <1>0, WorkerState DEF Keeps, Agrees, KeptLabels
<1>4. Done' = Done /\ (\A i \in Done : Alike(rows[i], rows'[i])) /\ Done # {}
  BY <1>0, <1>3 DEF Done, Used, Alike, Copy
<1>5. KeptNow'
  <2>1. KeptNow
    BY <1>0 DEF KeptInv, Refreshing, Touched
  <2> QED
    BY <1>0, <1>4, <2>1, KeptSteady
<1>6. Latest(Done)' = Latest(Done)
  BY <1>4, ChoiceStays DEF Alike
<1>7. Keeps(req[p])' /\ Pushing(req[p])'
  BY <1>0, <1>1, <1>2, <1>3, <1>6 DEF Keeps, Pushing
<1> QED
  BY <1>0, <1>5, <1>7 DEF KeptInv

\* The push writes the kept score and the attempt it belongs to.
LEMMA PushSaveRight ==
  ASSUME Serial, Inv, Inv', KeptInv, NEW p \in Procs, GradebookSave(p)
  PROVE  KeptInv'
<1>0. /\ UNCHANGED <<rows, nrows, closed>> /\ (\A o \in Procs : o = p) /\ req[p].pc = "gb_save"
      /\ ~closed /\ ~gb.excused /\ Keeps(req[p]) /\ gb \in GradebookRow /\ Idle.pc = "idle"
  BY DEF GradebookSave, Serial, OneWorker, At, KeptInv, Inv, TypeOK, TablesOK, Idle
<1>1. /\ req[p].gb = gb /\ req[p].latest = Latest(Done) /\ req[p].row = rows[req[p].latest]
      /\ Copy(req[p].row, req[p].latest) /\ req[p].row \in Row
  BY <1>0, WorkerState DEF Keeps, Agrees, KeptLabels, Request
<1>2. Done' = Done /\ (\A i \in Done : Alike(rows[i], rows'[i])) /\ Done # {}
  BY <1>0, <1>1 DEF Done, Used, Alike, Copy
<1>3. Latest(Done)' = Latest(Done) /\ KeptScore(Done)' = KeptScore(Done)
  BY <1>2, ChoiceStays DEF Alike
<1>4. rows[Latest(Done)].kept = KeptScore(Done)
  <2>1. KeptNow
    BY <1>0 DEF KeptInv, Refreshing, Touched
  <2> QED
    BY <1>2, <2>1 DEF KeptNow
<1>5. rows[Latest(Done)]' = rows[Latest(Done)]
  BY <1>0, <1>3
<1>6. KeptNow'
  BY <1>3, <1>4, <1>5 DEF KeptNow
<1>7. gb' = Pushed(req[p].gb, req[p].row)
  BY <1>1, GradebookSaved
<1>8. gb' = Shown(rows[Latest(Done)], KeptScore(Done))
  BY <1>0, <1>1, <1>4, <1>7, PushedShown
<1>9. Displayed'
  <2>1. PICK a, v : a = rows[Latest(Done)] /\ v = KeptScore(Done)
    OBVIOUS
  <2>2. gb' = Shown(a, v) /\ (rows[Latest(Done)])' = a /\ KeptScore(Done)' = v
    BY <1>3, <1>5, <1>8, <2>1
  <2> QED
    BY <2>2 DEF Displayed, Shown
<1>10. ~gb'.excused
  BY <1>8 DEF Shown
<1>11. CASE req[p].row.linked /\ (req'[p] = Idle \/ req'[p].pc = "fire")
  <2>1. Keeps(req[p])'
    BY <1>0, <1>11 DEF Keeps
  <2>2. ShownNow'
    BY <1>1, <1>5, <1>9, <1>11 DEF ShownNow
  <2> QED
    BY <1>0, <1>6, <1>10, <2>1, <2>2 DEF KeptInv
<1>12. CASE req'[p].pc = "link_save" /\ req'[p].row = req[p].row /\ req'[p].latest = req[p].latest
  <2>1. Keeps(req[p])' /\ Pushing(req[p])'
    BY <1>0, <1>1, <1>3, <1>9, <1>12 DEF Keeps, Pushing
  <2> QED
    BY <1>0, <1>6, <1>10, <2>1 DEF KeptInv
<1> QED
  BY <1>1, <1>11, <1>12, GradebookSaved

\* The attempt is linked to its gradebook row.
LEMMA LinkRight ==
  ASSUME Serial, Inv, Inv', KeptInv, NEW p \in Procs, LinkSave(p)
  PROVE  KeptInv'
<1>0. /\ UNCHANGED <<nrows, gb, closed>> /\ (\A o \in Procs : o = p) /\ req[p].pc = "link_save"
      /\ req[p] \in Request /\ Idle.pc = "idle" /\ Displayed
  BY WorkerState DEF LinkSave, Serial, OneWorker, At, Idle, KeptInv, Keeps
<1>1. Keeps(req[p]) /\ Copy(req[p].row, req[p].latest)
  BY <1>0, WorkerState DEF KeptInv, Agrees, KeptLabels
<1>2. PICK i \in Ids : i = Latest(Done) /\ i = req[p].latest /\ i \in Done /\ req[p].row = rows[i]
  BY <1>0, <1>1, UsedIds DEF Keeps, Copy
<1> DEFINE row == [rows[i] EXCEPT !.linked = TRUE]
<1>3. /\ row.linked /\ row.kept = rows[i].kept /\ row.score = rows[i].score /\ row.attempt = rows[i].attempt
      /\ row.state = rows[i].state /\ row.finishedAt = rows[i].finishedAt
  BY UsedIds, <1>2 DEF Row
<1>4. rows' = [rows EXCEPT ![i] = row] /\ rows \in [Ids -> Row]
  BY <1>2 DEF LinkSave, Inv, TypeOK, TablesOK
<1> HIDE DEF row
<1>5. rows'[i] = row /\ \A k \in Used : k # i => rows'[k] = rows[k]
  BY <1>4, UsedIds
<1>6. Done' = Done /\ \A k \in Done : rows'[k].attempt = rows[k].attempt /\ rows'[k].score = rows[k].score
  BY <1>0, <1>2, <1>3, <1>5, UsedIds DEF Done, Used, Completed
<1>7. Latest(Done)' = i /\ KeptScore(Done)' = KeptScore(Done) /\ Done # {}
  BY <1>2, <1>6, ChoiceStays
<1>8. rows[i].kept = KeptScore(Done)
  <2>1. KeptNow
    BY <1>0 DEF KeptInv, Refreshing, Touched
  <2> QED
    BY <1>2, <1>7, <2>1 DEF KeptNow
<1>9. (rows[Latest(Done)])' = row
  BY <1>5, <1>7
<1>10. KeptNow'
  BY <1>3, <1>7, <1>8, <1>9 DEF KeptNow
<1>11. Displayed'
  BY <1>0, <1>2, <1>3, <1>7, <1>9 DEF Displayed, Shown
<1>12. ShownNow'
  BY <1>3, <1>9, <1>11 DEF ShownNow
<1>13. Keeps(req[p])'
  <2>1. req'[p] = AfterKept(req[p])
    BY DEF LinkSave, Goto, Inv, TypeOK
  <2>2. req'[p] = Idle \/ req'[p].pc = "fire"
    BY <1>0, <2>1, AfterKeptShape
  <2> QED
    BY <1>0, <2>2 DEF Keeps
<1> QED
  BY <1>0, <1>10, <1>12, <1>13 DEF KeptInv

\* Every step keeps the kept score shown, or a worker on its way to show it.
LEMMA KeptStep ==
  ASSUME Serial, Inv, Inv', Serving, KeptInv, [Next]_vars
  PROVE  KeptInv'
<1>1. ASSUME NEW p \in Procs, Continue(p), req[p].pc \in {"kept_read", "kept_save", "gb_find", "gb_save", "link_save"}
      PROVE  KeptInv'
  <2>1. KeptRead(p) \/ KeptSave(p) \/ GradebookFind(p) \/ GradebookSave(p) \/ LinkSave(p)
    BY <1>1, Labelled
  <2> QED
    BY <2>1, KeptReadRight, KeptSaveRight, PushFindRight, PushSaveRight, LinkRight
<1> QED
  BY <1>1, AnyStep, KeptOutside, KeptElsewhere

\* With no request in progress, the latest turned-in attempt carries the kept
\* score and the gradebook row shows that score, that attempt and its state, if
\* requests are served one by one, none of them dies half way, and nobody
\* excuses the student or closes the grading period.
THEOREM KeptScoresShown ==
  ASSUME Serial
  PROVE  Spec => []KeptScoreShown
<1>1. Init => KeptInv
  <2> SUFFICES ASSUME Init PROVE KeptInv
    OBVIOUS
  <2>1. (\A p \in Procs : req[p] = Idle /\ Idle.pc = "idle") /\ Done = {}
    BY InitServing DEF Idle
  <2>2. ~closed /\ ~gb.excused
    BY DEF Init, NoGradebookRow
  <2> QED
    BY <2>1, <2>2 DEF KeptInv, KeptNow, ShownNow, Keeps
<1>2. Inv /\ Inv' /\ Serving /\ KeptInv /\ [Next]_vars => KeptInv'
  BY KeptStep
<1>3. KeptInv => KeptScoreShown
  <2>1. Quiet => \A p \in Procs : ~Refreshing(req[p]) /\ ~Pushing(req[p])
    BY DEF Quiet, Refreshing, Pushing, Touched, Idle
  <2> QED
    BY <2>1 DEF KeptInv, KeptNow, ShownNow, Displayed, Shown, KeptScoreShown, KeptAgrees, GradebookAgrees
<1> QED
  BY Invariance, AlwaysServing, <1>1, <1>2, <1>3, PTL DEF Spec
=============================================================================
