----------------------------- MODULE QuizAttempts -----------------------------
(***************************************************************************)
(* The quiz attempt engine (internal/service/quiz_*.go over the Postgres   *)
(* repositories), for one quiz and one student.  Rows of two students are  *)
(* never touched by the same statement, so one student is the whole story. *)
(*                                                                         *)
(* Every HTTP request and every scheduler run is a worker that holds, in   *)
(* Go variables, copies of rows it read earlier.  Each action is ONE       *)
(* database statement with the Go code around it; between two statements   *)
(* of a worker any other worker may run.  No transaction spans two         *)
(* statements of these services.  A "full-row save" (gorm Save) writes     *)
(* back the whole copy; the targeted updates are conditional statements.   *)
(***************************************************************************)
EXTENDS Integers, Sequences, FiniteSets

CONSTANTS
  Procs,            \* workers: request goroutines and scheduler runs
  Ops,              \* Ops[p]: the operations worker p may serve
  Nil,              \* SQL NULL / Go nil
  MaxRows,          \* bound: attempt rows in the table
  MaxTime,          \* bound: the clock, in minutes
  MaxEnd,           \* bound: deadlines reachable by repeated extension
  AllowedAttempts,  \* quiz.allowed_attempts, 0 = unlimited
  UnlockAt,         \* the student's effective unlock date, or Nil
  LockAt,           \* the student's effective lock date, or Nil
  TimeLimit,        \* effective time limit in minutes, 0 = none
  CompletionGrace,  \* CompleteSubmission stamps at most this late
  AutoSubmitGrace,  \* quizAutoSubmitGrace
  QuizType,         \* quiz.quiz_type
  Policy,           \* quiz.scoring_policy
  CantGoBack,       \* one question at a time and can't go back
  AutoPoints,       \* points of the auto-graded question, in hundredths
  EssayPoints,      \* points of the essay question, in hundredths
  SurveyPoints,     \* quiz.points_possible, read for graded surveys only
  Texts,            \* answer texts; the key is one of them
  Marks,            \* scores a grader may give
  Fudges,           \* fudge points a grader may give
  ExtInputs,        \* moderation inputs an instructor may send
  Crashes           \* whether a worker's process may die between statements

OpNames == {"start", "answer", "read", "complete", "autosubmit", "extend",
            "grade", "regrade", "see", "editkey", "period", "excuse"}

ASSUME ProcsAssumption == Ops \in [Procs -> SUBSET OpNames]
ASSUME BoundsAssumption == MaxRows \in Nat \ {0} /\ MaxTime \in Nat /\ MaxEnd \in Nat
ASSUME NilAssumption == Nil \notin Int /\ Nil \notin Texts /\ Texts # {}
ASSUME QuizAssumption ==
  /\ AllowedAttempts \in Nat /\ TimeLimit \in Nat
  /\ UnlockAt \in Nat \cup {Nil} /\ LockAt \in Nat \cup {Nil}
  /\ CompletionGrace \in Nat /\ AutoSubmitGrace \in Nat
  /\ QuizType \in {"assignment", "practice_quiz", "graded_survey", "survey"}
  /\ Policy \in {"keep_highest", "keep_latest", "keep_average"}
  /\ CantGoBack \in BOOLEAN /\ Crashes \in BOOLEAN
  /\ AutoPoints \in Nat /\ EssayPoints \in Nat /\ SurveyPoints \in Nat \cup {Nil}
  /\ Marks \subseteq Int /\ Fudges \subseteq Int
ASSUME ExtAssumption ==
  ExtInputs \subseteq [attempts : Nat \cup {Nil}, time : Nat \cup {Nil},
                       unlocked : BOOLEAN \cup {Nil},
                       fromNow : (Nat \ {0}) \cup {Nil}, fromEnd : (Nat \ {0}) \cup {Nil}]

-----------------------------------------------------------------------------
\* Tables

Ids == 1..MaxRows

\* One question the engine grades by itself, one only a grader can score.
Questions == {"auto", "essay"}

States == {"none", "untaken", "pending_review", "complete"}

\* A quiz_submissions row.  time_spent is finishedAt - startedAt; fudge 0 is
\* a NULL fudge_points; read is the can't-go-back lock.
Row == [attempt : Nat, state : States, startedAt : Nat,
        endAt : Int \cup {Nil}, finishedAt : Int \cup {Nil},
        score : Int \cup {Nil}, kept : Int \cup {Nil}, fudge : Int,
        before : Int \cup {Nil}, seen : Int \cup {Nil},
        linked : BOOLEAN, read : SUBSET Questions]

NoRow == [attempt |-> 0, state |-> "none", startedAt |-> 0, endAt |-> Nil,
          finishedAt |-> Nil, score |-> Nil, kept |-> Nil, fudge |-> 0,
          before |-> Nil, seen |-> Nil, linked |-> FALSE, read |-> {}]

\* A quiz_submission_answers row; via is graded_via ("none" is NULL).
Answer == [text : Texts \cup {Nil}, points : Int \cup {Nil},
           via : {"absent", "none", "auto", "manual"}]

NoAnswer == [text |-> Nil, points |-> Nil, via |-> "absent"]
BlankAnswer == [text |-> Nil, points |-> Nil, via |-> "none"]

Extension == [attempts : Nat, time : Nat, unlocked : BOOLEAN]

\* The assignment's submissions row the quiz feeds.
GradebookRow == [exists : BOOLEAN, attempt : Nat, submittedAt : Int \cup {Nil},
                 score : Int \cup {Nil}, pending : BOOLEAN, excused : BOOLEAN]

VARIABLES
  rows,     \* quiz_submissions of the student, by id
  nrows,    \* ids 1..nrows are in use
  answers,  \* answers[i][q]: the answer rows of question q, in id order
  ext,      \* the student's quiz_extensions row
  gb,       \* the gradebook row of the linked assignment
  key,      \* the correct text of the auto-graded question
  closed,   \* whether the assignment's grading period is closed
  now,      \* wall clock
  fired,    \* fired[i]: times the completion callbacks of attempt i were started
  req       \* req[p]: what worker p holds in its Go variables

vars == <<rows, nrows, answers, ext, gb, key, closed, now, fired, req>>

NoExtension == [attempts |-> 0, time |-> 0, unlocked |-> FALSE]
NoGradebookRow == [exists |-> FALSE, attempt |-> 0, submittedAt |-> Nil,
                   score |-> Nil, pending |-> FALSE, excused |-> FALSE]
NoInput == [attempts |-> Nil, time |-> Nil, unlocked |-> Nil,
            fromNow |-> Nil, fromEnd |-> Nil]

Completed(r) == r.state \in {"pending_review", "complete"}
Used == 1..nrows
Untaken == {i \in Used : rows[i].state = "untaken"}
Done == {i \in Used : Completed(rows[i])}

-----------------------------------------------------------------------------
\* Requests

Labels == {"idle", "start_find", "start_create", "answer_find", "answer_save",
           "read_append", "job_list", "fin_list", "fin_save",
           "kept_read", "kept_save", "gb_find", "gb_save", "link_save", "fire",
           "ext_save", "ext_find", "ext_set", "grade_list", "grade_mark",
           "grade_save", "regrade_find", "regrade_mark", "regrade_list",
           "regrade_save", "see_save", "excuse_save"}

\* row is the working copy of one attempt (id its row, latest the row
\* refreshKeptScore saves), list the attempts a regrade read up front, held
\* the first answer row of each question, k the answer row at hand.
Idle == [pc |-> "idle", op |-> "none", id |-> 0, latest |-> 0, row |-> NoRow,
         list |-> [i \in Ids |-> NoRow], q |-> "none", k |-> 0,
         held |-> [q \in Questions |-> NoAnswer], todo |-> {},
         text |-> Nil, mark |-> Nil, fudge |-> Nil, option |-> "none",
         touched |-> FALSE, at |-> 0, ext |-> NoExtension, inp |-> NoInput,
         gb |-> NoGradebookRow]

At(p, label) == req[p].pc = label
Goto(p, r) == req' = [req EXCEPT ![p] = r]
Finish(p) == Goto(p, Idle)

\* A worker takes up operation op, at label, holding what r records.
Begin(p, op, label, r) ==
  /\ req[p] = Idle
  /\ op \in Ops[p]
  /\ Goto(p, [r EXCEPT !.pc = label, !.op = op])

Init ==
  /\ rows = [i \in Ids |-> NoRow]
  /\ nrows = 0
  /\ answers = [i \in Ids |-> [q \in Questions |-> <<>>]]
  /\ ext = NoExtension
  /\ gb = NoGradebookRow
  /\ key \in Texts
  /\ closed = FALSE
  /\ now = 0
  /\ fired = [i \in Ids |-> 0]
  /\ req = [p \in Procs |-> Idle]

-----------------------------------------------------------------------------
\* Starting an attempt (StartSubmission)

\* ORDER BY attempt DESC, then the primary key: the row FindByQuizAndUser and
\* refreshKeptScore take among the ids S.
Latest(S) == CHOOSE i \in S : \A j \in S :
                 \/ rows[j].attempt < rows[i].attempt
                 \/ rows[j].attempt = rows[i].attempt /\ i <= j

Open(e) ==
  ~e.unlocked => /\ UnlockAt # Nil => now >= UnlockAt
                 /\ LockAt # Nil => now <= LockAt

AllowedOffByOne(attempt, e) ==
  AllowedAttempts = 0 \/ attempt - 1 <= AllowedAttempts + e.attempts
Allowed(attempt, e) == AllowedAttempts = 0 \/ attempt <= AllowedAttempts + e.attempts

Deadline(start, e) ==
  LET timed == IF TimeLimit = 0 THEN Nil ELSE start + TimeLimit + e.time IN
  IF LockAt # Nil /\ ~e.unlocked /\ (timed = Nil \/ LockAt < timed)
  THEN LockAt ELSE timed

NewAttemptStateless(attempt, start, e) ==
  [NoRow EXCEPT !.attempt = attempt, !.startedAt = start, !.endAt = Deadline(start, e)]
NewAttempt(attempt, start, e) ==
  [NoRow EXCEPT !.attempt = attempt, !.state = "untaken",
                !.startedAt = start, !.endAt = Deadline(start, e)]

StartSubmission(p) ==
  /\ Open(ext)
  /\ Begin(p, "start", "start_find", [Idle EXCEPT !.ext = ext, !.at = now])
  /\ UNCHANGED <<rows, nrows, answers, ext, gb, key, closed, now, fired>>

\* An untaken latest attempt is resumed; past the limit the request fails.
StartFind(p) ==
  LET r == req[p]
      attempt == IF nrows = 0 THEN 1 ELSE rows[Latest(Used)].attempt + 1
      resume == nrows > 0 /\ rows[Latest(Used)].state = "untaken"
  IN
  /\ At(p, "start_find")
  /\ IF resume \/ ~Allowed(attempt, r.ext)
     THEN Finish(p)
     ELSE Goto(p, [r EXCEPT !.pc = "start_create", !.row = NewAttempt(attempt, r.at, r.ext)])
  /\ UNCHANGED <<rows, nrows, answers, ext, gb, key, closed, now, fired>>

\* The partial unique index refuses a second untaken row; a full table (the
\* bound MaxRows) is an insert that fails.
InsertUnindexed == nrows = MaxRows
InsertRefused == Untaken # {} \/ nrows = MaxRows

\* The loser of a race returns the winner's row or the error.
StartCreate(p) ==
  /\ At(p, "start_create")
  /\ IF InsertRefused
     THEN UNCHANGED <<rows, nrows>>
     ELSE /\ nrows' = nrows + 1
          /\ rows' = [rows EXCEPT ![nrows + 1] = req[p].row]
  /\ Finish(p)
  /\ UNCHANGED <<answers, ext, gb, key, closed, now, fired>>

-----------------------------------------------------------------------------
\* Answering (AnswerQuestion) and moving past a question (MarkQuestionRead)

FirstAnswer(i, q) == IF answers[i][q] = <<>> THEN NoAnswer ELSE answers[i][q][1]
Expired(r) == r.endAt # Nil /\ now > r.endAt
LockedNever(r, q) == FALSE
Locked(r, q) == CantGoBack /\ q \in r.read

AnswerQuestionAnytime(p, i, q, text) ==
  /\ i \in Used
  /\ ~Expired(rows[i])
  /\ ~Locked(rows[i], q)
  /\ Begin(p, "answer", "answer_find", [Idle EXCEPT !.id = i, !.q = q, !.text = text])
  /\ UNCHANGED <<rows, nrows, answers, ext, gb, key, closed, now, fired>>

AnswerQuestion(p, i, q, text) ==
  /\ i \in Untaken
  /\ ~Expired(rows[i])
  /\ ~Locked(rows[i], q)
  /\ Begin(p, "answer", "answer_find", [Idle EXCEPT !.id = i, !.q = q, !.text = text])
  /\ UNCHANGED <<rows, nrows, answers, ext, gb, key, closed, now, fired>>

AnswerFind(p) ==
  LET r == req[p] IN
  /\ At(p, "answer_find")
  /\ Goto(p, [r EXCEPT !.pc = "answer_save", !.held[r.q] = FirstAnswer(r.id, r.q)])
  /\ UNCHANGED <<rows, nrows, answers, ext, gb, key, closed, now, fired>>

\* Full-row save of the row that was found (graded_via as it was read), or
\* the insert of a new one: no index keeps a question to one answer row.
AnswerSave(p) ==
  LET r == req[p]
      found == r.held[r.q]
  IN
  /\ At(p, "answer_save")
  /\ answers' = [answers EXCEPT ![r.id][r.q] =
       IF found = NoAnswer
       THEN Append(@, [BlankAnswer EXCEPT !.text = r.text])
       ELSE [@ EXCEPT ![1] = [found EXCEPT !.text = r.text, !.points = Nil]]]
  /\ Finish(p)
  /\ UNCHANGED <<rows, nrows, ext, gb, key, closed, now, fired>>

MarkQuestionRead(p, i, q) ==
  /\ CantGoBack
  /\ i \in Untaken
  /\ q \notin rows[i].read
  /\ Begin(p, "read", "read_append", [Idle EXCEPT !.id = i, !.q = q])
  /\ UNCHANGED <<rows, nrows, answers, ext, gb, key, closed, now, fired>>

\* The condition of the targeted updates: WHERE workflow_state = 'untaken'.
InProgressUnchecked(i) == i \in Used
InProgress(i) == i \in Untaken

AppendReadQuestion(p) ==
  LET r == req[p] IN
  /\ At(p, "read_append")
  /\ rows' = IF InProgress(r.id)
             THEN [rows EXCEPT ![r.id].read = @ \cup {r.q}] ELSE rows
  /\ Finish(p)
  /\ UNCHANGED <<nrows, answers, ext, gb, key, closed, now, fired>>

-----------------------------------------------------------------------------
\* Turning an attempt in (CompleteSubmission, AutoSubmitOverdueAttempts,
\* finalizeAttempt)

IsSurvey == QuizType \in {"graded_survey", "survey"}
IsGraded == QuizType \in {"assignment", "graded_survey"}
Points(a) == IF a.points = Nil THEN 0 ELSE a.points

\* Auto-grading of one answer row against the key k.
AutoGraded(text, k) == IF text = k THEN AutoPoints ELSE 0

Graded(q, a) ==
  IF a = NoAnswer THEN a
  ELSE IF IsSurvey THEN [a EXCEPT !.points = 0, !.via = "auto"]
  ELSE IF q = "auto" THEN [a EXCEPT !.points = AutoGraded(a.text, key), !.via = "auto"]
  ELSE [a EXCEPT !.points = 0]

SurveyScore == IF QuizType = "graded_survey" /\ SurveyPoints # Nil THEN SurveyPoints ELSE 0

FinishAtNow(r) == now
FinishAt(r) ==
  IF Expired(r) /\ now > r.endAt + CompletionGrace THEN r.endAt + CompletionGrace ELSE now

CompleteSubmission(p, i) ==
  /\ i \in Untaken
  /\ Begin(p, "complete", "fin_list",
           [Idle EXCEPT !.id = i, !.row = [rows[i] EXCEPT !.finishedAt = FinishAt(rows[i])]])
  /\ UNCHANGED <<rows, nrows, answers, ext, gb, key, closed, now, fired>>

AutoSubmit(p) ==
  /\ Begin(p, "autosubmit", "job_list", [Idle EXCEPT !.at = now])
  /\ UNCHANGED <<rows, nrows, answers, ext, gb, key, closed, now, fired>>

OverdueFlipped(i, t) == i \in Untaken /\ rows[i].endAt # Nil /\ rows[i].endAt > t - AutoSubmitGrace
Overdue(i, t) == i \in Untaken /\ rows[i].endAt # Nil /\ rows[i].endAt < t - AutoSubmitGrace

\* A batch of the overdue job; of one student it holds at most one attempt.
JobList(p) ==
  LET r == req[p] IN
  /\ At(p, "job_list")
  /\ IF \E i \in Ids : Overdue(i, r.at)
     THEN \E i \in Ids :
            /\ Overdue(i, r.at)
            /\ Goto(p, [r EXCEPT !.pc = "fin_list", !.id = i,
                                 !.row = [rows[i] EXCEPT !.finishedAt = rows[i].endAt]])
     ELSE Finish(p)
  /\ UNCHANGED <<rows, nrows, answers, ext, gb, key, closed, now, fired>>

\* Grade the first answer row of each question, in memory.
FinalizeList(p) ==
  LET r == req[p]
      graded == [q \in Questions |-> Graded(q, FirstAnswer(r.id, q))]
      total == Points(graded["auto"]) + Points(graded["essay"])
      review == ~IsSurvey /\ graded["essay"] # NoAnswer
      score == IF IsSurvey THEN SurveyScore ELSE total
  IN
  /\ At(p, "fin_list")
  /\ Goto(p, [r EXCEPT !.pc = "fin_save", !.held = graded,
                       !.todo = {q \in Questions : graded[q] # NoAnswer},
                       !.row.score = score, !.row.kept = score,
                       !.row.state = IF review THEN "pending_review" ELSE "complete"])
  /\ UNCHANGED <<rows, nrows, answers, ext, gb, key, closed, now, fired>>

\* Full-row saves of the graded answer rows (in either order).
FinalizeSave(p) ==
  LET r == req[p] IN
  /\ At(p, "fin_save")
  /\ \E q \in r.todo :
       /\ answers' = [answers EXCEPT ![r.id][q][1] = r.held[q]]
       /\ Goto(p, [r EXCEPT !.todo = @ \ {q}])
  /\ UNCHANGED <<rows, nrows, ext, gb, key, closed, now, fired>>

\* The targeted update: the loser's request fails; a losing job batch may have
\* made progress with other students' attempts, and is then listed again.
FinalizeIfInProgress(p) ==
  LET r == req[p] IN
  /\ At(p, "fin_save") /\ r.todo = {}
  /\ IF InProgress(r.id)
     THEN /\ rows' = [rows EXCEPT ![r.id] =
               [@ EXCEPT !.finishedAt = r.row.finishedAt, !.score = r.row.score,
                         !.kept = r.row.kept, !.state = r.row.state]]
          /\ Goto(p, [r EXCEPT !.pc = "kept_read"])
     ELSE /\ UNCHANGED rows
          /\ \/ Finish(p)
             \/ /\ r.op = "autosubmit"
                /\ Goto(p, [Idle EXCEPT !.pc = "job_list", !.op = r.op, !.at = r.at])
  /\ UNCHANGED <<nrows, answers, ext, gb, key, closed, now, fired>>

\* fireOnCompleted, then the answer to the student or the next job batch.
FireOnCompleted(p) ==
  LET r == req[p] IN
  /\ At(p, "fire")
  /\ fired' = [fired EXCEPT ![r.id] = @ + 1]
  /\ Goto(p, IF r.op = "autosubmit"
             THEN [Idle EXCEPT !.pc = "job_list", !.op = r.op, !.at = r.at]
             ELSE Idle)
  /\ UNCHANGED <<rows, nrows, answers, ext, gb, key, closed, now>>

-----------------------------------------------------------------------------
\* The kept score and the gradebook (refreshKeptScore, pushGradebookScore,
\* RecordQuizScore)

\* w[1] + ... + w[MaxRows]
Total(w) == LET sum[n \in 0..MaxRows] == IF n = 0 THEN 0 ELSE sum[n - 1] + w[n]
            IN  sum[MaxRows]

\* math.Round of s / n: halves away from zero.
RoundDiv(s, n) == IF s >= 0 THEN (2 * s + n) \div (2 * n) ELSE -((n - 2 * s) \div (2 * n))

Highest(S) == CHOOSE v \in {rows[i].score : i \in S} : \A j \in S : rows[j].score <= v
Average(S) == RoundDiv(Total([i \in Ids |-> IF i \in S THEN rows[i].score ELSE 0]), Cardinality(S))

KeptScore(S) ==
  CASE Policy = "keep_latest"  -> rows[Latest(S)].score
    [] Policy = "keep_average" -> Average(S)
    [] OTHER                   -> Highest(S)

\* What the caller of refreshKeptScore does next.
AfterKeptSilent(r) == Idle
AfterKept(r) == IF r.op \in {"complete", "autosubmit"} THEN [r EXCEPT !.pc = "fire"] ELSE Idle
AfterSaveUngraded(r) == AfterKept(r)
AfterSave(r) == IF IsGraded THEN [r EXCEPT !.pc = "gb_find"] ELSE AfterKept(r)

KeptRead(p) ==
  LET r == req[p]
      latest == Latest(Done)
      kept == KeptScore(Done)
      read == [r EXCEPT !.latest = latest, !.row = [rows[latest] EXCEPT !.kept = kept]]
  IN
  /\ At(p, "kept_read")
  /\ Goto(p, IF Done = {} THEN AfterKept(r)
             ELSE IF rows[latest].kept = kept THEN AfterSave(read)
             ELSE [read EXCEPT !.pc = "kept_save"])
  /\ UNCHANGED <<rows, nrows, answers, ext, gb, key, closed, now, fired>>

\* Full-row save of the attempt as refreshKeptScore read it.
KeptSaveSkipped(p) ==
  /\ At(p, "kept_save")
  /\ Goto(p, AfterSave(req[p]))
  /\ UNCHANGED <<rows, nrows, answers, ext, gb, key, closed, now, fired>>
KeptSave(p) ==
  /\ At(p, "kept_save")
  /\ rows' = [rows EXCEPT ![req[p].latest] = req[p].row]
  /\ Goto(p, AfterSave(req[p]))
  /\ UNCHANGED <<nrows, answers, ext, gb, key, closed, now, fired>>

\* A closed grading period refuses the push; the refusal is only logged.
GradebookFind(p) ==
  /\ At(p, "gb_find")
  /\ Goto(p, IF closed THEN AfterKept(req[p])
             ELSE [req[p] EXCEPT !.pc = "gb_save", !.gb = gb])
  /\ UNCHANGED <<rows, nrows, answers, ext, gb, key, closed, now, fired>>

\* The gradebook row g with attempt a recorded: an excusal keeps its score.
PushedOverExcusal(g, a) ==
  [exists |-> TRUE, attempt |-> a.attempt, submittedAt |-> a.finishedAt, score |-> a.kept,
   pending |-> (a.state = "pending_review"), excused |-> FALSE]
Pushed(g, a) ==
  LET sent == [g EXCEPT !.exists = TRUE, !.attempt = a.attempt, !.submittedAt = a.finishedAt]
  IN IF g.excused THEN sent
     ELSE [sent EXCEPT !.score = a.kept, !.pending = (a.state = "pending_review")]

\* Full-row save of the gradebook row, or its insert, which the unique index
\* on (assignment, user) refuses when another push got there first.
GradebookSave(p) ==
  LET r == req[p] IN
  /\ At(p, "gb_save")
  /\ IF gb.exists /\ ~r.gb.exists
     THEN /\ Goto(p, AfterKept(r))
          /\ UNCHANGED gb
     ELSE /\ gb' = Pushed(r.gb, r.row)
          /\ Goto(p, IF r.row.linked THEN AfterKept(r) ELSE [r EXCEPT !.pc = "link_save"])
  /\ UNCHANGED <<rows, nrows, answers, ext, key, closed, now, fired>>

\* Full-row save that links the attempt to its gradebook row.
LinkSave(p) ==
  LET r == req[p] IN
  /\ At(p, "link_save")
  /\ rows' = [rows EXCEPT ![r.latest] = [r.row EXCEPT !.linked = TRUE]]
  /\ Goto(p, AfterKept(r))
  /\ UNCHANGED <<nrows, answers, ext, gb, key, closed, now, fired>>

\* A grading period closes or opens again.
SetPeriod(p) ==
  /\ req[p] = Idle /\ "period" \in Ops[p]
  /\ closed' = ~closed
  /\ UNCHANGED <<rows, nrows, answers, ext, gb, key, now, fired, req>>

\* An instructor excuses the student or takes the excusal back.
SetExcused(p, excused) ==
  /\ ~closed
  /\ excused \/ gb.exists
  /\ Begin(p, "excuse", "excuse_save",
           [Idle EXCEPT !.gb = IF excused
              THEN [gb EXCEPT !.excused = TRUE, !.score = Nil, !.pending = FALSE]
              ELSE [gb EXCEPT !.excused = FALSE, !.pending = (@ /\ gb.score # Nil)]])
  /\ UNCHANGED <<rows, nrows, answers, ext, gb, key, closed, now, fired>>

\* Full-row save, or insert, as in GradebookSave.
ExcusedSave(p) ==
  /\ At(p, "excuse_save")
  /\ gb' = IF gb.exists /\ ~req[p].gb.exists THEN gb ELSE [req[p].gb EXCEPT !.exists = TRUE]
  /\ Finish(p)
  /\ UNCHANGED <<rows, nrows, answers, ext, key, closed, now, fired>>

-----------------------------------------------------------------------------
\* Moderation (SetQuizExtension)

Override(v, old) == IF v = Nil THEN old ELSE v

SetQuizExtension(p, in) ==
  /\ in.fromEnd # Nil =>  \* bound
       \A i \in Untaken : rows[i].endAt = Nil \/ rows[i].endAt + in.fromEnd <= MaxEnd
  /\ Begin(p, "extend", "ext_save",
           [Idle EXCEPT !.inp = in,
              !.ext = [attempts |-> Override(in.attempts, ext.attempts),
                       time     |-> Override(in.time, ext.time),
                       unlocked |-> Override(in.unlocked, ext.unlocked)]])
  /\ UNCHANGED <<rows, nrows, answers, ext, gb, key, closed, now, fired>>

\* The upsert writes all three settings as merged with the earlier read.
ExtensionUpsert(p) ==
  LET r == req[p] IN
  /\ At(p, "ext_save")
  /\ ext' = r.ext
  /\ Goto(p, IF r.inp.fromNow = Nil /\ r.inp.fromEnd = Nil THEN Idle
             ELSE [r EXCEPT !.pc = "ext_find"])
  /\ UNCHANGED <<rows, nrows, answers, gb, key, closed, now, fired>>

NewEnd(in, endAt) ==
  IF in.fromNow # Nil THEN now + in.fromNow
  ELSE in.fromEnd + (IF endAt > now THEN endAt ELSE now)

ExtensionFind(p) ==
  LET r == req[p]
      i == Latest(Used)
  IN
  /\ At(p, "ext_find")
  /\ IF nrows > 0 /\ rows[i].state = "untaken" /\ rows[i].endAt # Nil
     THEN Goto(p, [r EXCEPT !.pc = "ext_set", !.id = i,
                            !.row = [rows[i] EXCEPT !.endAt = NewEnd(r.inp, @)]])
     ELSE Finish(p)
  /\ UNCHANGED <<rows, nrows, answers, ext, gb, key, closed, now, fired>>

SetEndAtWholeRow(p) ==
  /\ At(p, "ext_set")
  /\ rows' = [rows EXCEPT ![req[p].id] = req[p].row]
  /\ Finish(p)
  /\ UNCHANGED <<nrows, answers, ext, gb, key, closed, now, fired>>
SetEndAt(p) ==
  LET r == req[p] IN
  /\ At(p, "ext_set")
  /\ rows' = IF InProgress(r.id)
             THEN [rows EXCEPT ![r.id].endAt = r.row.endAt] ELSE rows
  /\ Finish(p)
  /\ UNCHANGED <<nrows, answers, ext, gb, key, closed, now, fired>>

-----------------------------------------------------------------------------
\* Manual grading (UpdateQuizScores)

PointsNoFudge(g, fudge) == Points(g["auto"]) + Points(g["essay"])
PointsTotal(g, fudge) == Points(g["auto"]) + Points(g["essay"]) + fudge

\* rescoreAttempt: the score and review state from the first answer rows g.
Rescored(r, g) ==
  LET pending == ~IsSurvey /\ g["essay"].via \in {"none", "auto"}
  IN [r EXCEPT !.score = IF QuizType = "graded_survey" /\ SurveyPoints # Nil
                         THEN SurveyPoints ELSE PointsTotal(g, r.fudge),
               !.state = IF pending THEN "pending_review" ELSE "complete"]

\* A grader scores question q with mark (Nil: a comment only; q "none": the
\* question list is empty) and may set fudge points.  The handler has read
\* the attempt; a closed period refuses a graded quiz.
UpdateQuizScores(p, i, q, mark, fudge) ==
  /\ i \in Done
  /\ ~(IsGraded /\ closed)
  /\ q = "none" => mark = Nil
  /\ Begin(p, "grade", "grade_list",
           [Idle EXCEPT !.id = i, !.row = rows[i], !.q = q, !.mark = mark, !.fudge = fudge])
  /\ UNCHANGED <<rows, nrows, answers, ext, gb, key, closed, now, fired>>

GradeList(p) ==
  LET r == req[p] IN
  /\ At(p, "grade_list")
  /\ Goto(p, [r EXCEPT !.pc = IF r.q = "none" THEN "grade_save" ELSE "grade_mark",
                       !.held = [q \in Questions |-> FirstAnswer(r.id, q)], !.k = 1])
  /\ UNCHANGED <<rows, nrows, answers, ext, gb, key, closed, now, fired>>

\* A skipped question first gets a blank answer row; then the row is saved.
GradeMark(p) ==
  LET r == req[p]
      skipped == r.held[r.q] = NoAnswer
      marked == IF r.mark = Nil THEN r.held[r.q]
                ELSE [r.held[r.q] EXCEPT !.points = r.mark, !.via = "manual"]
  IN
  /\ At(p, "grade_mark")
  /\ IF skipped
     THEN /\ answers' = [answers EXCEPT ![r.id][r.q] = Append(@, BlankAnswer)]
          /\ Goto(p, [r EXCEPT !.held[r.q] = BlankAnswer, !.k = Len(answers[r.id][r.q]) + 1])
     ELSE /\ answers' = [answers EXCEPT ![r.id][r.q][r.k] = marked]
          /\ Goto(p, [r EXCEPT !.pc = "grade_save", !.held[r.q] = marked])
  /\ UNCHANGED <<rows, nrows, ext, gb, key, closed, now, fired>>

\* Full-row save of the attempt the handler read at the start.
GradeSave(p) ==
  LET r == req[p]
      row == IF r.fudge = Nil THEN r.row ELSE [r.row EXCEPT !.fudge = r.fudge]
  IN
  /\ At(p, "grade_save")
  /\ rows' = [rows EXCEPT ![r.id] = Rescored(row, r.held)]
  /\ Goto(p, [r EXCEPT !.pc = "kept_read"])
  /\ UNCHANGED <<nrows, answers, ext, gb, key, closed, now, fired>>

-----------------------------------------------------------------------------
\* Regrading (RegradeQuizQuestion)

RegradeOptions == {"current_correct_only", "current_and_previous_correct", "full_credit"}

\* The handler has read the question, its key in text; the finished attempts
\* are listed up front.
RegradeQuestion(p, q, option) ==
  /\ Begin(p, "regrade", "regrade_find",
           [Idle EXCEPT !.q = q, !.option = option, !.text = key,
                        !.list = [i \in Ids |-> IF i \in Done THEN rows[i] ELSE NoRow]])
  /\ UNCHANGED <<rows, nrows, answers, ext, gb, key, closed, now, fired>>

Possible(q) == IF q = "auto" THEN AutoPoints ELSE EssayPoints

\* The points a regrade gives answer a of question q.
Repointed(q, a, option, k) ==
  LET current == AutoGraded(a.text, k) IN
  CASE option = "full_credit" -> Possible(q)
    [] option = "current_and_previous_correct" /\ Points(a) > current -> Points(a)
    [] OTHER -> current

\* The next listed attempt: left alone when a grader scored the answer or
\* the points do not change; kept scores are refreshed after the last one.
RegradeFind(p) ==
  LET r == req[p]
      left == {i \in Ids : r.list[i] # NoRow}
      i == CHOOSE i \in left : \A j \in left : i <= j
      a == FirstAnswer(i, r.q)
      graderOnly == r.q = "essay" \/ a.via = "manual"
      points == Repointed(r.q, a, r.option, r.text)
      skip == \/ graderOnly /\ r.option # "full_credit"
              \/ a.points = points
  IN
  /\ At(p, "regrade_find")
  /\ Goto(p, IF left = {}
             THEN IF r.touched THEN [r EXCEPT !.pc = "kept_read"] ELSE Idle
             ELSE IF skip THEN [r EXCEPT !.list[i] = NoRow]
             ELSE [r EXCEPT !.pc = "regrade_mark", !.id = i, !.row = r.list[i],
                            !.list[i] = NoRow, !.k = 1, !.mark = points,
                            !.held[r.q] = a])
  /\ UNCHANGED <<rows, nrows, answers, ext, gb, key, closed, now, fired>>

RegradeMark(p) ==
  LET r == req[p]
      a == r.held[r.q]
      via == IF r.q = "essay" \/ a.via = "manual" THEN "manual" ELSE "auto"
  IN
  /\ At(p, "regrade_mark")
  /\ IF a = NoAnswer
     THEN /\ answers' = [answers EXCEPT ![r.id][r.q] = Append(@, BlankAnswer)]
          /\ Goto(p, [r EXCEPT !.held[r.q] = BlankAnswer, !.k = Len(answers[r.id][r.q]) + 1])
     ELSE /\ answers' = [answers EXCEPT ![r.id][r.q][r.k] = [a EXCEPT !.points = r.mark, !.via = via]]
          /\ Goto(p, [r EXCEPT !.pc = "regrade_list"])
  /\ UNCHANGED <<rows, nrows, ext, gb, key, closed, now, fired>>

\* rescoreFromStore reads the answers again.
RegradeList(p) ==
  LET r == req[p]
      row == [r.row EXCEPT !.before = IF @ = Nil THEN r.row.score ELSE @]
  IN
  /\ At(p, "regrade_list")
  /\ Goto(p, [r EXCEPT !.pc = "regrade_save",
                       !.row = Rescored(row, [q \in Questions |-> FirstAnswer(r.id, q)])])
  /\ UNCHANGED <<rows, nrows, answers, ext, gb, key, closed, now, fired>>

\* Full-row save of the attempt as it was listed.
RegradeSave(p) ==
  LET r == req[p] IN
  /\ At(p, "regrade_save")
  /\ rows' = [rows EXCEPT ![r.id] = r.row]
  /\ Goto(p, [r EXCEPT !.pc = "regrade_find", !.touched = TRUE])
  /\ UNCHANGED <<nrows, answers, ext, gb, key, closed, now, fired>>

\* An instructor edits the answer key.
EditKey(p, text) ==
  /\ req[p] = Idle /\ "editkey" \in Ops[p]
  /\ key' = text
  /\ UNCHANGED <<rows, nrows, answers, ext, gb, closed, now, fired, req>>

-----------------------------------------------------------------------------
\* One-time results (MarkResultsSeen)

MarkResultsSeen(p, i) ==
  /\ i \in Done
  /\ rows[i].seen = Nil
  /\ Begin(p, "see", "see_save", [Idle EXCEPT !.id = i, !.at = now])
  /\ UNCHANGED <<rows, nrows, answers, ext, gb, key, closed, now, fired>>

\* The targeted update's condition: WHERE results_seen_at IS NULL.
Unseen(i) == rows[i].seen = Nil

ResultsSeenSave(p) ==
  LET r == req[p] IN
  /\ At(p, "see_save")
  /\ rows' = IF Unseen(r.id)
             THEN [rows EXCEPT ![r.id].seen = r.at] ELSE rows
  /\ Finish(p)
  /\ UNCHANGED <<nrows, answers, ext, gb, key, closed, now, fired>>

-----------------------------------------------------------------------------
\* The whole engine

\* Requests that arrive.
Arrive(p) ==
  \/ StartSubmission(p)
  \/ \E i \in Ids, q \in Questions, text \in Texts : AnswerQuestion(p, i, q, text)
  \/ \E i \in Ids, q \in Questions : MarkQuestionRead(p, i, q)
  \/ \E i \in Ids : CompleteSubmission(p, i)
  \/ \E in \in ExtInputs : SetQuizExtension(p, in)
  \/ \E i \in Ids, q \in Questions \cup {"none"}, mark \in Marks \cup {Nil},
        fudge \in Fudges \cup {Nil} : UpdateQuizScores(p, i, q, mark, fudge)
  \/ \E q \in Questions, option \in RegradeOptions : RegradeQuestion(p, q, option)
  \/ \E text \in Texts : EditKey(p, text)
  \/ \E i \in Ids : MarkResultsSeen(p, i)
  \/ SetPeriod(p)
  \/ \E excused \in BOOLEAN : SetExcused(p, excused)

\* The next statement of a request or job in progress.
Continue(p) ==
  \/ StartFind(p) \/ StartCreate(p)
  \/ AnswerFind(p) \/ AnswerSave(p) \/ AppendReadQuestion(p)
  \/ JobList(p) \/ FinalizeList(p) \/ FinalizeSave(p)
  \/ FinalizeIfInProgress(p) \/ FireOnCompleted(p)
  \/ KeptRead(p) \/ KeptSave(p) \/ GradebookFind(p) \/ GradebookSave(p) \/ LinkSave(p)
  \/ ExcusedSave(p)
  \/ ExtensionUpsert(p) \/ ExtensionFind(p) \/ SetEndAt(p)
  \/ GradeList(p) \/ GradeMark(p) \/ GradeSave(p)
  \/ RegradeFind(p) \/ RegradeMark(p) \/ RegradeList(p) \/ RegradeSave(p)
  \/ ResultsSeenSave(p)

\* The process dies: what the worker held is gone, nothing takes it up again.
Crash(p) ==
  /\ Crashes
  /\ req[p] # Idle
  /\ Finish(p)
  /\ UNCHANGED <<rows, nrows, answers, ext, gb, key, closed, now, fired>>

Tick ==
  /\ now < MaxTime
  /\ now' = now + 1
  /\ UNCHANGED <<rows, nrows, answers, ext, gb, key, closed, fired, req>>

Next ==
  \/ \E p \in Procs : Arrive(p) \/ AutoSubmit(p) \/ Continue(p) \/ Crash(p)
  \/ Tick

Spec == Init /\ [][Next]_vars

\* Time passes; the per-minute scheduler keeps starting the overdue job; a
\* worker that took something up goes on with it.  Nobody has to send a request.
Fairness ==
  /\ WF_vars(Tick)
  /\ \A p \in Procs : WF_vars(AutoSubmit(p)) /\ WF_vars(Continue(p))

FairSpec == Spec /\ Fairness

-----------------------------------------------------------------------------
\* Invariants and action properties

Request == [pc : Labels, op : OpNames \cup {"none"}, id : 0..MaxRows, latest : 0..MaxRows,
            row : Row, list : [Ids -> Row], q : Questions \cup {"none"}, k : Nat,
            held : [Questions -> Answer], todo : SUBSET Questions,
            text : Texts \cup {Nil}, mark : Int \cup {Nil}, fudge : Int \cup {Nil},
            option : RegradeOptions \cup {"none"}, touched : BOOLEAN, at : Nat,
            ext : Extension, inp : ExtInputs \cup {NoInput}, gb : GradebookRow]

TablesOK ==
  /\ rows \in [Ids -> Row]
  /\ nrows \in 0..MaxRows
  /\ answers \in [Ids -> [Questions -> Seq(Answer)]]
  /\ ext \in Extension
  /\ gb \in GradebookRow
  /\ key \in Texts
  /\ closed \in BOOLEAN
  /\ now \in Nat
  /\ fired \in [Ids -> Nat]
  /\ \A i \in Ids : i \in Used <=> rows[i].state # "none"

\* Every variable has its type, and exactly the ids handed out hold a row.
TypeOK == TablesOK /\ req \in [Procs -> Request]

\* A student never has two attempts in progress (the partial unique index of
\* migration 000062), although rows are saved whole from stale copies.
AtMostOneUntaken == \A i, j \in Untaken : i = j

\* What an attempt was turned in as stays: no stale full-row save reopens it
\* or moves its number, its dates or its deadline.
Stamp(r) == <<r.attempt, r.startedAt, r.endAt, r.finishedAt>>
TurnedInIsFinal ==
  [][\A i \in Done : Completed(rows'[i]) /\ Stamp(rows'[i]) = Stamp(rows[i])]_vars

\* However many /complete calls and overdue jobs meet on an attempt, its
\* completion callbacks start at most once, and only once it is turned in.
CallbackOnce == \A i \in Ids : fired[i] <= 1 /\ (fired[i] = 1 => Completed(rows[i]))

\* A turned-in attempt finished after it started and no later than the
\* completion grace after its deadline.
FinishedInTime ==
  \A i \in Done :
    /\ rows[i].startedAt <= rows[i].finishedAt
    /\ rows[i].endAt # Nil => rows[i].finishedAt <= rows[i].endAt + CompletionGrace

\* No attempt is created beyond allowed_attempts plus the extra attempts.
LimitRespected ==
  [][nrows' > nrows /\ AllowedAttempts > 0 => nrows' <= AllowedAttempts + ext.attempts]_vars

\* The answers of a turned-in attempt are the ones the student had saved.
AnswerTexts(as) == [k \in DOMAIN as |-> as[k].text]
AnswersFinal ==
  [][\A i \in Done, q \in Questions : \A k \in DOMAIN answers[i][q] :
       answers'[i][q][k].text = answers[i][q][k].text]_vars

\* On a can't-go-back quiz the answer to a question the student moved past
\* does not change any more.
LockedAnswersKept ==
  [][\A i \in Untaken : \A q \in rows[i].read :
       AnswerTexts(answers'[i][q]) = AnswerTexts(answers[i][q])]_vars

\* An excused student keeps the excusal until an instructor takes it back.
ExcusalKept ==
  [][gb.excused /\ (\A p \in Procs : req[p].op # "excuse") => gb'.excused]_vars

\* With no request in progress, a turned-in attempt's score is the points of
\* its answer rows plus the fudge points, and it awaits review exactly while
\* an answered essay has no grader's score.
Quiet == \A p \in Procs : req[p] = Idle
ScoreMatchesAnswers ==
  Quiet => \A i \in Done :
    LET g == [q \in Questions |-> FirstAnswer(i, q)] IN
    /\ rows[i].score = IF QuizType = "graded_survey" /\ SurveyPoints # Nil THEN SurveyPoints
                       ELSE Points(g["auto"]) + Points(g["essay"]) + rows[i].fudge
    /\ rows[i].state = "pending_review" <=>
         ~IsSurvey /\ g["essay"] # NoAnswer /\ g["essay"].via # "manual"

\* With no request in progress, the latest turned-in attempt carries the kept
\* score, and the gradebook row shows that score, that attempt and its state.
KeptAgrees ==
  Quiet /\ Done # {} => rows[Latest(Done)].kept = KeptScore(Done)
GradebookAgrees ==
  Quiet /\ Done # {} /\ IsGraded =>
    LET a == rows[Latest(Done)] IN
    /\ a.linked
    /\ gb = [exists |-> TRUE, attempt |-> a.attempt, submittedAt |-> a.finishedAt,
             score |-> KeptScore(Done), pending |-> (a.state = "pending_review"),
             excused |-> FALSE]
KeptScoreShown == KeptAgrees /\ GradebookAgrees

\* An attempt whose deadline passes before the clock's end is turned in, even
\* if its student never comes back.
DeadlinePasses(i) == rows[i].endAt # Nil /\ rows[i].endAt + AutoSubmitGrace < MaxTime
OverdueTurnedIn ==
  \A i \in Ids : i \in Untaken /\ DeadlinePasses(i) ~> i \in Done \/ ~DeadlinePasses(i)

\* A turned-in attempt reaches the gradebook and its callbacks are started.
TurnInReported ==
  \A i \in Ids : i \in Done ~> (fired[i] = 1 /\ (IsGraded => gb.exists))

-----------------------------------------------------------------------------
\* The promise this implements: attempts in progress are the untaken rows, an
\* attempt's finish time is that of its turned-in row.
Lifecycle == INSTANCE AttemptLifecycle WITH
  open <- Untaken,
  finish <- [i \in Ids |-> IF i \in Done THEN rows[i].finishedAt ELSE Nil],
  calls <- fired

ImplementsLifecycle == Lifecycle!Spec

=============================================================================
