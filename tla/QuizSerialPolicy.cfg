\* One worker, a graded survey: dates, limits, moderation, the overdue job,
\* excusals and grading periods.
CONSTANTS
  p1 = p1
  p2 = p2
  Procs = {p1}
  Ops <- PolicyOps
  Nil = Nil
  MaxRows = 2
  MaxTime = 4
  MaxEnd = 4
  AllowedAttempts = 1
  UnlockAt = Nil
  LockAt = 3
  TimeLimit = 2
  CompletionGrace = 1
  AutoSubmitGrace = 1
  QuizType = "graded_survey"
  Policy = "keep_latest"
  CantGoBack = FALSE
  AutoPoints = 1
  EssayPoints = 2
  SurveyPoints = 3
  Texts = {1}
  Marks = {2}
  Fudges = {}
  ExtInputs <- SerialInputs
  Crashes = FALSE
SPECIFICATION Spec
INVARIANTS
  FinishedInTime
PROPERTIES
  LimitRespected
  ExcusalKept
