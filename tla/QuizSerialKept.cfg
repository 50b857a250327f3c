\* One worker, two attempts: the kept score and the gradebook.
CONSTANTS
  p1 = p1
  p2 = p2
  Procs = {p1}
  Ops <- KeptOps
  Nil = Nil
  MaxRows = 2
  MaxTime = 0
  MaxEnd = 4
  AllowedAttempts = 0
  UnlockAt = Nil
  LockAt = Nil
  TimeLimit = 0
  CompletionGrace = 1
  AutoSubmitGrace = 1
  QuizType = "assignment"
  Policy = "keep_average"
  CantGoBack = FALSE
  AutoPoints = 1
  EssayPoints = 2
  SurveyPoints = Nil
  Texts = {1}
  Marks = {1}
  Fudges = {}
  ExtInputs <- NoInputs
  Crashes = FALSE
SPECIFICATION Spec
INVARIANTS
  KeptScoreShown
