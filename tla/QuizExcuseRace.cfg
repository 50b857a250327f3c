\* An instructor excuses the student while a quiz score is pushed.
CONSTANTS
  p1 = p1
  p2 = p2
  Procs = {p1, p2}
  Ops <- ExcuseRaceOps
  Nil = Nil
  MaxRows = 1
  MaxTime = 0
  MaxEnd = 4
  AllowedAttempts = 1
  UnlockAt = Nil
  LockAt = Nil
  TimeLimit = 0
  CompletionGrace = 1
  AutoSubmitGrace = 1
  QuizType = "assignment"
  Policy = "keep_highest"
  CantGoBack = FALSE
  AutoPoints = 1
  EssayPoints = 2
  SurveyPoints = Nil
  Texts = {1}
  Marks = {1}
  Fudges = {}
  ExtInputs <- NoInputs
  Crashes = FALSE
SPECIFICATION Spec
PROPERTIES
  ExcusalKept
