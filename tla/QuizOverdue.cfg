\* A scheduler and a student who may leave at any time.
CONSTANTS
  p1 = p1
  p2 = p2
  Procs = {p1, p2}
  Ops <- LiveOps
  Nil = Nil
  MaxRows = 2
  MaxTime = 4
  MaxEnd = 4
  AllowedAttempts = 0
  UnlockAt = Nil
  LockAt = Nil
  TimeLimit = 1
  CompletionGrace = 1
  AutoSubmitGrace = 1
  QuizType = "assignment"
  Policy = "keep_highest"
  CantGoBack = FALSE
  AutoPoints = 1
  EssayPoints = 2
  SurveyPoints = Nil
  Texts = {1}
  Marks = {2}
  Fudges = {}
  ExtInputs <- FromEndOnly
  Crashes = FALSE
SPECIFICATION FairSpec
PROPERTIES
  OverdueTurnedIn
  TurnInReported
