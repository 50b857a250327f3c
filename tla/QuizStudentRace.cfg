\* Two workers: a student's requests race each other and the overdue job,
\* and any of them may die between two statements.
CONSTANTS
  p1 = p1
  p2 = p2
  Procs = {p1, p2}
  Ops <- StudentRaceOps
  Nil = Nil
  MaxRows = 2
  MaxTime = 2
  MaxEnd = 2
  AllowedAttempts = 0
  UnlockAt = Nil
  LockAt = Nil
  TimeLimit = 1
  CompletionGrace = 0
  AutoSubmitGrace = 0
  QuizType = "assignment"
  Policy = "keep_highest"
  CantGoBack = FALSE
  AutoPoints = 1
  EssayPoints = 2
  SurveyPoints = Nil
  Texts = {1}
  Marks = {2}
  Fudges = {}
  ExtInputs <- FromEndOnly
  Crashes = TRUE
SPECIFICATION Spec
INVARIANTS
  AtMostOneUntaken
PROPERTIES
  TurnedInIsFinal
  ImplementsLifecycle
