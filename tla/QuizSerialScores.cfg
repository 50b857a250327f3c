\* One worker, one attempt at a can't-go-back quiz: answers, manual grades, key
\* edits and regrades, never overlapping.
CONSTANTS
  p1 = p1
  p2 = p2
  Procs = {p1}
  Ops <- ScoreOps
  Nil = Nil
  MaxRows = 1
  MaxTime = 0
  MaxEnd = 4
  AllowedAttempts = 1
  UnlockAt = Nil
  LockAt = Nil
  TimeLimit = 0
  CompletionGrace = 1
  AutoSubmitGrace = 1
  QuizType = "assignment"
  Policy = "keep_highest"
  CantGoBack = TRUE
  AutoPoints = 1
  EssayPoints = 2
  SurveyPoints = Nil
  Texts = {1, 2}
  Marks = {1}
  Fudges = {1}
  ExtInputs <- NoInputs
  Crashes = FALSE
SPECIFICATION Spec
INVARIANTS
  TypeOK
  ScoreMatchesAnswers
PROPERTIES
  LockedAnswersKept
  AnswersFinal
