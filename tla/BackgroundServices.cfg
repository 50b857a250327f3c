\* Two callbacks emit at once; a content job with two workers.
CONSTANTS
  Workers = {w1, w2}
  Currencies = {"xp", "coins"}
  Badges = {"first", "collector"}
  Rules <- TwoRules
  MaxActivities = 2
  MaxClock = 1
  MaxUpsets = 1
  JobWorkers = {j1, j2}
  MaxClaims = 3
  MaxEdits = 1
  MaxDeaths = 1
SPECIFICATION Spec
INVARIANTS
  TypeOK
  BalanceIsLedger
  ChainPerAward
  GatesOutsideOverlap
  EveryAwardRecorded
  RunsOnce
  OutcomeIsTrue
PROPERTIES
  ImplementsRewards
  EmitReturns
  JobSettles
CHECK_DEADLOCK FALSE
