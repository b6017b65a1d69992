CONSTANTS
  Configs <- PairConfigs
  HasPrefix <- MCHasPrefix
  QJobs = {q1, q2}
  Nil = Nil
  Specs <- PairSpecs
  Budget <- PairBudget
  MaxLag = 2
  Workers = {w1}
  SkipDuration = 2
  RetryDelay = 1
  Backoffs = {0}
  Overlap = FALSE
SPECIFICATION ErrandSpec
PROPERTY ChangesReachFollowers
CHECK_DEADLOCK FALSE
