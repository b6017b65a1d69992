CONSTANTS
  Configs <- SafetyConfigs
  HasPrefix <- MCHasPrefix
  QJobs = {q1}
  Nil = Nil
  Specs <- OverlapSpecs
  Budget <- OverlapBudget
  MaxLag = 2
  Workers = {w1}
  SkipDuration = 2
  RetryDelay = 1
  Backoffs = {0}
  Overlap = TRUE
SPECIFICATION ErrandSpec
PROPERTY TriggersLeadToJobs
CHECK_DEADLOCK FALSE
