CONSTANTS
  Configs <- SafetyConfigs
  HasPrefix <- MCHasPrefix
  QJobs = {q1}
  Nil = Nil
  Specs <- LiveSpecs
  Budget <- LiveBudget
  MaxLag = 2
  Workers = {w1}
  SkipDuration = 2
  RetryDelay = 1
  Backoffs = {0}
  Overlap = FALSE
SPECIFICATION ErrandSpec
INVARIANT OwedInv
PROPERTIES TriggersLeadToJobs RunsAreOwed
CHECK_DEADLOCK FALSE
