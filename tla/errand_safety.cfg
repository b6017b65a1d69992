CONSTANTS
  Configs <- SafetyConfigs
  HasPrefix <- MCHasPrefix
  QJobs = {q1}
  Nil = Nil
  Specs <- SafetySpecs
  Budget <- SafetyBudget
  MaxLag = 2
  Workers = {w1}
  SkipDuration = 2
  RetryDelay = 1
  Backoffs = {0}
  Overlap = TRUE
SPECIFICATION ErrandSafety
INVARIANTS ErrandTypeOK ErrandInv
PROPERTIES RunsSpaced NoLostUpdate DoneAfterRun ImplementsWindow
CHECK_DEADLOCK FALSE
