CONSTANTS
  QJobs = {q1}
  Nil = Nil
  Specs <- OnceSpecs
  Budget <- RollingBudget
  MaxLag = 1
  Workers = {w1}
  SkipDuration = 1
  Backoffs = {0}
SPECIFICATION RollingSpec
INVARIANTS RollingTypeOK RollingInv JobPerWindow
PROPERTIES NothingLost GracefulUpdatesServe
CHECK_DEADLOCK FALSE
