CONSTANTS
  QJobs = {q1}
  Nil = Nil
  Specs <- OnceSpecs
  Budget <- LostBudget
  MaxLag = 2
  Workers = {w1}
  SkipDuration = 2
  Backoffs = {0}
SPECIFICATION RollingSpec
PROPERTY OnceErrandsRun
CHECK_DEADLOCK FALSE
