CONSTANTS
  Configs <- NoConfigs
  HasPrefix <- NoPrefixes
  QJobs = {q1}
  Nil = Nil
  Specs <- JobSpecs
  Budget <- NamesakeBudget
  MaxLag = 2
  Jobs = {j1}
  OwnerOf <- MCOwnerOf
  JobWorkers = {w1}
  DeletePod = {}
  MaxPods = 1
SPECIFICATION JobSafety
INVARIANTS CompletedByOwnJob
CHECK_DEADLOCK FALSE
