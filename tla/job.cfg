CONSTANTS
  Configs <- NoConfigs
  HasPrefix <- NoPrefixes
  QJobs = {q1}
  Nil = Nil
  Specs <- JobSpecs
  Budget <- JobBudget
  MaxLag = 2
  Jobs = {j1}
  OwnerOf <- MCOwnerOf
  JobWorkers = {w1}
  DeletePod = {j1}
  MaxPods = 2
SPECIFICATION JobSpec
INVARIANTS JobTypeOK CompletedWasEarned
PROPERTIES StampSurvives FailedJobsStay SucceededJobsGo PodsGo SuccessCompletes
CHECK_DEADLOCK FALSE
