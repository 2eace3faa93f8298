SPECIFICATION FairSpec
CONSTANTS
  Jobs = {j1, j2}
  Callers = {c1}
  MaxTasks = 3
  RecentLimit <- MCRecentLimit
  Reported <- MCReported
  LossyNetwork = TRUE
  LeasesExpire = TRUE
  None = None
INVARIANTS GpuShared OneLiveTaskPerJob VerdictIsTheHolders
PROPERTIES FinishedStays EveryoneIsAnswered
CHECK_DEADLOCK FALSE
