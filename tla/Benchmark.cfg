SPECIFICATION Spec
CONSTANTS
  Tasks = {"t1"}
  Latencies = {100, 101, 107}
  Minimum <- MCMinimum
  SpreadLimit = 5
  Versions = {0, 1}
  Order <- MCOrder
INVARIANTS
  TimedOnlyWhatPassed
  VerifiedIsEarned
  RowsAgreeWithFolders
CHECK_DEADLOCK FALSE
