SPECIFICATION FairSpec
CONSTANTS
  Jobs = {j1, j2}
  MaxCancels = 2
  DockerFails = TRUE
  None = None
INVARIANTS UncancelledLeavesNothing OnlyOrphansOverlap StrayKillsAreRepeated
PROPERTIES ExecutionsEnd
CHECK_DEADLOCK FALSE
