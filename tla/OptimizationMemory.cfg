SPECIFICATION FairSpec
CONSTANTS
  s1 = s1
  s2 = s2
  t1 = t1
  t2 = t2
  memory_bound = memory_bound
  States = {s1, s2}
  Techniques = {t1, t2}
  Bottlenecks = {memory_bound}
  Shipped <- MCShipped
  ByBottleneck <- MCByBottleneck
  DefaultsFor <- MCDefaultsFor
  Requests <- MCRequests
  Unclassified = Unclassified
  Problems = {1}
  Rollouts = {1, 2}
  RolloutSteps = 1
  UpdateFrequency = 2
  Enough = 2
  MaxDiscovered = 2
  MaxLaunches = 2
  Absent = Absent
  Torn = Torn
  None = None
INVARIANTS UsageIsHistory EmptyOnlyAfterTornCopy
PROPERTIES MemoryOnlyGrows ProblemsFinish
CHECK_DEADLOCK FALSE
