SPECIFICATION FairSpec
CONSTANTS
  Problems = {p1, p2}
  Concurrency = 1
  Rollouts = {1, 2}
  Trajectories <- MCTrajectories
  MaxLaunches = 3
  None = None
INVARIANTS FoldersAgree GateSeesTheFastest OnlyOrphansDisturbTheGate
PROPERTIES ProblemsEnd
CHECK_DEADLOCK FALSE
