SPECIFICATION Spec
CONSTANTS
  compile = compile
  correctness = correctness
  events = events
  other = other
  Jobs = {compile, correctness, events, other}
  Generated = {compile, correctness, events}
  Stages <- MCStages
  MaxAttempts = 3
  MaxFaults = 1
  RecentLimit = 1
  PlanTimeout = 2
  ExportLimit = 1
  Remaining <- MCRemaining
  MaxCrashes = 1
INVARIANTS ProgramsAreLeased StrandedOnlyByFault GpuHeldBounded FullModeIsEarned
CHECK_DEADLOCK FALSE
