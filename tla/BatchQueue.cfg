SPECIFICATION FairSpec
CONSTANTS
  Requests <- MCRequests
  MaxBatch <- MCMaxBatch
  Flushes = TRUE
INVARIANTS RequestsAreKept
PROPERTIES Answered
CHECK_DEADLOCK FALSE
