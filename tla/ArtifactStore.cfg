SPECIFICATION StoreSpec
CONSTANTS
  u1 = u1
  Uploads = {u1}
  MaxRuns = 2
  MaxEvents = 2
  FinalStatuses = {"completed", "dry_run"}
  Nothing = Nothing
CONSTRAINT Bounded
INVARIANTS
  OnlyAssumedEntriesAreLost
  ArchiveAgrees
CHECK_DEADLOCK FALSE
