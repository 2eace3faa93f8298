SPECIFICATION FairServersSpec
CONSTANTS
  c1 = c1
  c2 = c2
  b1 = b1
  b2 = b2
  g1 = g1
  Callers = {c1, c2}
  Keeping = {c2}
  Builders = {b1, b2}
  Gpus = {g1}
  MaxStarts = 2
  Nobody = Nobody
INVARIANTS OutputIsOfItsSource FilesAreHeld OnlyUnseenOrphansShare
PROPERTIES QueuesDrain
CHECK_DEADLOCK FALSE
