CONSTANTS
  Turns = {t1, t2}
  N = 3
  Parallel = 2
  MaxCrashes = 1
  MaxFaults = 1
SPECIFICATION FairSpec
INVARIANTS
  SavedIsOwn
  BlockIsOver
  DiskFollows
PROPERTIES
  SavedTurnsKept
  EventuallyDurable
CHECK_DEADLOCK FALSE
