CONSTANTS
  w1 = w1
  w2 = w2
  r1 = r1
  r2 = r2
  r3 = r3
  Workers = {w1, w2}
  Reqs = {r1, r2, r3}
  WorkerOf <- MCWorkerOf
  None = None
  MaxSweeps = 1
  MaxCrashes = 1
SPECIFICATION FairSpec
INVARIANTS
  CloneExclusion
  NoOrphanLock
  AnswerKept
PROPERTIES
  MaterializeSettles
CHECK_DEADLOCK FALSE
