CONSTANTS
  Reqs = {r1, r2, r3}
  Keys = {k1, k2, k3}
  None = None
  TTL = 1
  MaxEntries = 2
  MaxTime = 2
SPECIFICATION FairSpec
INVARIANTS
  SingleFlight
  AtMostOncePerTTL
  HitIsFresh
PROPERTIES
  EvictsOldest
  EveryRequestSettles
CHECK_DEADLOCK FALSE
