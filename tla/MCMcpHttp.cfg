CONSTANTS
  Main = main
  Refreshers = {r1, r2}
  MaxInFlight = 2
  MaxSid = 1
  MaxVer = 2
  Backoffs = 1
SPECIFICATION HttpFairSpec
INVARIANTS
  CatalogFollows
  GivenUpReported
PROPERTIES
  SessionKept
  CatalogCatchesUp
CHECK_DEADLOCK FALSE
