CONSTANTS
  ExecReqs = {e1, e2}
  StreamReqs = {e2}
  PatchReqs = {p1}
  Creator = creator
  NoState = NoState
  Torn = Torn
  MaxCrashes = 1
SPECIFICATION FairSpec
INVARIANTS
  AckDurable
  IdleMeansSaved
  AckedTurnsUnique
PROPERTIES
  ImplementsDurableSession
  RequestsSettle
CHECK_DEADLOCK FALSE
