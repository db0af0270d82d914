CONSTANTS
  Cap = 3
  MaxOut = 5
  MaxNotes = 3
SPECIFICATION FairSpec
INVARIANTS
  OutputComplete
  BoundOnlyOnSuccess
  DoneUnlessOverlap
PROPERTIES
  TurnEnds
CHECK_DEADLOCK FALSE
