CONSTANTS
  Lists = {tools, prompts}
  MaxId = 4
  MaxLines = 1
  Rpm = 3
  Window = 1
  MaxTime = 2
SPECIFICATION FairSpec
INVARIANTS
  TableExact
  WindowRespected
PROPERTIES
  EveryCallSettles
  CloseEndsChild
CHECK_DEADLOCK FALSE
