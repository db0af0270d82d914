CONSTANTS
  Cap = 3
  MaxOut = 5
  MaxNotes = 3
SPECIFICATION Spec
INVARIANTS
  DoneDelivered
CHECK_DEADLOCK FALSE
