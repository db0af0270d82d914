CONSTANTS
  Appends = {a1, a2, a3}
  Sizes = {2, 4, 6}
  MaxBytes = 5
  None = None
  MaxTime = 1
SPECIFICATION Spec
INVARIANTS
  EntriesKept
  SerialLogSound
  QuietReadComplete
CHECK_DEADLOCK FALSE
