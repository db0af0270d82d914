CONSTANTS
  Appends = {a1, a2, a3}
  Sizes = {2, 4, 6}
  MaxBytes = 5
  None = None
  MaxTime = 1
SPECIFICATION Spec
INVARIANT NoEntryLost
CHECK_DEADLOCK FALSE
