CONSTANTS
  Creator = creator
  Resumers = {s1, s2}
  Deleters = {d1}
  Users = {u1, u2}
  Servers = {m1, m2}
  None = None
  MaxCrashes = 1
SPECIFICATION Spec
SYMMETRY Symmetry
INVARIANTS
  LiveOwnsFiles
  QuietDeleteHonest
CHECK_DEADLOCK FALSE
