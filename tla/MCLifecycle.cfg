CONSTANTS
  Plain = {p1, p2}
  Streaming = {s1}
  Reads = {g1, g2}
SPECIFICATION DrainFairSpec
INVARIANTS
  StoppedMeansQuiet
  CleanExitCutsNoMutation
PROPERTIES
  ShutdownCompletes
CHECK_DEADLOCK FALSE
