SPECIFICATION Spec
CONSTANTS
  Request = {r1, r2, r3}
  Asks <- RacingAsks
  Settings <- Open
SYMMETRY Symmetry
CHECK_DEADLOCK FALSE
INVARIANTS
  ResultMeansApplied
  AtMostOnce
