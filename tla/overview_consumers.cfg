SPECIFICATION Spec
CONSTANTS
  Server = {n1, n2}
  Stream = {s1}
  Consumer = {k1}
  Placements <- MCPlacements
  Call = {a}
  MaxMoves = 1
  None = None
CHECK_DEADLOCK FALSE
INVARIANT ConsumerCountedOnce
