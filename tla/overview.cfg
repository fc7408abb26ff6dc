SPECIFICATION Spec
CONSTANTS
  Server = {n1, n2, n3}
  Stream = {s1}
  Consumer = {k1}
  Placements <- MCPlacements
  Call = {a}
  MaxMoves = 1
  None = None
CHECK_DEADLOCK FALSE
INVARIANTS
  InboxGivenBack
  StreamCountedOnce
PROPERTIES
  CallsEnd
