SPECIFICATION Spec
CONSTANTS
  Request = {r1}
  Asks <- AllAsks
  Settings <- AllSettings
CHECK_DEADLOCK FALSE
INVARIANTS
  TypeOK
  OnlyEntitledApplied
  RefusedUntouched
PROPERTIES
  EveryRequestEnds
