SPECIFICATION Spec
CONSTANTS
  Tab = {t1, t2}
  ann = ann
  bob = bob
  Person = {ann, bob}
  Files <- SomeFiles
  FlowTTL = 0
  SessionTTL = 1
  MaxLogins = 2
  MaxTime = 2
  None = None
  Keep = Keep
SYMMETRY Symmetry
INVARIANT TypeOK
PROPERTIES
  LoginRefusedForAReason
  SessionLostForAReason
  ServedMeansAllowed
