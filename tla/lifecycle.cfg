SPECIFICATION Spec
CONSTANTS
  Files <- SomeFiles
  Envs <- SomeEnvs
  Request = {r1, r2}
  Long <- LongTexts
  Hollow <- HollowTexts
  Lower <- LowerCase
  Atoi <- Numbers
  MaxEntries = 3
CHECK_DEADLOCK FALSE
INVARIANTS
  TypeOK
  LoadIsMerge
  GatesUp
  ConnectionsGivenBack
  NothingUsedAfterClose
PROPERTIES
  Exits
