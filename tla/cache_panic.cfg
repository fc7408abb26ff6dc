SPECIFICATION Spec
CONSTANTS
  Cluster = {c1}
  Handler = {h1}
  Cap = 2
  MaxTick = 2
CHECK_DEADLOCK FALSE
INVARIANT RefresherSurvives
