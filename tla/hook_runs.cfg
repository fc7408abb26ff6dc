SPECIFICATION Spec
CONSTANTS
  Cluster = {c1, c2}
  Poll = {p1, p2}
  MaxRuns = 2
  MaxVersion = 1
  None = None
CHECK_DEADLOCK FALSE
INVARIANTS
  OverviewIsSelected
  OneInterval
  PollsOnlyWhenClosed
PROPERTIES
  FallbackShows
