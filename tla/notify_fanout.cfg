SPECIFICATION Spec
CONSTANTS
  Event = {e1, e2}
  Provider = {p1, p2}
  Advisories <- Mixed
CHECK_DEADLOCK FALSE
INVARIANTS
  EveryProviderOnce
PROPERTIES
  QuietAfterClose
  NoBackpressure
