SPECIFICATION Spec
CONSTANTS
  Cluster = {c1, c2}
  Handler = {h1}
  Cap = 1
  MaxTick = 2
CHECK_DEADLOCK FALSE
INVARIANTS
  TypeOK
  CacheNotBehindStream
  OrderedButForGreeting
  OpenIffRegistered
  JoinsWithoutGap
  PanicNeedsDisconnect
PROPERTIES
  FeedSpec
  RefresherNeverBlocked
  StreamsEndOnCancel
  DisconnectReleases
