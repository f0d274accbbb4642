SPECIFICATION FairSpec
CONSTANTS
  Clients = {c1, c2}
  RING = 2
  EventLimit = 4
  BatchLimit = 3
  RestartLimit = 1
INVARIANTS
  RingHoldsLatest
PROPERTIES
  StopsOnlyWhenBehind
  ImplementsFeed
  CatchesUp
CHECK_DEADLOCK FALSE
