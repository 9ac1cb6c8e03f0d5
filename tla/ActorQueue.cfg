SPECIFICATION FairSpec
CONSTANTS
  Size = 2
  Producer = {p1, p2, p3}
  Burst = 2
INVARIANTS TypeOK NoLostWakeup StreamsIntact
PROPERTIES ImplementsChannel EverythingConsumed
CHECK_DEADLOCK FALSE
