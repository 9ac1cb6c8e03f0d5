SPECIFICATION Spec
CONSTANTS
  Attempts = 1
  Reconnects = 1
  WaitCalls = 0
  Rank <- SomeRank
  Brokers = {"b1"}
  Workers = {"w1", "w2"}
  Clients = {"c"}
  Requests = {"r1", "r2"}
  ClientOf <- OneClient
  MaxLiveness = 1
  MaxCrashes = 1
  MaxHurries = 1
  None = None
INVARIANTS
  TypeOK
  InOnePlace
PROPERTIES
  ImplementsService
CHECK_DEADLOCK FALSE
