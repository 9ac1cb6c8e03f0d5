SPECIFICATION Spec
CONSTANTS
  Attempts = 2
  Reconnects = 2
  WaitCalls = 1
  Rank <- SomeRank
  Brokers = {"b1"}
  Workers = {"w1"}
  Clients = {"c"}
  Requests = {"r1"}
  ClientOf <- OneClient
  MaxLiveness = 2
  MaxCrashes = 1
  MaxHurries = 1
  None = None
PROPERTIES
  WorkersComeBack
  RequestsSettle
CHECK_DEADLOCK FALSE
