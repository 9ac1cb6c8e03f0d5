SPECIFICATION Spec
CONSTANTS
  Attempts = 1
  Reconnects = 2
  WaitCalls = 0
  Rank <- SomeRank
  Brokers = {"b1", "b2"}
  Managers = {"c"}
  MaxLiveness = 2
  MaxBeats = 1
  MaxNews = 3
  MaxHurries = 1
  MaxLost = 1
  MaxDeaths = 1
  MaxRestarts = 1
INVARIANTS
  TypeOK
  NobodyForgotten
PROPERTY ManagersSettle
CHECK_DEADLOCK FALSE
