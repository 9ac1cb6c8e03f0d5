SPECIFICATION Spec
CONSTANTS
  Found <- SomeFound
  NoPath = "nopath"
  NoFilter = NoFilter
  Requests = {"r1", "r2"}
  Shapes <- SomeShapes
  Outbound <- Services
  Routers <- SomeRouters
  Backends <- SomeBackends
  Input <- SomeInput
  Does <- SomeDoes
  ErrorsBack = {"router", "user", "users"}
  None = None
INVARIANTS
  TypeOK
  AnswerFits
  PendingInFlight
PROPERTIES
  ImplementsTable
  EveryRequestSettles
CHECK_DEADLOCK FALSE
