SPECIFICATION Spec
CONSTANTS
  Actors = {"a", "b"}
  LogActor = "log"
  ErrorActor = "err"
  Size = 12
  Calls <- ExplicitCalls
  MaxCalls = 1
PROPERTY
  StartStartsAll
CHECK_DEADLOCK FALSE
