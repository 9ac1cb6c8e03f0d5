SPECIFICATION Spec
CONSTANTS
  Actors = {"a", "b"}
  LogActor = "log"
  ErrorActor = "err"
  Size = 12
  Calls <- UsualCalls
  MaxCalls = 2
INVARIANTS
  TypeOK
  SentIsRead
  EntriesInOrder
PROPERTY
  StartStartsAll
CHECK_DEADLOCK FALSE
