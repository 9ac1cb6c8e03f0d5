SPECIFICATION Spec
CONSTANTS
  Inboxes = {"x", "y", "z"}
  Outs = {"o", "p"}
  Ids = {"e1", "e2"}
  Copies <- SomeTwice
  Falsy = {}
  Unjoined = {"e2"}
  Purging = TRUE
  NoPart = NoPart
INVARIANTS
  TypeOK
  JoinsWhole
  PartsUsedOnce
  LostOnlyToOvertakenSend
PROPERTIES
  WholeIdsJoin
  EntriesLeave
CHECK_DEADLOCK FALSE
