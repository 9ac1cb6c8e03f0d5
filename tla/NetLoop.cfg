SPECIFICATION OrderFairSpec
CONSTANTS
  e1 = e1
  Size = 1
  Actor <- LoopActors
  Queue <- LoopQueues
  Reader <- LoopReader
  Port <- LoopPorts
  Leads <- LoopLeads
  Out <- LoopOut
  Err <- LoopErr
  Blocking = {"b"}
  Rescue = {}
  MaxRescue = 0
  Behaviour <- LoopBehaviour
  Event = {e1}
  Entry <- AtFront
  Stoppable = {}
  MaxHops = 2
  NoQueue = "none"
INVARIANTS SerialConsume WorkInOrder SendsComplete
PROPERTIES EverythingSettles
CHECK_DEADLOCK FALSE
