SPECIFICATION Spec
CONSTANTS
  e1 = e1
  e2 = e2
  Size = 1
  Actor <- ServiceActors
  Queue <- ServiceQueues
  Reader <- ServiceReader
  Port <- ServiceQueues
  Leads <- ServiceLeads
  Out <- ServiceOut
  Err <- ServiceErr
  Blocking = {"front"}
  Rescue = {"worker"}
  MaxRescue = 1
  Behaviour <- ServiceBehaviour
  Event = {e1, e2}
  Entry <- AtFront
  Stoppable = {"worker"}
  MaxHops = 2
  NoQueue = "none"
SYMMETRY EventSymmetry
INVARIANTS TypeOK QueuesSound Conservation
           ErrorOnlyAfterRescues DuplicatesOnlyFromRescue
CHECK_DEADLOCK FALSE
