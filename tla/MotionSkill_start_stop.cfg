\* Every configuration of the node with a MoveIt that restarts, a motion skill and other
\* clients.  After main and the skill have returned the system stops.
CONSTANTS
  Configs <- AllConfigs
  MaxRestarts = 1
  Executions = {e1}
SPECIFICATION MotionFairSpec
INVARIANTS
  TypeOK
  AcceptedIsPopulated
  OneQueryPending
  MotionTypeOK
  PlannedIsPopulated
PROPERTIES
  EventuallyReady
  ShutdownCompletes
  RequestsAreAnswered
  ExecuteReturns
CHECK_DEADLOCK FALSE
