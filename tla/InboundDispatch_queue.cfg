\* Two callers at once, room for one in the queue and for one in the relay; any
\* statement of a pickup or of finish_dispatch may raise; one cleanup at a time.
SPECIFICATION Spec
CONSTANTS
  Calls = {c1, c2}
  Agents = {g1}
  Apps = {x1}
  Nobody = Nobody
  MaxConcurrentCalls = 1
  MaxWaiting = 1
  MaxRestarts = 0
  DbFails = TRUE
SYMMETRY Callers
CONSTRAINTS OneCleanup OneSession
INVARIANTS
  QueueBound
  CapacityBound
  InboundLeavesNothing
CHECK_DEADLOCK FALSE
