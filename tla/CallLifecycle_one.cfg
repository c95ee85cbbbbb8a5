\* One start of one call; two app sockets, an end request, a monitor.
SPECIFICATION FairSpec
CONSTANTS
  Calls = {"c1"}
  Starts = {"s1"}
  Enders = {"e1"}
  Apps = {"a1", "a2"}
  Monitors = {"m1"}
  MaxConcurrentCalls = 1
  None = None
  CallId <- MCCallIdOne
INVARIANTS
  NoSlotLeak
  NothingUnaccounted
PROPERTIES
  SlotComesBack
  RefinesCapacity
CHECK_DEADLOCK FALSE
