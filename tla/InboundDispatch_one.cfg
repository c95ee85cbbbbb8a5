\* One call whose webhook may be repeated, two agents, two app sockets, one restart
\* of the relay.
SPECIFICATION FairSpec
CONSTANTS
  Calls = {c1}
  Agents = {g1, g2}
  Apps = {x1, x2}
  Nobody = Nobody
  MaxConcurrentCalls = 1
  MaxWaiting = 2
  MaxRestarts = 1
  DbFails = FALSE
INVARIANTS
  OneAgentPerCall
  CallIsWatched
  DeadlineDecides
PROPERTIES
  RefinesRow
  AbandonedEnds
CHECK_DEADLOCK FALSE
