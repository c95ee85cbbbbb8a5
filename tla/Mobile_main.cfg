SPECIFICATION MobileSpec
CONSTANTS
  TaskIds = {1, 2}
  MaxSounds = 2
  MaxReconnectAttempts = 1
  MaxStale = 1
  MaxQueue = 1
  MaxRequests = 1
INVARIANTS
  LeftCallHasNoLink
  QueueIsWorked
CONSTRAINTS CaptionsAtRest OneCrowd
CHECK_DEADLOCK FALSE
