SPECIFICATION PagesSpec
INVARIANTS ErrorIsOfSelection NoEndlessSpinner  GoneCallIsLeft
CONSTRAINT CaptionsAlone
CHECK_DEADLOCK FALSE
CONSTANTS
  None = None
  MaxSessions = 1
  MaxTries = 1
  EventLimit = 1
  LogLimit = 1
  MaxTurns = 1
  MaxDeltas = 2
  MaxMessages = 4
  MaxNoise = 1
  Convs = {c1, c2}
  MaxSelects = 3
  Callers = {k1}
  PollIds = {1, 2}
  MaxPickups = 1
