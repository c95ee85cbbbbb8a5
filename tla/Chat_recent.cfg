SPECIFICATION ChatSpec
CONSTANTS
  None = None
  Tabs = {t1}
  Convs = {c1}
  Calls = {k1}
  Ids = {1}
  Replies <- MCRecentReplies
  Typed <- MCRecentTyped
  Starts <- MCStarts
  Valid <- MCEither
  HistoryLimit = 20
  ContextLimit = 10
  MaxMessages = 24
  MaxFailures = 0
  MaxLoads = 0
INVARIANT
  LlmSeesTheMessage
CHECK_DEADLOCK FALSE
