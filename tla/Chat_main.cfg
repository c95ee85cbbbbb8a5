SPECIFICATION ChatSpec
CONSTANTS
  None = None
  Tabs = {t1, t2}
  Convs = {c1}
  Calls = {k1, k2}
  Ids = {1, 2}
  Replies <- MCReplies
  Typed <- MCTyped
  Starts <- MCStarts
  Valid <- MCEither
  HistoryLimit = 20
  ContextLimit = 10
  MaxMessages = 3
  MaxFailures = 1
  MaxLoads = 2
INVARIANTS
  EveryCallSpentAReady
  NoForeignAnswer
PROPERTIES
  FinishedStaysFinished
  LoadingEnds
CHECK_DEADLOCK FALSE
