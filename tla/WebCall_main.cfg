SPECIFICATION WebCallSpec
CONSTANTS
  Urls = {u}
  NoUrl = NoUrl
  MaxReconnectAttempts = 1
  MaxStale = 1
  MaxStarts = 2
  Modes <- MCModes
  MaxLate = 1
  MaxCaptions <- MCMaxCaptions
  MaxQueue <- MCMaxQueue
INVARIANTS
  OneLiveSocket
  LinkIsWorkedOn
  StreamIsLast
  EnabledIsHeard
  QueuedIsPlayed
PROPERTIES
  EndedLetsGo
  ConnectingEnds
  RefinesLink
CHECK_DEADLOCK FALSE
