\* The user's and the recipient's audio; a buffer of three chunks.
SPECIFICATION AudioSpec
CONSTANTS
  Capacity = 3
  MaxChunks = 6
  MaxTroubles = 2
INVARIANTS
  UnsentIsTheTail
  NoAudioIsForgotten
CHECK_DEADLOCK FALSE
