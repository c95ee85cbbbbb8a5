\* A chunk that arrives while a catch-up transcribes.
SPECIFICATION AudioSpec
CONSTANTS
  Capacity = 3
  MaxChunks = 6
  MaxTroubles = 2
INVARIANTS
  LateIsTranscribed
CHECK_DEADLOCK FALSE
