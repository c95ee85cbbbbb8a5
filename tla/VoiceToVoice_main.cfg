\* The greeting and the user's requests; one harmful text, one response nobody asked for.
SPECIFICATION FairSpec
CONSTANTS
  Askers = {"app", "greeter"}
  MaxAsks = 2
  Faulty = {"harm", "spontaneous"}
  MaxFaults = 1
  MaxEvents = 1
  MaxSpeeches = 1
INVARIANTS
  BlockedIsSilent
  StreamingIsMasked
PROPERTIES
  MutesEnd
CHECK_DEADLOCK FALSE
