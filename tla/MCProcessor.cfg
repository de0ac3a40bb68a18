SPECIFICATION FairSpec
CONSTANTS
  Calls = {c1, c2}
  DoomThreshold = 2
  ShouldBreak = TRUE
  MaxAttempts = 3
  InitialDelay = 3
  Factor = 3
  MaxPlain = 4
  MaxDelay = 7
  Headers <- AskedFor
INVARIANTS ProcessorTypeOK SavedIsFinal PartsEnd RejectionStops
PROPERTIES InterruptEnds
CHECK_DEADLOCK FALSE
