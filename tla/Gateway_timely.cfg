SPECIFICATION FairSpec
CONSTANTS
  MaxReadings = 3
  Unknown = {2}
  SleepOutlastsRemoval = TRUE
  InsertsAvoidRemoval = FALSE
INVARIANTS
  ReadersSafe
  WalkTerminates
PROPERTIES
  BroadcastSafe
  ShutdownEnds
