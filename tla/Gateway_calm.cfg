SPECIFICATION FairSpec
CONSTANTS
  MaxReadings = 3
  Unknown = {2}
  SleepOutlastsRemoval = TRUE
  InsertsAvoidRemoval = TRUE
INVARIANTS
  NoFault
  NothingLeftBehind
PROPERTIES
  BroadcastFair
  Reclaimed
