SPECIFICATION Spec
CONSTANTS
  MaxReadings = 3
  Unknown = {2}
  SleepOutlastsRemoval = FALSE
  InsertsAvoidRemoval = FALSE
INVARIANTS
  TypeOK
  InOrderOnce
  FreedAfterBoth
  SoleRemover
CHECK_DEADLOCK FALSE
