SPECIFICATION Spec
CONSTANTS
  MaxReadings = 2
  Unknown = {2}
  SleepOutlastsRemoval = TRUE
  InsertsAvoidRemoval = FALSE
INVARIANT EmptyTailMeansEmptyHead
