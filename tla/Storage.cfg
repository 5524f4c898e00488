SPECIFICATION Spec
CONSTANTS
  MaxRuns = 3
  MaxReadings = 2
  Value <- MCValue
  RoundedUp = {}
  Timestamp = {1, 2}
INVARIANTS TypeOK ConnectedTable HandlesBounded QueriesSound
PROPERTY RowsKept
CHECK_DEADLOCK FALSE
