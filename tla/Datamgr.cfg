SPECIFICATION Spec
CONSTANTS
  Sensor = {1, 2}
  Room = {1, 2}
  Value = {0, 8, 15, 25}
  RUN_AVG_LENGTH = 3
  SET_MIN_TEMP = 10
  SET_MAX_TEMP = 20
  MaxFile = 3
  MaxReadings = 5
INVARIANTS TypeOK FirstLineWins WindowIsRecent
 
CHECK_DEADLOCK FALSE
