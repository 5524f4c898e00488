SPECIFICATION Spec
CONSTANTS
  Client = {c1, c2, c3}
  Talker = {c1}
  MaxReadings = 1
  OpenMax = 4
INVARIANT CloseFreesDescriptor
