SPECIFICATION FairSpec
CONSTANTS
  Client = {c1, c2, c3}
  Talker = {c1}
  MaxReadings = 2
  OpenMax = 4
INVARIANTS TypeOK NeverNull ClosedOnce ForwardsPrefix DescriptorsExact SilentNeverBlocks EndsUnasked
PROPERTIES ServerEnds RemovedForCause
