SPECIFICATION FairSpec
CONSTANTS
  MaxOffset = 6
  Sizes = {3, 6}
  MaxLost = 2
INVARIANTS RangeListsExact OneStatePerByte UnackedBytesHeld
PROPERTIES EventuallyAcked
CHECK_DEADLOCK FALSE
