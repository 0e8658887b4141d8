SPECIFICATION FairSpec
CONSTANTS
  NStreams = 2
  StreamLen = 2
  StreamWindow = 1
  ConnWindow = 1
  WndMul = 2
  Resettable = {1}
  MaxLost = 2
INVARIANTS NoProtocolError Watermarks
PROPERTIES CreditRefinement AllRead
CHECK_DEADLOCK FALSE
