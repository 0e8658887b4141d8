SPECIFICATION FairSpecOut
CONSTANTS
  Calls <- Busy
  MaxLost = 1
INVARIANTS DueIsActive AssertionsHold EndsAgree
PROPERTIES FlushFinishes
CHECK_DEADLOCK FALSE
