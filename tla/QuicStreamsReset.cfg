SPECIFICATION FairSpec
CONSTANTS
  Calls <- Resetting
  MaxLost = 1
PROPERTIES ResetReachesPeer
CHECK_DEADLOCK FALSE
