SPECIFICATION Spec
CONSTANTS
  Calls <- Concluding
  MaxLost = 1
INVARIANT FreedHasFinalSize
CHECK_DEADLOCK FALSE
