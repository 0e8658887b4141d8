SPECIFICATION FairSpec
CONSTANTS
  Readers = {"r1"}
  Writers = {"w1", "w2", "w3"}
  group_count = 3
  IdMod = 3
  MaxDepth = 2
  MaxVersion = 2
  MaxSyncs = 3
INVARIANTS NoUseAfterFree GracePeriod
PROPERTIES SyncsReturn
CHECK_DEADLOCK FALSE
