SPECIFICATION BuffersSpec
CONSTANTS
  Levels = 3
  Bytes = {0, 1}
  Sizes = {1, 3}
  InitSize = 3
  MaxSeq = 5
  MaxEpoch = 1
  Window = 2
  QueueLimit = 2
  MaxLeft = 1
INVARIANTS Tiled RefusedOnlyIfFull HandedOutZeroed NoReplay FreshPasses BitmapExact
PROPERTY IsChannel
