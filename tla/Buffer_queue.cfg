SPECIFICATION Spec
CONSTANTS
  Bytes = {0, 1}
  Zero = 0
  kCheapPrepend = 2
  kInitialSize = 3
  ExtraSize = 2
  MaxChunk = 4
  Chunks <- MCChunks
  MaxReadable = 5
INVARIANTS
  TypeOK
  CapacityBounded
PROPERTY IsQueue
