SPECIFICATION Spec
CONSTANTS
  Usages <- MCBorrowing
  IgnoresSigPipe = TRUE
  highWaterMark_ = 2
  Size = 2
  SendBuffer = 2
  MaxCalls = 1
INVARIANT BoundAlive
CHECK_DEADLOCK FALSE
