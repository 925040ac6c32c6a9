SPECIFICATION FairSpec
CONSTANTS
  Usages <- MCUsages
  IgnoresSigPipe = TRUE
  highWaterMark_ = 2
  Size = 2
  SendBuffer = 2
  MaxCalls = 3
INVARIANTS
  TypeOK
  GracefulFin
  ClosedIsDown
PROPERTIES
  Ordered
  Drains
  FinSent
  ClosedIsFreed
\* The connection is gone, or nobody calls any more.
CHECK_DEADLOCK FALSE
