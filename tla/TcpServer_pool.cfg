SPECIFICATION FairSpec
CONSTANTS
  io1 = io1
  io2 = io2
  Base = base
  NoLoop = NoLoop
  Pool <- MCPool
  MaxConnections = 3
  Users = {1}
INVARIANTS
  TypeOK
  RegisteredAlive
  DestroyedOnce
  Balanced
PROPERTIES
  RemovedForGood
  Lifecycle
  ClosedIsDestroyed
  TornDown
\* The process ends.
CHECK_DEADLOCK FALSE
