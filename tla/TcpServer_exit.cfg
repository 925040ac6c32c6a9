SPECIFICATION Spec
CONSTANTS
  io1 = io1
  io2 = io2
  Base = base
  NoLoop = NoLoop
  Pool <- MCPool
  MaxConnections = 2
  Users = {1}
INVARIANT DestroyedOnExit
CHECK_DEADLOCK FALSE
