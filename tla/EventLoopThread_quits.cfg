SPECIFICATION FairSpec
CONSTANTS
  Owner = owner
  Functors = {f, g}
  NoFunctor = NoFunctor
  Channels = {c}
  WakeupChannel = WakeupChannel
  MaxCounter = 2
  MaxPending = 2
  OwnerWaits = TRUE
  CallbacksQuit = {TRUE, FALSE}
  CallsBeforeLoop = TRUE
INVARIANTS
  PublishedAlive
  Joined
PROPERTIES
  RunsInOrder
  StartLoopReturns
  DestructorReturns
CHECK_DEADLOCK FALSE
