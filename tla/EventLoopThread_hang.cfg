SPECIFICATION TimedSpec
CONSTANTS
  Owner = owner
  Functors = {f, g}
  NoFunctor = NoFunctor
  Channels = {c}
  WakeupChannel = WakeupChannel
  MaxCounter = 2
  MaxPending = 2
  OwnerWaits = FALSE
  CallbacksQuit = {FALSE}
  CallsBeforeLoop = FALSE
PROPERTY DestructorReturns
CHECK_DEADLOCK FALSE
