SPECIFICATION Spec
CONSTANTS
  Owner = owner
  Functors = {f, g}
  NoFunctor = NoFunctor
  Channels = {c}
  WakeupChannel = WakeupChannel
  MaxCounter = 2
  MaxPending = 2
  OwnerWaits = TRUE
  CallbacksQuit = {FALSE}
  CallsBeforeLoop = FALSE
INVARIANT QuitOnLiveLoop
CHECK_DEADLOCK FALSE
