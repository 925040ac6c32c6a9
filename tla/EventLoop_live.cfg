\* The loop is used by other threads and by its own callbacks only.
SPECIFICATION FairSpec
CONSTANTS
  Threads = {t1, t2}
  Functors = {f, g}
  NoFunctor = NoFunctor
  Channels = {c}
  WakeupChannel = WakeupChannel
  MaxCounter = 2
  MaxPending = 3
  CallsBeforeLoop = FALSE
INVARIANTS
  TypeOK
  NoLostWakeup
  QuitWakesPoll
  ReactorInv
PROPERTIES
  RunsEveryFunctor
  QuitStops
  PollAgain
\* loop() returns for good, and then nobody may have anything to call.
CHECK_DEADLOCK FALSE
