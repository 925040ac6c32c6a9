SPECIFICATION Spec
CONSTANTS
  Threads = {t1, t2}
  Levels = {"INFO", "FATAL"}
  MaxCalls = 2
INVARIANT NothingStale
CHECK_DEADLOCK FALSE
