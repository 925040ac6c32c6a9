SPECIFICATION Spec
CONSTANTS
  a = a
  c1 = c1
  c2 = c2
  NoChannel = NoChannel
  Channels = {a, c1, c2}
  Acceptors = {a}
  Shared = {c1, c2}
  Fds = {1, 2}
  FdOf <- MCFdOf
  MaxDestroys = 2
SYMMETRY MCSymmetry
INVARIANTS
  TypeOK
  NoCtlError
  PollerAgrees
  OnlyLiveRegistered
  ActiveAlive
  NoReadAfterClose
PROPERTY ClosedIsSilent
\* Everything may have been destroyed.
CHECK_DEADLOCK FALSE
