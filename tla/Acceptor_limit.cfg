SPECIFICATION FairSpec
CONSTANTS
  Peers = {p1, p2, p3}
  Limit = 3
INVARIANTS NoDescriptorLeak
PROPERTY EveryoneAccepted
CHECK_DEADLOCK FALSE
