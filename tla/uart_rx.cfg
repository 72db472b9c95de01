SPECIFICATION FairSpec
CONSTANTS
  FifoDepth = 3
  AlmostLevel = 1
  BUF_LEN = 3
  TIMEOUT = 1
  INT_MAX = 3
  MaxTx = 1
  MaxRx = 4
  Timeouts = {}
  Counts = {1, 3}
INVARIANTS
  RxArmed
  ShadowInSync
PROPERTIES
  RxIsAStream
  ReadReturns
