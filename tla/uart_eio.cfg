SPECIFICATION Spec
CONSTANTS
  FifoDepth = 2
  AlmostLevel = 1
  BUF_LEN = 3
  TIMEOUT = 2
  INT_MAX = 4
  MaxTx = 5
  MaxRx = 0
  Timeouts = {0, 2, 4}
  Counts = {1, 3}
PROPERTY
  EioMeansTimeout
