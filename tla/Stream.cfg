SPECIFICATION Spec
CONSTANTS
  NumSendBufs = 1
  NumRecvBufs = 2
  BufSize = 2
  SendBatch = 1
  RecvBatch = 2
  StashHeadroom = 1
  StashPoolCap = 1
  DrainBatch = 2
  Scenarios <- Pairs
INVARIANT InOrder
INVARIANT NothingStuck
CHECK_DEADLOCK FALSE
