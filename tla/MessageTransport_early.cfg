SPECIFICATION Spec
CONSTANTS
  Side <- TwoSides
  Peer <- OtherSide
  SendBuffers <- OneEach
  RecvBuffers <- OneEach
  Quota <- OneFromOne
  Closers = {}
  CancelAt = {}
  Faults = {}
  MaxFaults = 0
  OperationPermits = 3
CHECK_DEADLOCK FALSE
INVARIANT HealthyPeersStayUp
