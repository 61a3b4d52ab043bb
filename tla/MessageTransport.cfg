SPECIFICATION Spec
CONSTANTS
  Side <- TwoSides
  Peer <- OtherSide
  SendBuffers <- OneEach
  RecvBuffers <- OneEach
  Quota <- TwoFromOne
  Closers = {1}
  CancelAt = {"credit", "event", "reactor", "posted"}
  Faults = {"capacity", "ambiguous", "defer", "timeout", "driver", "link", "shutdown", "close", "cancel"}
  MaxFaults = 1
  OperationPermits = 3
CHECK_DEADLOCK FALSE
INVARIANT BuffersConserved
INVARIANT CreditsConserved
 
INVARIANT CloseTellsFailure
INVARIANT NothingStuck
