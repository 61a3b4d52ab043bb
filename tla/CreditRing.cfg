CONSTANTS
  Capacity = 5
  MaxMessage = 2
  MaxInFlight = {}
  DeviceLimit = 64
  Batch = 2
  HoldLimit = 9
  OutLen = 1
  CreditModulus = 3
  Reapers = {1, 2}
  SendLens = {1, 2}
  Quota <- OneWay
  DelayedAcks = TRUE
  MayDisconnect = TRUE
SPECIFICATION FairSpec
CHECK_DEADLOCK FALSE
INVARIANT NoOverwrite
INVARIANT FlowControlExact
PROPERTY ImplementsChannel
 
