CONSTANTS
  Capacity = 7
  MaxMessage = 2
  MaxInFlight = {}
  DeviceLimit = 64
  Batch = 2
  HoldLimit = 2
  OutLen = 1
  MinFree = 1
  SendLens = {1, 2}
  Quota <- OneWay
  DelayedAcks = TRUE
  MayDisconnect = TRUE
SPECIFICATION FairSpec
CHECK_DEADLOCK FALSE
INVARIANT NoOverwrite
PROPERTY ImplementsChannel
PROPERTY EverythingArrives
