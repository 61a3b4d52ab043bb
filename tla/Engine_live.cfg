SPECIFICATION FairSpec
CONSTANTS
  f1 = f1
  f2 = f2
  c1 = c1
  Futures = {f1}
  Conns = {c1}
  ConnOf <- OneConnection
  MaxInflight = 1
  CqCapacity = 1
  MaxWr = 2
  MaxGeneration = 2
  ScanBudget = 1
  Scenarios <- Endings
CHECK_DEADLOCK FALSE
PROPERTY CloseResolves
 
PROPERTY ShutdownFinishes
