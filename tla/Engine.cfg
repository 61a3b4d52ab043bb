SPECIFICATION Spec
CONSTANTS
  f1 = f1
  f2 = f2
  c1 = c1
  Futures = {f1, f2}
  Conns = {c1}
  ConnOf <- OneConnection
  MaxInflight = 2
  CqCapacity = 2
  MaxWr = 2
  MaxGeneration = 2
  ScanBudget = 1
  Scenarios <- DropsAndCloses
CHECK_DEADLOCK FALSE
INVARIANT MrOwnership
INVARIANT AccountsBalance
INVARIANT CompletionsRouted
INVARIANT DropServed
INVARIANT ReclamationHasDeadline
INVARIANT RetiredIsDrained
INVARIANT ScansMissNothing
INVARIANT FinishedResolvesAll
SYMMETRY Interchangeable
