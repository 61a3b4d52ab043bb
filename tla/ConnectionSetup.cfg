SPECIFICATION Spec
CONSTANTS
  None = None
  a1 = a1
  a2 = a2
  k1 = k1
  k2 = k2
  o1 = o1
  Accepts = {a1, a2}
  Kids = {k1, k2}
  Outs = {o1}
  Posting = {k1}
  Backlog = 1
  MaxConns = 2
  Scenarios <- Setups
CHECK_DEADLOCK FALSE
INVARIANT SlotsExact
INVARIANT DeliveredStaysOpen
INVARIANT DestroyedIsSettled
INVARIANT NothingStuck
