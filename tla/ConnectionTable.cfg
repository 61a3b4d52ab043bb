SPECIFICATION Spec
CONSTANTS
  Capacity = 2
  PageSize = 1
  MaxGeneration = 2
  QpNum = {q1, q2}
  Ops = {o1}
INVARIANT TokensResolve
 
INVARIANT IndexExact
CHECK_DEADLOCK FALSE
