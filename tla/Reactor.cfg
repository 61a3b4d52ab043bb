SPECIFICATION Spec
CONSTANTS
  Producers = {p1}
  MaxCqes = 1
  MaxQueued = 1
  MaxEvents = 2
  MaxTime = 1
  ActionBudget = 8
  Scenarios <- SmallScenarios
INVARIANT NoLostWakeup
INVARIANT NoSourceStarved
CHECK_DEADLOCK FALSE
