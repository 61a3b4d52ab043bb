SPECIFICATION Spec
CONSTANTS
  k1 = k1
  k2 = k2
  q1 = q1
  q2 = q2
  Nobody = Nobody
  Conns = {k1, k2}
  QpNums = {q1, q2}
  MaxOutstanding = 1
  SqHeadroom = 0
  SetupSends = 1
  Cap = 2
  MaxCqePerCq = 1
  ReclaimMaxTurns = 2
  PollBatch = 1
  Faults = {"handshake", "setup", "poll"}
  InboxCapacity <- Inboxes
SYMMETRY Symmetric
CHECK_DEADLOCK FALSE
INVARIANT PostedIsExact
INVARIANT CompletionsReachOwner
INVARIANT InboxesSuffice
INVARIANT NoLostWakeup
INVARIANT ExitIsClean
PROPERTY ReclaimEnds
