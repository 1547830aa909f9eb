SPECIFICATION Spec
CONSTANTS
  c1 = c1
  c2 = c2
  Conn = {c1, c2}
  Idle = Idle
  Arrival <- MCArrival
  Timeout = 1
  Budget <- MCBudget
  MaxId = 3
CHECK_DEADLOCK FALSE
INVARIANT
  WaitingHasDeadline
