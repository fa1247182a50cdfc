SPECIFICATION Spec
CONSTANTS
  Work = {w1, w2}
  None = None
  Window = 1
  MaxSendWr = 1
  MaxRecvWr = 1
  MaxEvents = 2
  Repoll = FALSE
  DriverErrors = FALSE
INVARIANTS OpDroppedOnce NoSleepOnCompletion
PROPERTY FutureResolves
