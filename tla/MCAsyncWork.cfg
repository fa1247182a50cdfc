SPECIFICATION Spec
CONSTANTS
  Work = {w1, w2, w3}
  None = None
  Window = 3
  MaxSendWr = 1
  MaxRecvWr = 1
  MaxEvents = 2
  Repoll = TRUE
  DriverErrors = TRUE
INVARIANTS DeviceHasBuffers WrIdValid StepsInOrder NobodyForgotten
CHECK_DEADLOCK FALSE
SYMMETRY Interchangeable
