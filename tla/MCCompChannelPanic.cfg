SPECIFICATION Spec
CONSTANTS
  Addr = {a1, a2}
  Waiter = {w1, w2}
  None = None
  M = 3
  MaxHandles = 2
  MaxEvents = 2
PROPERTY PanicMeansDestroyed
CHECK_DEADLOCK FALSE
