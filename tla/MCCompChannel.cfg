SPECIFICATION Spec
CONSTANTS
  Addr = {a1, a2}
  Waiter = {w1, w2}
  None = None
  M = 3
  MaxHandles = 2
  MaxEvents = 2
INVARIANTS TypeOK NoUseAfterFree AckExact DelCqRefFinds
PROPERTY DropCompletes
CHECK_DEADLOCK FALSE
