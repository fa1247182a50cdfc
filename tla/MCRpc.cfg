SPECIFICATION Spec
CONSTANTS
  p1 = p1
  p2 = p2
  None = None
  Proc <- MCProc
  Iters <- MCIters
  Faulty = {p2}
INVARIANTS StopsOnly
PROPERTIES ExchangeSpec FinishesUnless
CHECK_DEADLOCK FALSE
