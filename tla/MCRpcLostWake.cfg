SPECIFICATION Spec
CONSTANTS
  p1 = p1
  p2 = p2
  None = None
  Proc <- OneProc
  Iters <- OneIter
  Faulty = {}
PROPERTY Finishes
CHECK_DEADLOCK FALSE
