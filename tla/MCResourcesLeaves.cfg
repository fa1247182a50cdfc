SPECIFICATION Spec
CONSTANTS
  Ctx = {c1, c2}
  Pd = {pd}
  Cc = {}
  Cq = {}
  Srq = {srq}
  Qp = {}
  Mr = {mr}
  Mw = {mw}
  Ah = {ah}
  Dm = {dm}
  None = None
  MaxHandles <- TwoOfPd
INVARIANTS OneContext NoFailedAssert
SYMMETRY Interchangeable
