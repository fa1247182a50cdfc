SPECIFICATION Spec
CONSTANTS
  Ctx = {ctx}
  Pd = {pd}
  Cc = {cc}
  Cq = {cq}
  Srq = {srq}
  Qp = {qp}
  Mr = {}
  Mw = {}
  Ah = {}
  Dm = {}
  None = None
  MaxHandles <- OneHandle
INVARIANTS TypeOK NoFailedAssert BuilderBacked UsableBacked CqRefExact NoLeak
PROPERTY VerbsSpec
