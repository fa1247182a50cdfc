SPECIFICATION Spec
CONSTANTS
  Buf = {b1, b2}
  Task = {t1, t2}
  None = None
  Sizes = {1, 3}
  Cuts = {2, 4}
  MaxU32 = 2
  N = 1
  MaxList = 2
  Imm = {0, 1}
INVARIANTS TypeOK DeviceMemory NoRace EndToEnd
SYMMETRY Interchangeable
