SPECIFICATION Spec
CONSTANTS
  Codes = {22, 38, 95}
  NumDevices <- MCNumDevices
  MaxMissing = 1
  None = None
INVARIANTS ErrorIsOwn NoWildCall FreedOnce OnlyEmptyGidRefused
