SPECIFICATION Spec
CONSTANTS
  Slot = {s1}
  PoolBlock = 1
  None = None
  MaxPart = 3
  MaxUpload = 2
  MaxCall = 1
  MaxFail = 1
  MaxReuse = 1
INVARIANTS
  BrokenFileGone
CHECK_DEADLOCK FALSE
