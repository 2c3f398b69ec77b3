SPECIFICATION Spec
CONSTANTS
  Slot = {s1, s2}
  PoolBlock = 1
  None = None
  MaxPart = 1
  MaxUpload = 2
  MaxCall = 2
  MaxFail = 0
  MaxReuse = 0
INVARIANTS
  BufferExclusive
CHECK_DEADLOCK FALSE
