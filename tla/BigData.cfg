SPECIFICATION FairSpec
CONSTANTS
  Slot = {s1, s2}
  PoolBlock = 2
  None = None
  MaxPart = 2
  MaxUpload = 2
  MaxCall = 3
  MaxFail = 1
  MaxReuse = 1
INVARIANTS
  TypeOK
  PoolInv
  OwnData
  WholeWhenReady
PROPERTIES
  GetReturns
CHECK_DEADLOCK FALSE
