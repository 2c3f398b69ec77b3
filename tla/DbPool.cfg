SPECIFICATION FairSpec
CONSTANTS
  DBMaxConnect = 2
  Thread = {t1, t2}
  None = None
  CountHalf = 2
  MaxDown = 1
INVARIANTS
  TypeOK
  LockInv
  OwnRows
PROPERTIES
  ImplementsPool
  EveryRequestServed
