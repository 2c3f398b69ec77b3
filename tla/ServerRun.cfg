CONSTANTS
  MaxConnection = 2
  DBMaxConnect = 1
  MaxAccept = 3
  MaxQuery = 2
SPECIFICATION Spec
INVARIANTS TypeOK ServesReady StopSound MetClosed StoredReleased
CHECK_DEADLOCK FALSE
