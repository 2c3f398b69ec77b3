CONSTANTS
  a = a
  e = e
  File = {a, e}
  Size <- MCSize
  Room = 2
  Word = 8
  Own = own
  Other = {o}
  None = None
  MaxQueue = 3
  MaxCall = 2
  MaxVanish = 1
  MaxReuse = 1
SPECIFICATION FairSpec
INVARIANTS TypeOK FileWhole FirstIsHeader DoneMeansSent
PROPERTY FileSent
CHECK_DEADLOCK FALSE
