SPECIFICATION FairSpec
CONSTANTS
  MaxBlock = 3
  Sizes = {1, 3}
  Uploads = {2}
  Sender = {o1}
  Server = Server
  None = None
  MaxRequest = 3
  MaxMessage = 2
  MaxFault = 1
  MaxAsk = 1
  MaxConnection = 2
INVARIANTS
  TypeOK
  RequestsOnce
  NothingLost
  ClientHasAll
  OneTimeEnds
  LeavesSoon
PROPERTIES
  RequestAnswered
  ImplementsDialogue
CHECK_DEADLOCK FALSE
