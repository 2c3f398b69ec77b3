SPECIFICATION Spec
CONSTANTS
  MaxBlock = 3
  Sizes = {1, 3}
  Uploads = {2}
  Sender = {o1}
  Server = Server
  None = None
  MaxRequest = 2
  MaxMessage = 2
  MaxFault = 0
  MaxAsk = 0
  MaxConnection = 2
INVARIANTS
  NumbersTellMessages
CHECK_DEADLOCK FALSE
