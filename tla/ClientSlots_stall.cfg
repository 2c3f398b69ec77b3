SPECIFICATION FairSpec
CONSTANTS
  MaxConnection = 1
  Conn = {c1, c2}
  FD = {f1, f2}
  None = None
  CountMod = 4
PROPERTIES
  StalledClientForgotten
