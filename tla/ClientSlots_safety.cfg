SPECIFICATION Spec
CONSTANTS
  MaxConnection = 2
  Conn = {c1, c2, c3}
  FD = {f1, f2, f3}
  None = None
  CountMod = 4
SYMMETRY Symmetric
INVARIANTS
  TypeOK
  OneThreadPerSlot
  DescriptorOwned
  NoDescriptorLeak
  NoSlotLeak
  CallbacksPaired
  JoinsLiveThread
  CountExact
PROPERTIES
  ImplementsPool
