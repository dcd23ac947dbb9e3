CONSTANTS
  Resources = {"r1"}
  Callbacks = {"r1"}
  IntResources = {"i1", "i2"}
  Handlers = {"A", "B"}
  NoWaitId = NoWaitId
  None = None
SPECIFICATION IFairSpec
INVARIANTS
  IInv
  MaskHonoured
  PairedData
PROPERTIES
  Transparent
  StillReturns
CHECK_DEADLOCK FALSE
