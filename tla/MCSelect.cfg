CONSTANTS
  Resources = {"r1", "r2", "r3"}
  Callbacks = {"r1", "r2"}
  NoWaitId = NoWaitId
  None = None
SPECIFICATION FairSpec
INVARIANTS
  Inv
  NoWaitIdHonest
  OrderRespected
PROPERTIES
  WaitReturns
CHECK_DEADLOCK FALSE
