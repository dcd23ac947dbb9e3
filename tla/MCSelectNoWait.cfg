CONSTANTS
  Resources = {"r1", "r2"}
  Callbacks = {"r1", "r2"}
  NoWaitId = NoWaitId
  None = None
SPECIFICATION FairSpec
INVARIANTS
  NoWaitNeverPauses
CHECK_DEADLOCK FALSE
