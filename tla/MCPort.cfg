SPECIFICATION FairSpec
INVARIANTS
  Inv
PROPERTIES
  Established
  NothingStale
  TriggersConsumed
  CallsReturn
CHECK_DEADLOCK FALSE
