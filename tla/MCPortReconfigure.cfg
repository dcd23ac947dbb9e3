SPECIFICATION Spec
INVARIANTS
  TrapsOnlyAsDocumented
CHECK_DEADLOCK FALSE
