CONSTANTS
  Cap = 2
  NumCalls = 3
  MaxLen = 3
  ShortLen = 3
SPECIFICATION MCSpec
INVARIANTS
  Inv
  NoTrap
  MismatchNeverSilent
PROPERTIES
  Synchronous
  Terminates
CHECK_DEADLOCK FALSE
