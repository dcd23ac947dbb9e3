CONSTANTS
  Cap = 2
  NumTrans = 2
  MaxRuns = 5
  MaxLen = 2
SPECIFICATION MCSpec
INVARIANTS
  Inv
  NoTrap
  MismatchNeverSilent
  NothingLost
PROPERTIES
  TakesTurns
  Terminates
CHECK_DEADLOCK FALSE
