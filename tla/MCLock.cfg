CONSTANTS
  N = 5
  Null = 99
SPECIFICATION FairSpec
INVARIANTS
  Inv
  RoundRobin
PROPERTIES
  AcquireReturns
