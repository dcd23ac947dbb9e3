CONSTANTS
  Half = 4
  MaxPeriod = 7
  Period = 2
SPECIFICATION FairSpec
INVARIANTS
  TypeOK
PROPERTIES
  NeverEarly
  OnTime
  FiresOnTime
  CallsReturn
