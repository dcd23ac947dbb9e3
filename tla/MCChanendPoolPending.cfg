CONSTANTS
  t1 = t1
  t2 = t2
  Tasks = {t1, t2}
  Chanends = {1, 2, 3}
  Null = 0
  Cap = 1
SPECIFICATION FairSpec
PROPERTIES
  CallsReturn
CHECK_DEADLOCK FALSE
