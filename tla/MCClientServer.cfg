CONSTANTS
  NumClients = 3
  NumSpare = 3
  Cap = 2
  MaxCommands = 3
SPECIFICATION MCSpec
INVARIANTS
  NoTrap
  Inv
  RightReply
PROPERTIES
  Answered
CHECK_DEADLOCK FALSE
