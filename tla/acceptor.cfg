SPECIFICATION FairSpec
CONSTANTS
  MAX_NUM_CLIENTS = 2
  MaxConnections = 3
  Endings <- MCEndings
  WaitForSlot = FALSE
  MayLag = TRUE
CONSTRAINTS NobodyMisled TwoOnTheirWay
INVARIANTS
  RoomForEveryone
  ClosesOnlyItsOwn
PROPERTY FirstClientsAreAnswered
CHECK_DEADLOCK FALSE
