SPECIFICATION FairSpec
CONSTANTS
  MAX_NUM_CLIENTS = 1
  MaxConnections = 2
  Endings <- MCOneLeaves
  WaitForSlot = TRUE
  MayLag = FALSE
PROPERTY EveryClientIsAnswered
CHECK_DEADLOCK FALSE
