SPECIFICATION FairSpec
CONSTANTS
  MAX_MESSAGES_IN_BUF = 1
  MaxMessages = 2
  MaxSessions = 2
  MaxRetries = 1
  ServerEndings <- MCBothEndings
  ThreadsMayFail = TRUE
INVARIANTS
  ReceivedHasPermit
  ObjectsOutliveThreads
PROPERTIES
  IsAPlayer
  LeavesInTheEnd
  BrokenConnectionEnds
CHECK_DEADLOCK FALSE
