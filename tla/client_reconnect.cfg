SPECIFICATION FairSpec
CONSTANTS
  MAX_MESSAGES_IN_BUF = 2
  MaxMessages = 1
  MaxSessions = 2
  MaxRetries = 0
  ServerEndings = {}
  ThreadsMayFail = FALSE
PROPERTY ReconnectAsksAgain
CHECK_DEADLOCK FALSE
