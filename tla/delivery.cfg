SPECIFICATION DeliverySpec
CONSTANTS
  own = own
  other = other
  Writer <- MCWriter
  Own <- own
  MAX_MESSAGES_IN_BUF = 2
  MaxPosts = 3
  MaxFailures = 1
  SIZE_BYTES = 4
  MessageLen <- MCMessageLen
INVARIANTS
  OneThreadInList
  PermitPerMessage
  OrderlyEndLosesNothing
PROPERTIES
  InOrderOnce
  ArrivesInOrder
  EveryMessageArrives
CHECK_DEADLOCK FALSE
