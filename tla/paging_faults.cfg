SPECIFICATION FairSpec
CONSTANTS
  p0 = p0
  p1 = p1
  p2 = p2
  NoPage = NoPage
  Pages <- TwoPages
  NumFrames = 1
  NumRows = 3
  FirstStarts <- ZeroOrOne
  StartGaps <- AnyOrder
  WorkTimes <- ZeroToTwo
  MaxBlankLines = 1
  MaxFaults = 2
  MaxWaitObjects = 64
CONSTRAINT ClockStops
INVARIANTS
  TablesAgree
  MutexProtectsTables
  TerminatesOnlySleepers
  SuccessIsComplete
PROPERTIES
  Termination
  EveryRequestServed
CHECK_DEADLOCK FALSE
