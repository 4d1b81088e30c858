SPECIFICATION Spec
CONSTANTS
  MaxVersus = 1
  Visits <- MCVisits
INVARIANTS
  NeverSilent
  AnsweredFirst
  VersusIsPending
  ThirdIsDenied
CHECK_DEADLOCK FALSE
