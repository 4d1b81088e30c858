SPECIFICATION Spec
CONSTANTS
  g_num_schools = 6
  MAX_NUM_OF_THREADS = 3
  MaxFailures = 1
INVARIANTS
  RunningHasHandle
  EverySchoolEnds
