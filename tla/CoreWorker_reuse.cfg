\* The same WASI object with a terminal runs two programs, one after the other.
CONSTANTS
  MaxCalls = 3
  MaxRuns = 2
  MaxResizes = 1
  HasTty = TRUE
SPECIFICATION FairSpec
INVARIANTS NoGuestStranded
PROPERTIES CallReachesImport
CHECK_DEADLOCK FALSE
