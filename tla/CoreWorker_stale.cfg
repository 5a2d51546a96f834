\* A WASI object with a terminal is used for a second run.
CONSTANTS
  MaxCalls = 3
  MaxRuns = 2
  MaxResizes = 1
  HasTty = TRUE
SPECIFICATION Spec
INVARIANT OneMessageAtATime
CHECK_DEADLOCK FALSE
