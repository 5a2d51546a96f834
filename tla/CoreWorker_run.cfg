\* One run of a program with a terminal that is resized while it runs.
CONSTANTS
  MaxCalls = 4
  MaxRuns = 1
  MaxResizes = 2
  HasTty = TRUE
SPECIFICATION FairSpec
INVARIANTS TypeOK AnswerIsOwn OneMessageAtATime MemoryCoherent
PROPERTIES AnswerDelivered ImplementsSyncCall
CHECK_DEADLOCK FALSE
