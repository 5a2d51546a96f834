\* Two children on one terminal; the output of one is polled.
CONSTANTS
  Children = {a, b}
  Polled = {a}
  Retries = 1
  MaxChunk = 2
  MaxWrites = 2
SPECIFICATION FairSpec
INVARIANTS TypeOK NothingLeftBehind ModeHolds PollKeepsItsWord
PROPERTIES ImplementsByteStream ExitIsLearned RawModeArrives OutputArrives
CHECK_DEADLOCK FALSE
