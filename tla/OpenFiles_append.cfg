\* A guest that writes to a file it has opened in append mode.
CONSTANTS
  f1 = f1
  f2 = f2
  NoFile = NoFile
  Files <- OneFile
  Ops = {"append"}
  MaxFds = 2
  MaxWrites = 3
  MaxOffset = 0
SPECIFICATION Spec
INVARIANT AppendsAtEnd
CHECK_DEADLOCK FALSE
