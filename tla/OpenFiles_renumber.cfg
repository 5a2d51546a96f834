\* A guest that replaces one of its descriptors by another.
CONSTANTS
  f1 = f1
  f2 = f2
  NoFile = NoFile
  Files <- TwoFiles
  Ops = {"renumber"}
  MaxFds = 3
  MaxWrites = 1
  MaxOffset = 0
SPECIFICATION Spec
INVARIANT GrantedStaysOpen
CHECK_DEADLOCK FALSE
