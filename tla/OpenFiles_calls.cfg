\* A guest that also appends, resizes, seeks and reads at offsets.
CONSTANTS
  f1 = f1
  f2 = f2
  NoFile = NoFile
  Files <- OneFile
  Ops = {"append", "pread", "read", "resize", "seek", "unlink"}
  MaxFds = 2
  MaxWrites = 2
  MaxOffset = 1
SPECIFICATION Spec
PROPERTY UnlinkedStaysGone
CHECK_DEADLOCK FALSE
