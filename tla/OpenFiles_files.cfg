\* A guest that writes, positions, closes, renumbers and unlinks two files.
CONSTANTS
  f1 = f1
  f2 = f2
  NoFile = NoFile
  Files <- TwoFiles
  Ops = {"pwrite", "pread", "renumber", "unlink"}
  MaxFds = 3
  MaxWrites = 2
  MaxOffset = 1
SPECIFICATION Spec
INVARIANTS TypeOK OneOwner NothingLeaks WritesLast
SYMMETRY FileSymmetry
CHECK_DEADLOCK FALSE
