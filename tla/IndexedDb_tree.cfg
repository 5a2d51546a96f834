\* Two names; up to three records besides the root and four handles.
CONSTANTS
  Names = {x, y}
  MaxKeys = 4
  MaxHandles = 4
  MaxLookups = 1
SPECIFICATION Spec
SYMMETRY NameSymmetry
INVARIANTS TypeOK TreeIsSound CacheCoherent
PROPERTIES ImplementsFileTree
CHECK_DEADLOCK FALSE
