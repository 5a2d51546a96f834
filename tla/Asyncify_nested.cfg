\* Three exports in flight at once and five asynchronous imports among them.
CONSTANTS
  Calls = {c1, c2, c3}
  MaxImports = 5
SPECIFICATION Spec
SYMMETRY CallSymmetry
INVARIANTS TypeOK NewestOnTop FramesAccountedFor
PROPERTIES PausedFramesStay ImplementsCoroutines
CHECK_DEADLOCK FALSE
