\* A component that opens files, makes streams, executes a child and drops handles.
CONSTANTS
  MaxIds = 6
  MaxHeld = 2
  NumEnds = 1
SPECIFICATION Spec
INVARIANTS TypeOK HandlesWork NothingElseLeaks
CHECK_DEADLOCK FALSE
