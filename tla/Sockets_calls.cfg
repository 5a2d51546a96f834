\* Two threads of a guest, two connections to it and one that it makes; the peer
\* of b does not read.
CONSTANTS
  Callers = {k1, k2}
  Incoming = {a, b}
  Outgoing = {o}
  Followed = {o}
  Drained = {a, o}
  MaxBytes = 1
  MaxConns = 2
SPECIFICATION FairSpec
INVARIANTS TypeOK NobodyWaitsInVain PromisesAreAwaited QueueKeepsConnections
PROPERTIES ImplementsConnections CallsReturn EndIsLearned
CHECK_DEADLOCK FALSE
