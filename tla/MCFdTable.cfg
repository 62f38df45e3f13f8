SPECIFICATION Spec
CONSTANTS
  f1 = f1
  f2 = f2
  f3 = f3
  Fds = {f1, f2, f3}
  MaxOpens = 3
  ListenCloses = {FALSE}
SYMMETRY Symmetry
CONSTRAINT NotStale
INVARIANTS TypeOK OwnDescriptors OwnCallbacks
PROPERTY ImplementsConnections
CHECK_DEADLOCK FALSE
