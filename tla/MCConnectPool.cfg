CONSTANTS
  Threads = {t1, t2}
  Pools = {p1, p2}
  Clients = {c1, c2, c3}
  MaxTotal = 1
  Half = 3
  MaxThrows = 1
  NoThread = NoThread

SYMMETRY Symmetric

SPECIFICATION Spec

INVARIANTS
  NotShared
  NoMoreThanPeak

PROPERTIES
  DroppedOverLimit

\* All pools may be gone.
CHECK_DEADLOCK FALSE
