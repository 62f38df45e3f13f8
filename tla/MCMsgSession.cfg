CONSTANTS
  MaxQueries = 4
  MaxPushes = 1
  Faults = {"send", "socket", "timer", "throw"}

SPECIFICATION FairSpec

INVARIANTS
  TypeOK
  WireServesHead
  ListIsServed
  OneWayBack

PROPERTIES
  ImplementsQueryQueue
  QueryResolved

\* A session without descriptors, or that used freed memory, stops.
CHECK_DEADLOCK FALSE
