CONSTANTS
  MaxQueries = 4
  Faults = {"address", "restart", "timer", "throw"}

SPECIFICATION FairSpec

INVARIANTS
  WireServesHead
  ServedOrComingBack

PROPERTIES
  LossFailsOne
  ImplementsQueryQueue
  QueryResolved

\* A client that is destroyed or stranded stops.
CHECK_DEADLOCK FALSE
