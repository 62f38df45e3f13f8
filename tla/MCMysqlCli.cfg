CONSTANTS
  MaxQueries = 4
  MaxRows = 2
  Faults = {"early", "auth", "throw", "timer"}

SPECIFICATION FairSpec

INVARIANTS
  ServedOrComingBack
  StartedOnce

PROPERTIES
  ImplementsQueryQueue
  QueryResolved

\* A client that is destroyed, or missed something, stops.
CHECK_DEADLOCK FALSE
