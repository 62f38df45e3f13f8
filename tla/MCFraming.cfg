SPECIFICATION Spec
CONSTANTS
  MaxMsgs = 4
  Size <- MCSize
  Header = 2
  Block = 3
  Capacity = 5
INVARIANTS InOrder
PROPERTY AllDispatched
\* Once every message was dispatched nothing is left to do.
CHECK_DEADLOCK FALSE
