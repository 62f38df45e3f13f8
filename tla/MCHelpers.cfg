SPECIFICATION HelpersSpec

CONSTANTS
  Threads = {t1, t2, t3}
  Keys = {k1, k2}
  MaxDepth = 2
  Longs = {4, 8}
  Pieces = {8, 55, 64}
  MaxBytes = 128
  Byte <- MCByte
  MD5Transform <- MCTransform
  Bytes = {0, 1, 63, 64, 127, 128, 255}
  MaxLen = 4
  wsu32max = 1000
  Sizes <- MCSizes
  Masks = {0, 1, 77}
  Quads = {"10.0.0.1", "10.0.0.2"}
  Numbers = {"80", "6379"}
  Words = {"ann", "bob"}

INVARIANTS
  NoDeadlock
  DigestOfWhole
  RoundTrip

\* A conversion is one state, and a message is whole at some time.
CHECK_DEADLOCK FALSE
