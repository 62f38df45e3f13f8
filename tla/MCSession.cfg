CONSTANTS
  c1 = c1
  c2 = c2
  t1 = t1
  t2 = t2
  Threads = {t1, t2, t3}
  Conns = {c1, c2}
  Thd <- MCThd
  NoConn = NoConn
  MaxMsgs = 4

SPECIFICATION FairSpec

INVARIANTS
  TypeOK
  InOnePlace
  OnlyForeignOvertakes
  NoticeCoversParked

PROPERTIES
  ParkedIsSent

\* Once every message was sent and the connections are closed nothing is left.
CHECK_DEADLOCK FALSE
