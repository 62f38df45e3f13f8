CONSTANTS
  l1 = l1
  l2 = l2
  t1 = t1
  t2 = t2
  t3 = t3
  NoLoop = NoLoop
  Loops = {l1, l2}
  Apps = {a1}
  Tasks = {t1, t2, t3}
  StopTask = t3
  Throwing = {t2}
  Thdset <- MCThdset
  AcceptCalls <- MCAcceptCalls

SPECIFICATION Spec

INVARIANTS
  TypeOK
  NoLockCycle

PROPERTIES
  ImplementsTaskQueue
  OnlyReadUncovers

\* Once every task has been handed over the system may rest.
CHECK_DEADLOCK FALSE
