SPECIFICATION FairHandover
CONSTANTS
  Task = {t1, t2, t3}
  NoTask = NoTask
  QUEUE_MAX = 3
  Worker = {w1, w2}
  Client = {c1}
  PoolTask = {p1, p2}
  NoThread = NoThread
  PoolQueue = 1
  MaxThreads = 1
  MinThreads = 1
  MAX_NUM = 3
  Numbers = 4
  Values = 3
  Children = 3
  Lines = 3
  Capacity = 2
INVARIANTS
  TypesOK
  RingConsistent
  NothingLost
PROPERTIES
  ImplementsFifo
  DestructorReturns
  EverythingArrives
  ProcessesEnd
CHECK_DEADLOCK FALSE
