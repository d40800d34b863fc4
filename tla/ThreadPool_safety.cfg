SPECIFICATION Spec
CONSTANTS
  Worker = {w1, w2, w3, w4}
  Client = {c1}
  Task = {t1, t2}
  NoTask = NoTask
  NoThread = NoThread
  QUEUE_MAX = 2
  m_thread_MAXNUM = 2
  m_thread_MINNUM = 1
SYMMETRY Symmetry
INVARIANTS
  LockedSection
  CountersAgree
  EachTaskOnce
CHECK_DEADLOCK FALSE
