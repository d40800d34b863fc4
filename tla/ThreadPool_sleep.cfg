SPECIFICATION Spec
CONSTANTS
  Worker = {w1, w2}
  Client = {c1}
  Task = {t1, t2}
  NoTask = NoTask
  NoThread = NoThread
  QUEUE_MAX = 2
  m_thread_MAXNUM = 1
  m_thread_MINNUM = 1
SYMMETRY Symmetry
INVARIANTS
  SleepOnlyWhenEmpty
CHECK_DEADLOCK FALSE
