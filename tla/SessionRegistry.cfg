SPECIFICATION FairAll
CONSTANTS
  Session = {s1, s2}
  NoSession = NoSession
  MaxThreads = 2
  MaxNodes = 1
  Versions = {"v9", "v10", "coroutine"}
  PoolSize = 2
INVARIANTS
  TypesOK
  MapFollowsSessions
  FailedWritesStop
  ThreadsAsLongAsNeeded
PROPERTIES
  FailedIsReleased
  EndsWhenClientsLeave
CHECK_DEADLOCK FALSE
