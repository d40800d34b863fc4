SPECIFICATION FairSpec
CONSTANTS
  Poster = {p1, p2}
  Msg = {m1, m2, m3}
  Registered = {m1, m2}
  NotifyAfterUnlock = TRUE
INVARIANTS
  QueueIsAttended
PROPERTIES
  DrainedBeforeExit
  EveryPostDealtWith
CHECK_DEADLOCK FALSE
