SPECIFICATION FairSpec
CONSTANTS
  Version = {"v10_v2"}
  Client = {c1, c2}
  Thread = {1, 2}
PROPERTIES
  StopEndsProcess
CHECK_DEADLOCK FALSE
