SPECIFICATION Spec
CONSTANTS
  Session = {s1, s2}
  NoSession = NoSession
  MaxThreads = 2
  MaxNodes = 2
INVARIANTS
  NoZombie
CHECK_DEADLOCK FALSE
