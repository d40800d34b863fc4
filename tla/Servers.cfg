SPECIFICATION FairServers
CONSTANTS
  MAX_EVENTS = 2
  ScanStep = 1
  FdLimit = 3
  MaxBacklog = 1
  Conn = {c1, c2}
  MaxMsgs = 3
  Garbage = Garbage
  MaxSends = 2
  MaxConnect = 3
  Buffer = 1
  EchoFds = 2
  Servers = 2
INVARIANTS
  TypesOK
  TableFollowsKernel
  NoAnswerLost
  OneWriter
  KeepsItsDescriptors
PROPERTIES
  IdleIsClosed
  DataIsReceived
  EventuallyReleased
  EveryEcho
  ReadyIsServed
CHECK_DEADLOCK FALSE
