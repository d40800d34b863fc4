SPECIFICATION FairSessions
CONSTANTS
  Msg = {m1, m2, m3, m4}
  Parts = 2
  MAX_SEND_QUEUE = 1
  Session = {s1, s2}
  NoSession = NoSession
  MSG_HELLO_WORLD = 1
  FrameStreams <- MCFrameStreams
  FrameMax = 6
  FrameQueue = 0
  SimpleBytes = 2
  SimpleMax = 2
  LongStreams <- MCLongStreams
  LongMax = 3
  LongQueue = 1
INVARIANTS
  TypesOK
  WritesFollowQueue
  AnswersInOrder
  OneOperationEach
PROPERTIES
  ImplementsChannel
  AcceptedIsSent
  EveryFrameAnswered
  LostIsReleased
CHECK_DEADLOCK FALSE
