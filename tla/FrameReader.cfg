SPECIFICATION FairSpec
CONSTANTS
  Streams <- MCStreams
  Header <- MCHeader
  HEAD_TOTAL_LEN = 4
  MAX_LENGTH = 9
INVARIANTS
  FramesReassembled
  ReadingIsSafe
PROPERTIES
  EveryFramePosted
CHECK_DEADLOCK FALSE
