SPECIFICATION Spec
CONSTANTS
  MAX_EVENTS = 2
  ScanStep = 1
  FdLimit = 3
  MaxBacklog = 1
PROPERTIES
  ClosesOnlyIdle
