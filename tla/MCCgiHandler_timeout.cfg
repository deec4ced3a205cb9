\* A script that stays silent.
SPECIFICATION FairSpec
CONSTANTS
  BodySizes = {0}
  PipeCap = 2
  Timeout = 2
  FdLimit = 4
  MaxCalls = 1
PROPERTIES
  TimeoutIsEnforced
CHECK_DEADLOCK FALSE
