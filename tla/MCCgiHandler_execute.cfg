\* Bodies that fit in the pipe and one that does not; two calls, descriptors
\* for one leak.
SPECIFICATION LivelySpec
CONSTANTS
  BodySizes = {0, 2, 4}
  PipeCap = 2
  Timeout = 2
  FdLimit = 7
  MaxCalls = 2
INVARIANTS
  TypeOK
  CleansUp
  AnswerIsWhole
PROPERTIES
  ExecuteReturns
CHECK_DEADLOCK FALSE
