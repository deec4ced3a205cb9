\* Every way to cut a request, and what follows it, into reads.
SPECIFICATION Spec
CONSTANTS
  Requests <- MCRequests
  Extras <- MCExtras
  Declared <- MCDeclared
  Digit <- MCDigit
  ReadMax = 16
  IntWidth = 3
  SizeWidth = 6
INVARIANTS
  TypeOK
  CompleteWithLastByte
  BodyIsReassembled
  RestIsKept
CHECK_DEADLOCK FALSE
