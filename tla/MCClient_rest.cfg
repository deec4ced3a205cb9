\* What is left in the buffer after a request.
SPECIFICATION Spec
CONSTANTS
  Requests <- MCRequests
  Extras <- MCExtras
  Declared <- MCDeclared
  Digit <- MCDigit
  ReadMax = 16
  IntWidth = 3
  SizeWidth = 6
INVARIANTS
  KeepRestOfBuffer
CHECK_DEADLOCK FALSE
