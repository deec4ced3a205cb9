\* Two listeners, pipelined requests, responses larger than the socket takes.
SPECIFICATION Spec
CONSTANTS
  Conns = {c1, c2}
  NoConn = NoConn
  ListenFds <- TwoListeners
  ClientFds = {5, 6}
  Need = 1
  ReadMax = 1
  MaxSend = 2
  RespSizes = {1, 2}
  Window = 1
SYMMETRY Symmetry
INVARIANTS
  ClientIsItsConnection
  WriteHasRoom
  AnsweredInFull
PROPERTIES
  KeepsPromise
  PassesOverOnlyAfterDrop
CHECK_DEADLOCK FALSE
