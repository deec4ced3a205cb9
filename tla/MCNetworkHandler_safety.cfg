\* Descriptors run out (three peers, two descriptors) and are used again.
SPECIFICATION Spec
CONSTANTS
  Conns = {c1, c2, c3}
  NoConn = NoConn
  ListenFds <- OneListener
  ClientFds = {5, 6}
  Need = 1
  ReadMax = 1
  MaxSend = 1
  RespSizes = {1}
  Window = 1
SYMMETRY Symmetry
INVARIANTS
  TypeOK
  FdAgreement
  ShutdownClosesAll
CHECK_DEADLOCK FALSE
