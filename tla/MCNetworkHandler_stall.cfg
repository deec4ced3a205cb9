\* A response larger than the socket takes at once.
SPECIFICATION FairSpec
CONSTANTS
  Conns = {c1}
  NoConn = NoConn
  ListenFds <- OneListener
  ClientFds = {5}
  Need = 1
  ReadMax = 1
  MaxSend = 1
  RespSizes = {2}
  Window = 1
PROPERTIES
  LifeCycleCompletes
CHECK_DEADLOCK FALSE
