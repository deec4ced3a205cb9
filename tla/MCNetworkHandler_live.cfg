\* Every peer that asks is answered; SIGINT stops the server.
SPECIFICATION FairSpec
CONSTANTS
  Conns = {c1, c2}
  NoConn = NoConn
  ListenFds <- OneListener
  ClientFds = {5, 6}
  Need = 2
  ReadMax = 1
  MaxSend = 2
  RespSizes = {1}
  Window = 1
PROPERTIES
  RequestsAreAnswered
  SigintStops
CHECK_DEADLOCK FALSE
