\* Reading a configuration and opening the servers' sockets.
SPECIFICATION Spec
CONSTANTS
  Kilo = 100
  IntOf <- MCIntOf
  Digits <- MCDigits
  Octal <- MCOctal
  Existing <- MCExisting
  Lines <- MCLines
  MaxLines = 7
  MaxPlain = 2
  Ports = {8080}
  LocalHosts <- MCLocalHosts
INVARIANTS
  TypeOK
  SaysWhatTheFileSays
  PagesAndReturnsAreSaid
  ListensAsConfigured
  NoHalfOpenSocket
CHECK_DEADLOCK FALSE
