\* Requests of a browser, one after the other.
SPECIFICATION Spec
CONSTANTS
  NULL = NULL
  Browsers = {"b1"}
  Kilo = 8
  IntOf <- MCIntOf
  Digits <- MCIntOf
  Existing <- MCExisting
  Escapes <- MCEscapes
  Servers <- MCServers
  Requests <- MCRequests
  FirstFiles <- MCFirstFiles
  FirstDirs <- MCFirstDirs
  Outputs <- MCOutputs
  Numeral <- MCNumeral
  BufferSize = 2
  MaxCount = 2
  MaxFiles = 6
INVARIANTS
  TypeOK
  KeptWhenPlain
  DiesOnlyUnmatched
  NamedFileIsServed
  ParsedAsSent
  ScriptTalksToPeer
PROPERTIES
  IsAFileStore
  CountsAreTrue
  MethodsAreObeyed
  PlacesAreObeyed
  DeletesTheNamed
CHECK_DEADLOCK FALSE
