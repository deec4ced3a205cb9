\* A file that ends with a line end is uploaded.
SPECIFICATION Spec
CONSTANTS
  NULL = NULL
  Browsers = {"b1"}
  Kilo = 8
  IntOf <- MCIntOf
  Digits <- MCIntOf
  Existing <- MCExisting
  Escapes <- MCEscapes
  Servers <- MCServers
  Requests <- MCRequests
  FirstFiles <- MCFirstFiles
  FirstDirs <- MCFirstDirs
  Outputs <- MCOutputs
  Numeral <- MCNumeral
  BufferSize = 2
  MaxCount = 2
  MaxFiles = 6
INVARIANT CreatedIsStored
CHECK_DEADLOCK FALSE
