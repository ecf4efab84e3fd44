CONSTANTS
  BufSize = 4
  ScanCodes <- KeyBytes
  Inserts <- Strings
  MaxBelow = 6
SPECIFICATION Spec
PROPERTIES WaitKeyReturnsAKey
