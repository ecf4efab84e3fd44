CONSTANTS
  BufSize = 4
  ScanCodes <- KeyBytes
  Inserts <- Strings
  MaxBelow = 6
SPECIFICATION FairSpec
CONSTRAINT UntilAstray
INVARIANTS TypeOK HistoryIsLine
PROPERTIES ImplementsQueue WordEraseExact ReaderReturns
