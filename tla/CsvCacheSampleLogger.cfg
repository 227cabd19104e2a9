CONSTANTS
  FlushSampleCount = 3
  MaxRows = 7
  WriteMayFail = TRUE

SPECIFICATION LoggerSpec

INVARIANTS
  LoggerTypeOK
  FileIsPrefix
  LossBounded

PROPERTIES
  ForgottenRowsAreSaved
  ImplementsRowLog
