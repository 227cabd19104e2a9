CONSTANTS
  Arg <- MCArg
  MaxArgs = 5
  UintRange = 8
  LongRange = 16

SPECIFICATION CliSpec

INVARIANTS
  CliTypeOK
  WellFormedRuns
  RunIsWellFormed
  RunIsUsable
