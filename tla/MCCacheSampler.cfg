CONSTANTS
  CpuCount = 2
  EventCount = 1
  Idle = idle
  Target = target
  other = other
  Process <- MCProcess
  Footprint <- MCFootprint
  MaxCount = 2
  ReadMayFail = TRUE

SPECIFICATION Spec

INVARIANTS
  TypeOK
  PrevNeverAhead
  AccountingInv
  OnlyOwnCountsBeyondBaseline

PROPERTY ImplementsAccounting
