CONSTANTS
  CpuCount = 1
  EventCount = 1
  Idle = idle
  Target = target
  other = other
  Process <- MCProcess
  Footprint <- MCFootprint
  MaxCount = 2
  ReadMayFail = FALSE

SPECIFICATION Spec

INVARIANT OnlyOwnCounts
