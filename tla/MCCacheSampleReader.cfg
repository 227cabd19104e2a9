CONSTANTS
  CpuCount = 2
  EventCount = 1
  Idle = idle
  Target = target
  other = other
  Process <- MCProcess
  Footprint <- MCFootprint
  MaxCount = 1
  ReadMayFail = FALSE
  LookupMayFail = TRUE

SPECIFICATION FairReaderSpec

INVARIANTS
  ReaderTypeOK
  SampleBracketed
  SlotsBracketed

PROPERTIES
  MonotonicSlots
  SettledWorkIsReported
