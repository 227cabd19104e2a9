CONSTANTS
  CpuCount = 1
  EventCount = 1
  Idle = idle
  Target = target
  other = other
  Process <- MCProcess
  Footprint <- MCFootprint
  MaxCount = 2
  ReadMayFail = FALSE
  LookupMayFail = TRUE
  FlushSampleCount = 2
  MaxRows = 3
  WriteMayFail = FALSE
  sampleIntervalMs = 1
  profileDurationMs = 1
  UsPerMs = 1
  UintRange = 2
  ReadUs = 1
  MaxElapsed = 1
  ProfilerMayFail = TRUE
  ReapIsCertain = TRUE
  PidReuse = FALSE

SPECIFICATION SessionSpec

INVARIANTS
  RowsAreHonest
  LastRowIsComplete
  RowsNeverDecrease
