CONSTANTS
  FlushSampleCount = 2
  MaxRows = 4
  WriteMayFail = FALSE
  sampleIntervalMs = 33
  profileDurationMs = 12
  UsPerMs = 2
  UintRange = 64
  ReadUs = 2
  MaxElapsed = 36
  ProfilerMayFail = FALSE
  ReapIsCertain = FALSE
  PidReuse = FALSE

SPECIFICATION AppSpec

INVARIANT IntervalIsKept
