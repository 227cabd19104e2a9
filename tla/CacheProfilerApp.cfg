CONSTANTS
  FlushSampleCount = 2
  MaxRows = 4
  WriteMayFail = TRUE
  sampleIntervalMs = 3
  profileDurationMs = 14
  UsPerMs = 2
  UintRange = 64
  ReadUs = 2
  MaxElapsed = 40
  ProfilerMayFail = TRUE
  ReapIsCertain = TRUE
  PidReuse = TRUE

SPECIFICATION FairAppSpec

INVARIANTS
  AppTypeOK
  ExitSavesRows
  OvershootBounded
  AtMostOneRowAfterExit
  SamplesAreSpaced

PROPERTIES
  StopEndsRun
  LimitEndsRun
  ReapedTargetEndsRun
