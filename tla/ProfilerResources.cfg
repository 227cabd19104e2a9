CONSTANTS
  CpuCount = 2
  EventCount = 2
  Pid = {p1, p2}
  NoPid = noPid
  MaxCalls = 3
  ResourceMayFail = TRUE
  ConfigureMayFail = TRUE

SPECIFICATION ResourcesSpec

INVARIANTS
  ResourcesTypeOK
  InitializedIsLive
  OneObjectBetweenCalls
  NothingIsHalfClosed
