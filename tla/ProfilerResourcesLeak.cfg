CONSTANTS
  CpuCount = 1
  EventCount = 2
  Pid = {p1}
  NoPid = noPid
  MaxCalls = 2
  ResourceMayFail = TRUE
  ConfigureMayFail = TRUE

SPECIFICATION ResourcesSpec

INVARIANT PerfFdsAreOwned
