CONSTANTS
  RunCount = 2
  Selections <- MCSelections
  OldOutput = TRUE
  TimeMayFail = TRUE
  LaunchMayFail = TRUE
  MayInterrupt = TRUE

SPECIFICATION FairHarnessSpec

INVARIANTS
  HarnessTypeOK
  NothingLeftBehind
  SuccessIsComplete
  StaleIsFlagged

PROPERTIES
  PausedTargetResumes
  HarnessEnds
