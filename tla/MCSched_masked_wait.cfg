SPECIFICATION FairSpec
CONSTANTS
  NUser = 2
  NKernel = 0
  MaxPid = 3
  PidArgs <- AnyChild
  ExitCodes <- OneCode
  Millis <- Short
PROPERTY SleepersWake
