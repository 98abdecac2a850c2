SPECIFICATION Spec
CONSTANTS
  NUser = 1
  NKernel = 0
  MaxPid = 2
  PidArgs <- AnyChild
  ExitCodes <- OneCode
  Millis <- Short
INVARIANT NoStrandedZombie
