SPECIFICATION FaultlessSpec
CONSTANTS
  NUser = 1
  NKernel = 1
  MaxPid = 3
  PidArgs <- AnyChild
  ExitCodes <- OneCode
  Millis <- Short
PROPERTIES EveryoneRuns WaiterCollects OrphansReaped
