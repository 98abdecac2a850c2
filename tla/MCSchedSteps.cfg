SPECIFICATION BothSpec
CONSTANTS
  NUser = 2
  NKernel = 1
  MaxPid = 4
  PidArgs <- AnyOrThird
  ExitCodes <- OneCode
  Millis <- Sleeps
  Caller = {c1, c2}
  Unmasked = {c1, c2}
  WordBits = 3
  total_pages = 4
  reserved_pages = 1
  MaxCount = 2
  Width = 8
VIEW BothView
INVARIANTS ReservedNeverGiven
PROPERTIES RoundRobin
