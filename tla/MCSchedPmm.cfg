SPECIFICATION BothSpec
CONSTANTS
  NUser = 1
  NKernel = 0
  MaxPid = 4
  PidArgs <- AnyChild
  ExitCodes <- OneCode
  Millis <- Short
  WordBits = 3
  total_pages = 10
  reserved_pages = 2
  MaxCount = 4
VIEW BothView
INVARIANTS QueueSound RingIsOneCycle  AccountsAgree
PROPERTIES ZombieHeld LedgerSpec FirstFit
