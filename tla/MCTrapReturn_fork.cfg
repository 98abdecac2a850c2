SPECIFICATION TrapSpec
CONSTANTS
  ta = ta
  tb = tb
  tc = tc
  Task <- Tasks
  Boot <- BootTasks
  QuietAt <- Windows
  MaxDepth = 2
SYMMETRY Symmetric
INVARIANT ForkedHasParentFp
