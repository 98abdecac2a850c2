SPECIFICATION MachineSpec
CONSTANTS
  ta = ta
  tb = tb
  tc = tc
  Task <- Tasks
  Boot <- BootTasks
  QuietAt <- Windows
  MaxDepth = 2
  Caller = {c1, c2}
  Unmasked <- NoCaller
  WordBits = 3
  total_pages = 5
  reserved_pages = 2
  MaxCount = 3
  Width = 8
  PTask = {t1, t2}
  NumPages = 10
  MAX_ASID = 2
  USER_STACK_GROWN_MAX = 1
  ELF_MAX_REGIONS = 1
  MaxVmas = 1
  MaxRegion = 1
  MaxWraps = 1
  ForkFails = {"l0", "image", "grown", "tls", "fds"}
  STACK_HI = 8388608
  STACK_BYTES = 16384
  EXEC_MAX_ARGC = 32
  EXEC_ARG_BYTES_MAX = 1024
  ArgLens = {0, 31, 340}
  PAGE = 4
  STACK_TOP = 12
  WORD = 32
  PHENT = 2
  MAX_PHNUM = 4
  MAX_REGIONS = 2
  FileSize = 8
  Elfs <- ElfsDef
  KPages = 4
  KPAGE = 16
  HEADER = 4
  HEAP_ALIGN = 2
  HEAP_MIN_BLOCK_SIZE = 2
  HEAP_INITIAL_PAGES = 1
  HEAP_EXPAND_MIN_PAGES = 1
  HEAP_MAX_REGIONS = 3
  KSIZE_MAX = 127
  KRequest = {0, 3, 17, 127}
  BLOCK = 4
  ALIGN = 2
  MIN_PAYLOAD = 2
  MSIZE_MAX = 127
  BrkLimit = 24
  MRequest = {0, 3, 8, 127}
  MCount = {0, 2}
  Board <- BoardDef
  MAX_PCI_DEVICES = 3
  MMIO32_PHYS = 4
  MMIO32_LIMIT = 9
  MMIO64_PHYS = 16
  MMIO64_LIMIT = 22
  QMAX = 2
  BalloonQueue = 3
  BPage = {1, 2, 3}
  VIRTIO_BALLOON_MAX_PAGES = 2
  Asked = {1, 3}
  MaxLate = 1
  Pinger = {netd}
  Netd = netd
  NetQueue = 4
  NET_RX_BUF_COUNT = 2
  PingMod = 2
  MaxTxLate = 1
SYMMETRY MachineSymmetric
INVARIANTS
  EretResumes StateRestored PagesHeldOnce   StartsWellFormed
  HeapSound  DevicesSound  
PROPERTIES AtomicSpec  OthersKept 
CHECK_DEADLOCK FALSE
