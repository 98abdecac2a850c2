SPECIFICATION MemorySpec
CONSTANTS
  VPage = {14, 16, 18, 20, 22, 24}
  PAGE_SIZE = 2
  L3_SPAN = 16
  TLBI_STRIDE = 16
  STACK_MAX_LO = 14
  STACK_INITIAL_LO = 16
  USER_MMAP_BASE = 16
  USER_BRK_BASE = 22
  BRK_RESERVE = 4
  USER_VA_TOP = 26
  VMA_MAX_PER_TASK = 3
  USER_STACK_GROWN_MAX = 1
  NumFrames = 3
  MmapTop = 22
  CachedPages = {14}
  Prot = {{"r","x"}, {"r","w"}}
  MmapArgs <- MmapArgsDef
  MunmapArgs <- MunmapArgsDef
  MprotectArgs <- MprotectArgsDef
  BrkArgs <- BrkArgsDef
  Fixed = {18, 19}
  Kinds = {"w", "x"}
  BlkQueue = 6
  BTask = {b1, b2}
  Sector = {s1}
  Word = {w0, w1}
  MaxTimeouts = 1
  DhcpServer = {sa, sb}
  Addr = {a1, a2}
  Default = slirp
  NoAddr = none
INVARIANTS
   BlkSound 
PROPERTIES
   AccessResolves
  SuccessIsServed CallsReturn BringUpEnds
