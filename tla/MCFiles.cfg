SPECIFICATION FilesSpec
CONSTANTS
  FatTask = {f1}
  LastCluster = 7
  FatRoot = 2
  FatSub = 3
  ClusterBytes = 2
  FileName = {"a", "A", "B", "long"}
  Short <- ShortDef
  LongName = {"long"}
  RootSlots <- RootSlotsDef
  SubSlots <- SubSlotsDef
  Offset = {0, 1, 4}
  WriteLen = {2}
  PoolRoom = 3
  MaxErrors = 1
  MaxCrashes = 1
  MaxCalls = 2
  VfsTask = {v1, v2}
  MAX_FDS = 2
  FileId = {1, 2}
  VNode = {"root", "dev", "con", "blk", "ver", "file"}
  VRoot = "root"
  NoNode = "null"
  Tree <- TreeDef
  OpenArgs <- OpenArgsDef
  Count = {1, 2}
  SeekTo <- SeekToDef
  ProcLen = {1, 2}
  MaxOffset = 2
  SECTOR = 2
  STD_BUF_SIZE = 3
  MAX_OPEN_STREAMS = 1
  Modes <- ModesDef
  ReadLen = {1, 4}
  PutLen = {2, 3}
  SeekBy <- SeekByDef
  OldBytes <- OldBytesDef
  MaxPut = 4
  MaxFails = 1
  MaxBase = 3
SYMMETRY Symmetric
VIEW FilesView
INVARIANTS
   RefcountsCount  StreamFaithful
PROPERTIES WriteReadsBack
CONSTRAINT ListBound
CHECK_DEADLOCK FALSE
