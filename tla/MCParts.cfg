SPECIFICATION Spec
CONSTANTS
  VmPage = {0, 1, 2}
  MemSize = 3
  MaxFd = 2
  BrkThread = {1, 2}
  InitialBrk = 4
  BrkPage = 2
  BrkArg = {0, 3, 4, 5, 7}
  RExit <- MCExit
  RIndirect = {1}
  BranchRange = 4096
  JalRange = 1048576
  MaxDistance = 3145728
  Slots = 2
  MaxHops = 2
  RGap = {256, 900096}
  RMaxBlocks = 3
  RTraceBase = 3500032
  RTraceSize = 1200000
  RMaxTraces = 1
  HashMask = 3
  HashOverp = 3
  HashKey = {1, 2, 3, 6, 7, 11}
  HashValue = {1, 2}
  HtSize = {1, 2, 4}
  HtFill = {10, 50, 90}
  HtResize = {TRUE, FALSE}
  HtKey = {0, 1, 3, 5, 7}
  HtMax = 16
  FThread = {f1, f2, f3}
  Null = Null
  MaxRegister = 5
  XThread = {1, 2}
  TracedInst <- MCInst
  PcRanges <- MCRanges
  EventsPerBlock = 4
  SampleInterval = 2
  MaxInst <- MCMaxInst
  SimThread = {1, 2}
  LineSize = 4
  L1Sets = 2
  L1Ways = 2
  L2Sets = 1
  L2Ways = 2
  MaxFetch = 2
  BufLen = 2
  SimAccess <- MCAccess
  MaxAccess = 2
  InstLen = {2, 4}
  MaxFragment = 1030
  MaxScanned = 2100
  MaxSkipped = 4
  MThread = {1, 2}
  Arena = {0}
  Page = {16}
  BlockSize = 16
  AllocSize = {5, 16}
  MaxDepth = 2
  MaxCalls = 4
  Char = {0, 1, 2}
  MaxString = 2
  NumPlugins = 2
  MaxOps = 3
  MaxScratch = 2
  FcallArgs = {3, 8}
  ImmBits = 3
  MaxPushed = 2
  MAX_BACK_INLINE = 1
  A32Length = 3
CONSTRAINT Explored
CHECK_DEADLOCK FALSE
INVARIANTS  BrkExact LinksSound HashExact HtExact ThreadListSound
INVARIANTS TraceFileExact      ScannerExact
