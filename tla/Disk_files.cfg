SPECIFICATION DiskSpec
CONSTANTS
  total_pages = 6
  PAGE_SIZE = 32
  BITMAP_SIZE = 3
  ByteBits = 2
  CountMod = 8
  KernelStart = 32
  kernel_end = 64
  HEAP_START = 128
  BootSize = 4
  RunSizes <- MCRunSizes
  MaxRuns = 4
  NameSize = 2
  ExtSize = 1
  Char <- MCChar
  Upper <- MCUpper
  Dot = "."
  Space = " "
  Zero = "0"
  SectorWords = 2
  Entries = 4
  Base = 2
  TopBase = 2
  ClusterBase = 4
  Images <- MCImages
  Typed <- MCTyped
  Missing = Missing
  None = None
INVARIANTS
  PhysTypeOK
  HeapSound
  CountExactUnraced
  PageOwned
  DiskTypeOK
  BpbIntact
PROPERTIES
  ReadsEnd
  ImplementsFileStore
CHECK_DEADLOCK FALSE
