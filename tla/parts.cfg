SPECIFICATION MCSpec
CONSTANTS
  Deltas <- MCDeltas
  VideoMode <- MCVideoMode
  Screens <- MCScreens
  Wheels = {0}
  Buttons = {1}
  MaxLost = 1
  TEXT_COLS = 2
  TEXT_ROWS = 2
  TabStop = 1
  Printable = {"a"}
  Numbers = {0, 2}
  MaxCount = 2
  MaxScrolls = 1
  HEAP_START = 2
  HEAP_END = 20
  PAGE_SIZE = 1
  ALLOC_SIZE_HEADER = 1
  physical_memory = 24
  Word = 64
  Requests = {0, 1, 3, 7}
  MaxRequest = 7
  Unwritten = {0}
  Width = 8
  Operands = {0, 1, 2, 3, 4, 5, 7, 8, 9, 11, 15, 16, 17, 24, 31, 32, 33, 63, 64,
              77, 96, 127, 128, 129, 170, 192, 240, 254, 255}
  Eras = {1903, 1967, 1999, 2035}
  DaysRun = 380
  Seconds = {0, 86399}
  MonthSteps = {0, 14}
  Components = {"a", "b"}
  Overlong = "long"
  NameLength <- MCNameLength
  MAX_PATH_LENGTH = 6
  MAX_PATH_COMPONENTS = 4
  MaxParts = 3
  RootDir = root
  DirClusters = {d1, d2}
  Typed <- MCTyped
  MAXCMDLINES = 4
  WholePieces <- MCWholePieces
  OddPieces <- MCOddPieces
  MaxPieces = 3
  ForeignUnits = {0, 97, 55296, 56320, 57343, 65535}
  MaxForeign = 4
  PartUnits = 2
  LFN_MAX_CHARS = 5
  LFN_MAX_ENTRIES = 3
  AliasChars = {"a", "B", ".", " ", "odd"}
  MaxAlias = 5
  BaseLength = 2
  ExtensionLength = 2
  MaxTasks = 3
  MaxSwitches = 1
  StackCells = 5
  KernelCells = 6
  BootCells = 3
  CopyCells = 2
  Procedures = {1}
INVARIANTS
  PartsTypeOK
  BlocksAreSound
  UseIsCounted
  DivisionIsSound
  PathsAndNamesAreSound
  RecallIsSound
  ContextsAreKept
PROPERTIES
  PacketsMoveAsSent
  ConsoleIsSound
  CalendarIsSound
CHECK_DEADLOCK FALSE
