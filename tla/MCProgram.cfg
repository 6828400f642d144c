SPECIFICATION ProgramSpec
CONSTANTS
  Sources <- MCSources
  StartName <- MCStart
  MemoryName <- MCMemory
  EnvName <- MCEnv
  EnvNames <- MCEnvNames
  HeapBaseName <- MCHeapBase
  opt_stack_size = 65536
  opt_max_pages = 4
  MaxDecls = 3
  Repeated = FALSE
  Word = 32
  Align = 2
  PageSize = 8
  HeapBase = 3
  HeapPages = 2
  Requests = {0, 1, 4, 7, 28}
  MaxHeld = 2
  FileNames <- MCNames
  FilePieces <- MCData
  Stdin <- MCInput
  InitCap = 3
  MaxSize = 7
  MaxFiles = 2
  MaxContent = 7
INVARIANTS
  ModuleIsRead
  CutIsRefused
  TakesLegalPrograms
  CallsReachTheirFunctions
  DataIsInPlace
  HeapKept
  FilesKept
CHECK_DEADLOCK FALSE
