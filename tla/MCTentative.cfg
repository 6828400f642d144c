SPECIFICATION Spec
CONSTANTS
  Sources <- MCSources
  StartName <- MCStart
  MemoryName <- MCMemory
  EnvName <- MCEnv
  EnvNames <- MCEnvNames
  HeapBaseName <- MCHeapBase
  opt_stack_size = 65536
  opt_max_pages = 4
  MaxDecls = 3
  Repeated = TRUE
INVARIANT
  TakesLegalPrograms
CHECK_DEADLOCK FALSE
