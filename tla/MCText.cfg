CONSTANTS
  Projects <- MCProjects
  Families <- MCFamilies
  Byte = 8
  BASE = 64
  PAGE = 16
  Keys <- MCKeys
  Values = {1, 2}
  Hash <- MCHash
  InitSize = 4
  MaxCapacity = 8
SPECIFICATION TextSpec
INVARIANTS
  TakesWellFormed
  OutputIsDefined
  AssemblesLegal
  ImageAsWritten
  NeverUnreachable
  MapIsDictionary
