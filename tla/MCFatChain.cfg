SPECIFICATION Spec
CONSTANTS
  FatSize = 7
  RootSize = 4
  DirSize = 2
  RootRead = 1
  DiskClusters = 7
  MaxRows = 3
  NameLength = 4
  StemLength = 3
  ExtLength = 3
  Char <- Letters
  Paths <- MCPaths
  Texts <- MCTexts
  Images <- MCImages
INVARIANTS
  CachesAreTheDisk
PROPERTIES
  ShortTextsKeepChains
  CallsReturn
CHECK_DEADLOCK FALSE
