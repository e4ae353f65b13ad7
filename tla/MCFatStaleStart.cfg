SPECIFICATION Spec
CONSTANTS
  FatSize = 8
  RootSize = 4
  DirSize = 2
  RootRead = 1
  DiskClusters = 8
  MaxRows = 3
  NameLength = 4
  StemLength = 3
  ExtLength = 3
  Char <- Letters
  Paths <- ChainPaths
  Texts <- OneUnit
  Images <- ChainFile
INVARIANT StartIsInUse
