SPECIFICATION Spec
CONSTANTS
  FatSize = 8
  RootSize = 6
  DirSize = 3
  RootRead = 1
  DiskClusters = 8
  MaxRows = 3
  NameLength = 4
  StemLength = 3
  ExtLength = 3
  Char <- Letters
  Paths <- NamePaths
  Texts <- OneUnit
  Images <- OneFile
INVARIANT OpenFindsFile
