\* The kernel goes wild when the root directory is full.
CHECK_DEADLOCK FALSE
SPECIFICATION Spec
CONSTANTS
  FatSize = 8
  RootSize = 6
  DirSize = 3
  RootRead = 3
  DiskClusters = 7
  MaxRows = 4
  NameLength = 3
  StemLength = 2
  ExtLength = 2
  Char <- Letters
  Paths <- MCPaths
  Texts <- MCTexts
  Images <- MCImages
INVARIANTS
  ClustersOwnedOnce
  WildOnlyAtLimits
  ClusterlessOnlyWhenFull
