SPECIFICATION Spec
CONSTANTS
  FatSize = 8
  RootSize = 12
  DirSize = 4
  RootRead = 3
  DiskClusters = 8
  MaxRows = 3
  NameLength = 4
  StemLength = 3
  ExtLength = 3
  Char <- Letters
  Paths <- MCPaths
  Texts <- MCTexts
  Images <- MCImages
INVARIANTS
  TypeOK
  Orderly
  ClustersOwnedOnce
  NoClusterLost
  FilesIntact
  CreatedIsThere
  WriteStored
  ReadIsWhole
PROPERTIES
  EntriesKept
  WriteIsolated
  ImplementsFileStore
