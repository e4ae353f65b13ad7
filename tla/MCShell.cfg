\* The kernel may go wild.
CHECK_DEADLOCK FALSE
SPECIFICATION ShellSpec
CONSTANTS
  FatSize = 6
  RootSize = 8
  DirSize = 4
  RootRead = 3
  DiskClusters = 5
  MaxRows = 4
  NameLength = 4
  StemLength = 2
  ExtLength = 2
  LineLength = 11
  NumArgs = 5
  Char <- MCChars
  Paths <- MCPaths
  Texts <- MCTexts
  Images <- MCImages
  Lines <- MCLines
  Leftovers <- MCLeftovers
  TextFor <- MCTextFor
  EmptyText <- MCEmpty
INVARIANTS
  ArgsAreTheLine
  WildOnlyBeyondLimits
  ShellKeepsFiles
PROPERTIES
  ReadersLeaveDisk
  WorkingDirectoryLeads
  MkdirMakesDots
  LsShowsTheDisk
  PromptReturns
