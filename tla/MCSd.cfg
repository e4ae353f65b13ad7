\* initFat is called once.
CHECK_DEADLOCK FALSE
SPECIFICATION SdSpec
CONSTANTS
  Kinds <- MCKinds
  StatusTries = 2
  IntTries = 2
  OcrTries = 3
  Reads <- MCReads
  WholeScr = TRUE
INVARIANTS
  AnswersAreOwn
  InitLeavesCardReady
  ReadIsTheBlocks
PROPERTIES
  InitFatReturns
  LateErrorIsFinal
