\* initFat is called once.
CHECK_DEADLOCK FALSE
SPECIFICATION SdSpec
CONSTANTS
  Kinds <- MCKinds
  StatusTries = 1
  IntTries = 1
  OcrTries = 3
  Reads <- MCReads
  WholeScr = FALSE
PROPERTY ScrTimesOut
