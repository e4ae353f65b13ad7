\* The count is bounded.
CHECK_DEADLOCK FALSE
SPECIFICATION TimerSpec
CONSTANTS
  WORD = 4
  Second = 2
  Amounts = {0, 1, 2, 3}
  Starts = {0, 1}
  MaxCount = 16
INVARIANT LongEnough
