\* An allocation of every free page goes wild.
CHECK_DEADLOCK FALSE
SPECIFICATION MemorySpec
CONSTANTS
  NUMBERPAGES = 5
  Elements = {a, b, c}
  ListHead = head
  NoElement = none
INVARIANT BackwardsToo
PROPERTIES
  ImplementsPagePool
  ListKeepsOrder
