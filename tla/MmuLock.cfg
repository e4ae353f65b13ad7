\* Every CPU returns, or spins in "B.NE ." with the lock held.
CHECK_DEADLOCK FALSE
SPECIFICATION Spec
CONSTANTS
  Cpus = {c1, c2, c3}
  MaxLosses = 2
INVARIANTS
  OneInside
  NoLostWakeup
  TablesReady
  IndInv
PROPERTIES
  EveryoneReturns
  ImplementsOneTimeInit
