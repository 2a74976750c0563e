SPECIFICATION LiveSpec
CONSTANTS
  NTHREAD = 4
  Producers = {1,3}
  NITEMS = 2
  BUFSZ = 1
  MAXTHREADS = 3
INVARIANTS MutexInv NoLostWakeup ExactCount SlotInv
PROPERTY EveryItemMoves
CHECK_DEADLOCK FALSE
