SPECIFICATION LiveSpec
CONSTANTS
  Ops = {p1, p2}
  Blocks = {b1, b2, b3, b4}
  Vals = {v0}
  MAXOPBLOCKS = 2
  LOGSIZE = 4
  NLOG = 4
  OPBLOCKS = 1
INVARIANT NoPanic
PROPERTY EventuallyAwake
