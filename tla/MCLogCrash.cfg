SPECIFICATION Spec
CONSTANTS
  Ops = {p1, p2, p3}
  Blocks = {b1, b2}
  Vals = {v0, v1}
  MAXOPBLOCKS = 3
  LOGSIZE = 6
  NLOG = 6
  OPBLOCKS = 2
SYMMETRY Symmetry
INVARIANTS QuietIsDurable SleepersWoken
PROPERTY AtomicSpec
