SPECIFICATION Spec
CONSTANTS
  Procs = {p1, p2}
  Bufs = {b1, b2, b3}
  NBLOCKS = 4
  Vals = {v1, v2}
  MAXHELD = 1
  MAXPINNED = 2
  Written = {1, 2}
SYMMETRY Symmetry
INVARIANTS RefInv NoLostWakeup
PROPERTIES PanicsWhenFull StoreSpec
