SPECIFICATION Spec
CONSTANTS
  Procs = {p1, p2}
  initproc = p1
  PgDirs = {d1, d2, d3}
  Frames = {f1, f2, f3}
  NPAGES = 2
  TEXT = 0
  Vals = {z, x}
  Zero = z
  Junk = junk
  MINBRK = 1
  MAXUSERS = 1
SYMMETRY Symmetry
INVARIANTS RefInv TlbCoherent
PROPERTY PrivateSpec
