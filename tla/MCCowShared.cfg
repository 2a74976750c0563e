SPECIFICATION Spec
CONSTANTS
  Procs = {p1, p2, p3}
  initproc = p1
  PgDirs = {d1, d2}
  Frames = {f1, f2, f3}
  NPAGES = 2
  TEXT = 0
  Vals = {z}
  Zero = z
  Junk = junk
  MINBRK = 2
  MAXUSERS = 2
SYMMETRY Symmetry
INVARIANTS NoPanic RefInv WritableIsSole
PROPERTY WriteFaultsResolved
