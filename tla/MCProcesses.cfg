SPECIFICATION Spec
CONSTANTS
  NPROC = 3
  NCPU = 2
  NPRIO = 1
  QUANTUM_BASE = 1
  AGING_INTERVAL = 1
  AGING_TICKS = 1
  NCHAN = 1
  PgDirs = {d1, d2}
  MaxPid = 3
  KillArgs = {2}
SYMMETRY Symmetry
INVARIANTS CpuInv RunQueueInv NoMissedExit
PROPERTY LifeSpec
