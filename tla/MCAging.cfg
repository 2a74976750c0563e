SPECIFICATION LiveSpec
CONSTANTS
  NPROC = 2
  NCPU = 1
  NPRIO = 2
  QUANTUM_BASE = 1
  AGING_INTERVAL = 1
  AGING_TICKS = 2
  NCHAN = 0
  PgDirs = {d1, d2}
  MaxPid = 3
  KillArgs = {2}
INVARIANTS RunQueueInv BoostIsTemporary
PROPERTY EventuallyRuns
