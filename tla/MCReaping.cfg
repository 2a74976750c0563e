SPECIFICATION LiveSpec
CONSTANTS
  NPROC = 3
  NCPU = 1
  NPRIO = 1
  QUANTUM_BASE = 1
  AGING_INTERVAL = 1
  AGING_TICKS = 1
  NCHAN = 0
  PgDirs = {d1, d2}
  MaxPid = 4
  KillArgs = {2}
INVARIANTS SpacesInv SoleUser ParentAlive
PROPERTY OrphansReaped
