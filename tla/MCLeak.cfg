SPECIFICATION Spec
CONSTANTS
  NINODES = 16
  NINODE = 6
  NBLOCKS = 16
  BSIZE = 4
  NDIRECT = 1
  NPROC = 4
  NOFILE = 6
  NFILE = 6
  PIPESIZE = 2
  NPIPE = 1
  COUNTER = 4
  MAXWRITE = 4
  INPUT_BUF = 2
  INDEX = 4
  MAXARGS = 4
  Programs <- Openiput
  Interactive <- Typing
INVARIANT UnlinkedIsFreed
