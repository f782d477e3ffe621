SPECIFICATION Spec
CONSTANTS
  NPROC = 2
  NCPU = 1
  MaxPid = 2
  MaxSleep = 0
  KillPids = {0}
PROPERTIES BornUnkilled
CHECK_DEADLOCK FALSE
