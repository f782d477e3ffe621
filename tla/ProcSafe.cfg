SPECIFICATION Spec
CONSTANTS
  NPROC = 3
  NCPU = 2
  MaxPid = 4
  MaxSleep = 1
  KillPids = {1, 2}
INVARIANTS OneCpu StackWhileNeeded LivingParent NoLostWakeup 
CHECK_DEADLOCK FALSE
