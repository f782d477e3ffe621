SPECIFICATION FairSpec
CONSTANTS
  NPROC = 3
  NCPU = 1
  MaxPid = 3
  MaxSleep = 1
  KillPids = {2}
PROPERTIES Scheduled OrphanReaped KilledExits SleepReturns
