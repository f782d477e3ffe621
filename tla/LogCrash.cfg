SPECIFICATION Spec
CONSTANTS
  Proc = {p1, p2}
  Block = {b1, b2}
  Val = {v0, v1}
  Zero = v0
  MAXOPBLOCKS = 4
  LOGSIZE = 12
  NLOG = 12
  OPBLOCKS = 2
INVARIANTS CleanBufferOnDisk
PROPERTIES WriteAhead CrashAtomic
