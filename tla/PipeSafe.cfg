CONSTANTS
  Proc = {p1, p2}
  Byte = {b1, b2}
  PIPESIZE = 2
  WRAP = 4
  MaxCount = 2
  Nobody = Nobody
SPECIFICATION FairSpec
INVARIANTS SleepersHaveReason PageWhileUsed
PROPERTIES FifoOrder SleepersLeave
CHECK_DEADLOCK FALSE
