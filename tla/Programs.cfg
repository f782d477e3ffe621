SPECIFICATION Spec
CONSTANTS
  Reader = {r1, r2}
  INPUT_BUF = 2
  WRAP = 4
  Key = {"d", "h", "u", "enter"}
  Modifier = {"CTL", "CAPSLOCK"}
  COLS = 2
  ROWS = 2
  MaxRead = 2
  Radix <- Fields
  MaxTicks = 2
  MAXARGS = 3
  NOFILE = 5
  BSIZE = 4
  NDIRECT = 2
  NINDIRECT = 2
  NMETA = 2
  FSSIZE = 26
  BPB = 20
  NINODES = 6
  DIRENT = 2
  FileSize = {0, 1, 4, 9, 16, 17}
  DIRSIZ = 3
  W = 8
SYMMETRY Symmetry
INVARIANTS
  TimeWhole
  RunsAsWritten
  NothingHangs
  

  
CHECK_DEADLOCK FALSE
