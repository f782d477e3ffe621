SPECIFICATION Spec
CONSTANTS
  Proc = {p1, p2}
  Ino = {1, 2}
  File = {1}
  BSIZE = 2
  NDIRECT = 1
  FSSIZE = 5
  Meta = {0}
  BPB = 1
  MAXOPBLOCKS = 6
  Byte = {1}
  Count = {1, 3}
  NPROC = 2
  NPAGES = 15
  PGSIZE = 2
  NPTENTRIES = 2
  KERNBASE = 12
  NKPT = 1
  Incr <- Increments
  Program <- Programs
  LIMIT = 12
  NALLOC = 4
  HEADER = 2
  Want = {1, 3, 5, 9}
SYMMETRY Symmetry
INVARIANTS
  BlocksOwnedOnce
  ChunkFitsLog
  PagesConserved
  SizeIsMapped
  HeapExact
PROPERTIES
  
  FailureRestores
CHECK_DEADLOCK FALSE
