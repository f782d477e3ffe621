SPECIFICATION Spec
CONSTANTS
  Proc = {p1, p2}
  ninodes = 4
  NINODE = 3
  Name = {"a", "b"}
  Nobody = Nobody
  NFILE = 1
  NOFILE = 2
  Calls <- TreeCalls
SYMMETRY Symmetry
INVARIANTS
  
  NameHasInode
  CallsBalance
  CacheCoherent
CHECK_DEADLOCK FALSE
