SPECIFICATION Spec
CONSTANTS
  Proc = {p1, p2}
  ninodes = 3
  NINODE = 2
  Name = {"a"}
  Nobody = Nobody
  NFILE = 1
  NOFILE = 1
  Calls <- FileCalls
INVARIANTS
  FreedWhenUnused
CHECK_DEADLOCK FALSE
