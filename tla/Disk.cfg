SPECIFICATION FairSpec
CONSTANTS
  Proc = {p1, p2}
  NBUF = 2
  Disk = {1, 2}
  Sector = {1, 2, 3}
  Val = {v0, v1}
  Zero = v0
  Used <- UsedBlocks
  Driver = {"ide", "ide2", "memide"}
  Status = {"ok"}
  Nobody = Nobody
  MaxHeld = 2
  MaxPinned = 1
INVARIANTS CleanOnDisk 
PROPERTIES CoherentBlocks RequestServed
