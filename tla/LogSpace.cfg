SPECIFICATION FairSpec
CONSTANTS
  Proc = {p1, p2, p3}
  Block = {b1, b2, b3, b4, b5}
  Val = {v0}
  Zero = v0
  MAXOPBLOCKS = 3
  LOGSIZE = 6
  NLOG = 6
  OPBLOCKS = 1
INVARIANTS NoPanic LogFits SleeperHasWaker
PROPERTIES SleeperWakes
