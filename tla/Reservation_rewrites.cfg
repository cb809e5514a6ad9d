SPECIFICATION FairSpec
CONSTANTS
  Procs = {p1, p2}
  NoProc = NoProc
  Paths <- FoldedPaths
  Key <- FoldedKey
  Targets <- FoldedTargets
  MaxRemovals = 1
  MaxForeign = 1
  MaxKills = 1
INVARIANTS
  Inv
  MutualExclusion
  DestinationStaysFree
PROPERTIES
  NobodyIsBlocked
CHECK_DEADLOCK FALSE
