SPECIFICATION Spec
CONSTANTS
  Owner = Owner
  NoProc = NoProc
  Clients = {c1, c2}
  Children = {k1, k2}
  Ops = {"list", "clean"}
  MaxFaults = 2
SYMMETRY Symmetric
INVARIANTS
  Inv
  RemovalExclusive
  NoCleanWhileInUse
  StaleIsFinal
PROPERTIES
  RetentionHolds
