SPECIFICATION FairSpec
CONSTANTS
  Owner = Owner
  NoProc = NoProc
  Clients = {c1, c2}
  Children = {k1}
  Ops = {"clean"}
  MaxFaults = 1
PROPERTIES
  ReleasedGetsCleaned
