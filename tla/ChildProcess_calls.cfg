SPECIFICATION FairSpec
CONSTANTS
  Callers <- AnyCaller
  Limit = 1
  MaxFaults = 2
INVARIANTS
  Inv
  ResultIsWhole
  OnlyLateSignalsOrphan
PROPERTIES
  SignalsOwnGroup
  CallsEnd
CHECK_DEADLOCK FALSE
