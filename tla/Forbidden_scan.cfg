SPECIFICATION FairSpec
CONSTANTS
  Byte = {"a", "b", "n"}
  Newline = "n"
  InputLimit = 3
  ChunkSize = 2
  TotalLimit = 5
  Cases <- MCCases
INVARIANTS
  Inv
  InputsExact
  VerdictExact
PROPERTIES
  ScanEnds
CHECK_DEADLOCK FALSE
