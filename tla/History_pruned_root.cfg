SPECIFICATION Spec
CONSTANTS
  N = 2
  Sources <- MCSources
  Policies <- MCPolicies
INVARIANTS
  OwnOutputAccepted
CHECK_DEADLOCK FALSE
