SPECIFICATION Spec
CONSTANTS
  N = 3
  Sources <- MCSources
  Policies <- MCPolicies
INVARIANTS
  Inv
  OnlyRetainedObjects
  ReferencesKeepContent
  AncestryPreserved
  TouchedMessagesGone
  VerdictHolds
CHECK_DEADLOCK FALSE
