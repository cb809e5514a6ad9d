SPECIFICATION Spec
CONSTANTS
  Segment = {"a", "b"}
  Branches = {"refs/heads/main", "refs/heads/dev"}
  Tags = {"refs/tags/v1"}
  Families <- MCFamilies
  AnyPath <- Paths
  MaxEdits = 1
  MaxMade = 2
INVARIANTS
  Inv
  RulesAgree
  PlanTrue
  VerdictSound
  OwnAccepted
CHECK_DEADLOCK FALSE
