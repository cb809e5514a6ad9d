SPECIFICATION Spec
CONSTANTS
  Segment = {"a", "b"}
  Branches = {"refs/heads/main", "refs/heads/dev"}
  Tags = {"refs/tags/v1"}
  Families <- SmallFamilies
  AnyPath = {}
  MaxEdits = 1
  MaxMade = 1
INVARIANT TamperedScopeRejected
CHECK_DEADLOCK FALSE
