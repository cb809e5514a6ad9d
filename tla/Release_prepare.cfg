SPECIFICATION FairSpec
CONSTANTS
  anna = anna
  ben = ben
  Maintainer <- TwoMaintainers
  Version <- TwoVersions
  First = 1
  MaxCommits = 3
  MaxFaults = 1
  MaxWork = 1
INVARIANTS
  ReleaseInv
  PushedIsReleased
PROPERTIES
  FailureIsUndone
  ReleasesComplete
CHECK_DEADLOCK FALSE
