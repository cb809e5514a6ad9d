SPECIFICATION Spec
CONSTANTS
  anna = anna
  ben = ben
  Maintainer <- TwoMaintainers
  Version <- TwoVersions
  First = 1
  MaxCommits = 3
  MaxFaults = 0
  MaxWork = 0
PROPERTY ReviewedIsPushed
CHECK_DEADLOCK FALSE
