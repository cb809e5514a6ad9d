SPECIFICATION FairSpec
CONSTANTS
  Receipts <- AnyReceipt
  DirSyncs = {TRUE, FALSE}
  MaxMoves = 2
  MaxFaults = 2
INVARIANTS
  Inv
  PublishedIsWhole
  EvidenceIsTrue
PROPERTIES
  PublicationPromise
  StagingIsSettled
  RewriteEnds
CHECK_DEADLOCK FALSE
