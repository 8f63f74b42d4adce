CONSTANTS
  MaxCatalog = 1
  RawTransactionSql = TRUE
  NarrowCells = TRUE
SPECIFICATION FairSpec
CHECK_DEADLOCK FALSE
INVARIANT TypeOK
INVARIANT MovesAccepted
INVARIANT PublishedIsNative
INVARIANT VerdictsAreTrue
INVARIANT NeverReplayed
INVARIANT ObservedSchemaIsCurrent
PROPERTY DisposalLeavesNoTransaction
PROPERTY KeepsHandleContract
PROPERTY EveryCallFinishes
