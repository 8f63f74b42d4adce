CONSTANTS
  MaxCatalog = 1
  RawTransactionSql = TRUE
  NarrowCells = FALSE
SPECIFICATION Spec
CHECK_DEADLOCK FALSE
INVARIANT InternalSnapshotNeverVisible
