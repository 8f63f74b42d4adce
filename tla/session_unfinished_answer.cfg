CONSTANTS
  MaxCatalog = 0
  RawTransactionSql = FALSE
  NarrowCells = FALSE
SPECIFICATION FairSpec
CHECK_DEADLOCK FALSE
PROPERTY DeadlineEndsCall
