CONSTANTS
  Text <- Texts
  Count <- Digits
  Null = "null"
  Raw <- Lengths
  Encoded <- JsonLengths
  ColumnKeys = 1
  MaxColumns = 2
  MaxRows = 2
  ByteLimits = {12, 18, 22, 26, 30, 60}
SPECIFICATION Spec
CHECK_DEADLOCK FALSE
INVARIANT TypeOK
INVARIANT RetainedFits
INVARIANT OnlyWholeResults
INVARIANT OverflowIsNamed
INVARIANT RefusedResultsOverflow
