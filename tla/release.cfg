CONSTANTS
  archive1 = archive1
  archive2 = archive2
  sums = sums
  Assets <- AllAssets
  Shas = {"c1", "c2"}
  Rebuilds = 2
  MaxAttempts = 3
  NoBuild = NoBuild
SPECIFICATION Spec
CHECK_DEADLOCK FALSE
SYMMETRY Symmetry
INVARIANT TypeOK
INVARIANT PublishedIsWhole
INVARIANT SuccessIsPublished
PROPERTY PublishedIsOwnBuild
PROPERTY RefusalMeansMismatch
PROPERTY AnnouncedIsTagged
