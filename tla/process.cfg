CONSTANTS
  Profiles = {"a", "b"}
  Unset = Unset
  Default <- Least
  Allowed <- Limits
  Files <- AllFiles
  MaxOpens = 2
  MaxBoots = 2
  OpensEach = 1
  Pids = {1}
  NoOpen = NoOpen
SPECIFICATION FairSpec
CHECK_DEADLOCK FALSE
INVARIANT TypeOK
INVARIANT ExitZeroIsVerified
INVARIANT CleanExitLeavesNoCommand
INVARIANT DsnIsOwnOutput
INVARIANT GraceCoversProfiles
PROPERTY SigintEndsProcess
PROPERTY StopEndsProcess
