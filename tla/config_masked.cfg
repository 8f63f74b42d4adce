CONSTANTS
  Profiles = {"a", "b"}
  Unset = Unset
  Default <- Least
  Allowed <- Limits
  Files <- AllFiles
  MaxOpens = 1
  MaxBoots = 1
  OpensEach = 1
  Pids = {1}
  NoOpen = NoOpen
SPECIFICATION Spec
CHECK_DEADLOCK FALSE
INVARIANT LoadedProfilesAreUsable
