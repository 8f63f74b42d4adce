CONSTANTS
  p1 = p1
  p2 = p2
  Profiles <- OneProfile
  MaxHandles <- TwoEach
  OutstandingRequests <- TwoEach
  MaxOpens = 1
  Requests = {r1, r2}
  Stoppers = {s1}
  ShutdownRequest = ShutdownRequest
  NoOne = NoOne
SPECIFICATION FairSpec
CHECK_DEADLOCK FALSE
PROPERTY ShutdownIsBounded
