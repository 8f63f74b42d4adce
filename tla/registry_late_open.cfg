CONSTANTS
  p1 = p1
  p2 = p2
  Profiles <- OneProfile
  MaxHandles <- TwoEach
  OutstandingRequests <- TwoEach
  MaxOpens = 1
  Requests = {r1}
  Stoppers = {s1}
  ShutdownRequest = ShutdownRequest
  NoOne = NoOne
SPECIFICATION Spec
CHECK_DEADLOCK FALSE
INVARIANT VerifiedReportMeansNothingLive
