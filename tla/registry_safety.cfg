CONSTANTS
  p1 = p1
  p2 = p2
  Profiles <- TwoProfiles
  MaxHandles <- OneEach
  OutstandingRequests <- OneEach
  MaxOpens = 2
  Requests = {r1}
  Stoppers = {s1, s2}
  ShutdownRequest = ShutdownRequest
  NoOne = NoOne
SPECIFICATION Spec
CHECK_DEADLOCK FALSE
SYMMETRY Symmetry
INVARIANT TypeOK
INVARIANT VerifiedMeansDisposed
INVARIANT ReportCoversRegistry
INVARIANT OneReport
INVARIANT HandleLimitHolds
PROPERTY NothingAdmittedAfterStop
PROPERTY ImplementsContract
