CONSTANTS
  p1 = p1
  p2 = p2
  Profiles <- TwoProfiles
  MaxHandles <- OneEach
  OutstandingRequests <- OneOrTwo
  MaxOpens = 1
  Requests = {r1, r2}
  Stoppers = {s1}
  ShutdownRequest = ShutdownRequest
  NoOne = NoOne
SPECIFICATION FairSpec
CHECK_DEADLOCK FALSE
INVARIANT AdmissionAccounting
INVARIANT TrySendSucceeds
INVARIANT NoOperationAfterDisposal
PROPERTY EveryCallAnswered
PROPERTY EveryShutdownReturns
PROPERTY KeepsContract
