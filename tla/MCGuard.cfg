CONSTANTS
  Session = {s1, s2}
  Route <- MCRoute
  OperationMap <- MCOperationMap
  Adapter <- MCAdapter
  Key = {k1, k2}
  File <- MCFile
  Token <- MCToken
  Request <- MCRequest
  Jti = {j1, j2}
  Audience = "here"
  Dep = "ours"
  TargetUri = uri
  Leeway = 1
  Requested = 2
  Lag = 1
  MaxClock = 5
  None = None
  s1 = s1
  s2 = s2
  j1 = j1
  j2 = j2
  k1 = k1
  k2 = k2
  a1 = a1
  uri = uri
  b1 = b1
  b2 = b2
SPECIFICATION Spec
INVARIANTS GuardIsExact RemedyFits NoReplayAfterReclaim IInv
CHECK_DEADLOCK FALSE
