CONSTANTS
  Session = {s1, s2}
  Deployment = {d1}
  Jti = {j1, j2}
  Nonce = {n1, n2}
  Article = {a1, a2}
  Content = {c1}
  InitArticle = {a1}
  Grant <- OwnGrants
  DeploymentOf <- OneSidecar
  PoolSize = 2
  OwnerWrites = FALSE
  MaxClock = 1
  MaxId = 3
  Windows <- MCWindows
  Limits = {1, 5}
  Handed <- MCHanded
  KeyLeeway = 0
  None = None
  s1 = s1
  s2 = s2
  d1 = d1
  d2 = d2
  j1 = j1
  j2 = j2
  n1 = n1
  n2 = n2
  a1 = a1
  a2 = a2
  c1 = c1
SPECIFICATION SpecReaders
CONSTRAINT ChallengesLast
INVARIANTS AuditTellsTheTruth DoubtIsOnlyAboutKeys NothingSeenIsMissing
PROPERTY QuietWindowIsFinal
CHECK_DEADLOCK FALSE
SYMMETRY Sessions
