CONSTANTS
  Session = {s1, s2}
  Deployment = {d1}
  Jti = {j1, j2}
  Nonce = {n1, n2}
  Article = {a1}
  Content = {c1}
  InitArticle = {a1}
  Grant <- TwoChallenges
  DeploymentOf <- OneSidecar
  PoolSize = 2
  OwnerWrites = FALSE
  None = None
  s1 = s1
  s2 = s2
  s3 = s3
  d1 = d1
  d2 = d2
  j1 = j1
  j2 = j2
  j3 = j3
  n1 = n1
  n2 = n2
  a1 = a1
  a2 = a2
  a3 = a3
  c1 = c1
  c2 = c2
SPECIFICATION Spec
PROPERTY CommitsOnlyOnChallengedState
