CONSTANTS
  Session = {s1, s2}
  Deployment = {d1, d2}
  Jti = {j1, j2}
  Ref = {main, tag}
  Branch = {main}
  Logged = {main}
  Commit = {x, y}
  OtherObject = {}
  InitRefs <- BranchAtX
  Grant <- TwoGrants
  Body <- MoveOrTag
  PushSet <- Meddling
  DeploymentOf <- TwoSidecars
  InitHook = "ours"
  ReadsFail = FALSE
  None = None
  s1 = s1
  s2 = s2
  d1 = d1
  d2 = d2
  j1 = j1
  j2 = j2
  main = main
  tag = tag
  x = x
  y = y
  blob = blob
SPECIFICATION SpecAudit
INVARIANTS ConfirmedIsProven EveryUseIsAccounted UnprovenIsIndeterminate ReleasedIsUnmarked
PROPERTY DriftMeansUnspent
