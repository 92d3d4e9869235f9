SPECIFICATION Spec
CONSTANTS
  Call = {c1, c2}
  Path = {"p", "q"}
  Jti = {"g", "h"}
  Deployment = {"d", "e"}
  Configured = "d"
  Rep = {"v1", "v2", "v3", "weak"}
  StrongRep = {"v1", "v2", "v3"}
  Requests <- MCRequests
  OriginRep <- MCOriginRep
  OtherWrites = 1
  Fickle = TRUE
  Remembers = TRUE
  Keys <- MCKeys
  Asked = "d"
  Stray <- MCStray
  None = None
INVARIANTS UntouchedIsFinal CanaryKeepsWritesAway AttestedIsSwap IInv ConfirmedIsProven SealedIsConfirmed
CHECK_DEADLOCK FALSE
