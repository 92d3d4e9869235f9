CONSTANTS
  k1 = k1
  k2 = k2
  Kid = {k1, k2}
  ValidFrom <- FromOfKid
  ValidUntil <- UntilOfKid
  Leeway = 1
  MaxClock = 2
  MaxChanges = 2
  None = None
SPECIFICATION Spec
INVARIANTS VerdictIsOfTheReading ReceiptsOutliveTheirKeys
\* Changes, ticks and retirements are bounded, and one receipt is made.
CHECK_DEADLOCK FALSE
