CONSTANTS
  b1 = b1
  b2 = b2
  Bytes = {b1, b2}
  First = b1
  MaxMoves = 2
  MaxEdits = 2
  None = None
  Wrong = Wrong
SPECIFICATION Spec
INVARIANTS ProvenMeansMoved PassIsOneAuthorization ReadbackIsOfTheGrant HonestRunPasses
