\* The life of a code on the candidate plane: expiry, budget, uploads, erasure.
SPECIFICATION Spec

CONSTANTS
  Planes = {"candidate"}
  Emails = {e1}
  Names = {n1}
  Codes = {i1, i2}
  Candidates = {c1, c2}
  Sessions = {x1, x2}
  Calls = {k1, k2}
  None = None
  NoOwner = NoOwner
  TTL = 1
  Cooldown = 1
  MaxAttempts = 2
  MaxClock = 1

INVARIANTS
  CodeOpensOneSession
  ErasureCancelsCodes
  SessionsBelongToProver

PROPERTIES
  RedeemedInTime
  CodesAreNotLost
  OneCandidatePerEmail

SYMMETRY IdSymmetry

\* Row ids and the clock are finite: a run may end with nothing left to do.
CHECK_DEADLOCK FALSE
