\* Two addresses competing for organization names, and operators who come and go.
SPECIFICATION Spec

CONSTANTS
  Planes = {"org", "admin"}
  Emails = {e1, e2}
  Names = {n1, n2}
  Codes = {i1, i2}
  Candidates = {}
  Sessions = {x1, x2}
  Calls = {k1, k2}
  None = None
  NoOwner = NoOwner
  TTL = 1
  Cooldown = 0
  MaxAttempts = 1
  MaxClock = 0

INVARIANTS
  OneOrganizationPerEmail
  SessionsBelongToProver

SYMMETRY IdSymmetry

\* Row ids and the clock are finite: a run may end with nothing left to do.
CHECK_DEADLOCK FALSE
