\* Rights: two requests, two operators, two uploads, erasure and crashes.
\* Verification: two codes inherited from an older release and two overlapping calls.
SPECIFICATION BothSpec

CONSTANTS
  Candidates = {c1}
  Requests = {q1, q2}
  Names = {n1, n2}
  Operators = {o1, o2}
  Uploads = {u1, u2}
  None = None
  Claimants = {c1}
  Absent = Absent
  Legacy = {v1, v2}
  Vids = {v1, v2, q1, q2}
  Ops = {o1, o2}
  Deliverable = {"otp_email", "otp_phone"}
  LegacyOwner = c1
  Cooldown = 1
  CodeTTL = 1
  OutcomeTTL = 1
  MaxAttempts = 2
  MaxClock = 2

INVARIANTS
  AuditTruthful
  OneLiveCode
  CompletedOnce
  ErasureLeavesNothing
  AssuranceEarned

PROPERTIES
  DecisionIsFinal
  CorrectionOutlivesUploads
  NewestCodeOnly

SYMMETRY IdSymmetry

\* A run may end with every call done and every id used.
CHECK_DEADLOCK FALSE
