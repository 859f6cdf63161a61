\* One call at a time; the budget of wrong codes can be used up at once.
SPECIFICATION VerificationSpec

CONSTANTS
  Claimants = {c1}
  Vids = {v1, v2, v3}
  Ops = {o1}
  Deliverable = {"otp_email"}
  Legacy = {}
  LegacyOwner = c1
  Absent = Absent
  Cooldown = 1
  CodeTTL = 2
  OutcomeTTL = 2
  MaxAttempts = 2
  MaxClock = 1

PROPERTIES
  RestartWaits

\* Row ids and the clock are finite: a run may end with nothing left to do.
CHECK_DEADLOCK FALSE
