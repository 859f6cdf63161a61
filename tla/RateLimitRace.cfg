\* Three requests for one mailbox, whose limit is two.
SPECIFICATION RateSpec

CONSTANTS
  Mailboxes = {m1}
  Addresses = {i1}
  Requests = {q1, q2, q3}
  Limit = 2
  WindowSeconds = 2
  RateHorizon = 2

PROPERTIES
  RefusedOnlyWhenFull

\* The requests are finitely many.
CHECK_DEADLOCK FALSE
