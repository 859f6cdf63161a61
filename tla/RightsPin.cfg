\* One correction and one upload that overlap.
SPECIFICATION Spec

CONSTANTS
  Candidates = {c1}
  Requests = {q1}
  Names = {n1, n2}
  Operators = {o1}
  Uploads = {u1}
  None = None

PROPERTIES
  CorrectionPinned

\* A run may end with every call done and every id used.
CHECK_DEADLOCK FALSE
