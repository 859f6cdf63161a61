\* An item from before migration 0026 and the retention sweep.
SPECIFICATION Spec

CONSTANTS
  Items = {i1}
  Batches = {b1}
  BatchOf <- OneBatch
  Texts = {t1}
  t1 = t1
  TextOf <- SameText
  Persons = {p1}
  p1 = p1
  PersonOf <- SamePerson
  ShortTexts = {}
  Legacy = {i1}
  Workers = {w1}
  Candidates = {c1}
  Resumes = {r1}
  Reports = {v1, v2}
  None = None
  ClaimTimeout = 0
  InputTTL = 0
  MaxClock = 2
  MaxErasures = 1

PROPERTIES
  QuarantineShown

\* Row ids and the clock are finite: a run may end with nothing left to do.
CHECK_DEADLOCK FALSE
