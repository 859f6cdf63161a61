\* An item from before migration 0026 and a new one, retention, retries, crashes and one erasure.
SPECIFICATION FairSpec

CONSTANTS
  Items = {i1, i2}
  Batches = {b1}
  BatchOf <- OneBatch
  Texts = {t1}
  t1 = t1
  TextOf <- SameText
  Persons = {p1}
  p1 = p1
  PersonOf <- NoPerson
  ShortTexts = {t1}
  Legacy = {i1}
  Workers = {w1}
  Candidates = {c1, c2}
  Resumes = {r1, r2}
  Reports = {v1, v2}
  None = None
  ClaimTimeout = 1
  InputTTL = 1
  MaxClock = 3
  MaxErasures = 1

PROPERTIES
  ItemsSettle
  ImplementsContract

\* Row ids and the clock are finite: a run may end with nothing left to do.
CHECK_DEADLOCK FALSE
