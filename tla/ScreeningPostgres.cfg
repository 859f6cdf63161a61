\* One call and two overlapping retries.
SPECIFICATION PgSpec

CONSTANTS
  Items = {i1}
  Batches = {b1}
  BatchOf <- OneBatch
  Texts = {t1}
  t1 = t1
  TextOf <- SameText
  Persons = {p1}
  p1 = p1
  PersonOf <- SamePerson
  ShortTexts = {}
  Legacy = {}
  Workers = {w1}
  Candidates = {c1}
  Resumes = {r1}
  Reports = {v1, v2}
  None = None
  ClaimTimeout = 1
  InputTTL = 9
  MaxClock = 0
  MaxErasures = 0

PROPERTIES
  OnlyFailedItemsRequeued

\* Row ids and the clock are finite: a run may end with nothing left to do.
CHECK_DEADLOCK FALSE
