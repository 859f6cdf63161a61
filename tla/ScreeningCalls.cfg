\* Two items with the text of one person, two calls whose leases expire, one erasure.
SPECIFICATION Spec

CONSTANTS
  Items = {i1, i2}
  Batches = {b1}
  BatchOf <- OneBatch
  Texts = {t1}
  t1 = t1
  TextOf <- SameText
  Persons = {p1}
  p1 = p1
  PersonOf <- SamePerson
  ShortTexts = {}
  Legacy = {}
  Workers = {w1, w2}
  Candidates = {c1, c2}
  Resumes = {r1, r2}
  Reports = {v1, v2}
  None = None
  ClaimTimeout = 0
  InputTTL = 9
  MaxClock = 1
  MaxErasures = 1

INVARIANTS
  LeaseExclusion
  OneReportPerItem
  OneCandidatePerPerson
  LinksConsistent

PROPERTIES
  NothingIngestedAfterErasure

SYMMETRY RowSymmetry

\* Row ids and the clock are finite: a run may end with nothing left to do.
CHECK_DEADLOCK FALSE
