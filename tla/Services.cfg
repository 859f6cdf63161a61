\* The services side by side: small sets of rows, each shared by several services.
SPECIFICATION ServicesSpec

CONSTANTS
  \* Interviews: two plans of three questions, three overlapping requests.
  Candidates = {p1}
  Sessions = {y1, y2}
  Calls = {x1, x2, x3}
  Planned = 3
  None = None
  TTL = 1
  MaxClock = 3
  \* The ledger: one grant, two rows and two calls in flight.
  Persons = {p1}
  Orgs = {o1}
  Grants = {g1}
  Evidence = {x1, x2}
  Asks = {y1, y2}
  Nobody = Nobody
  ConsentTTL = 1
  Weights = {1}
  Horizon = 1
  \* The rate limiter: three hits on two buckets of two.
  Mailboxes = {m1}
  Addresses = {i1}
  Requests = {x1, x2, x3}
  Limit = 2
  WindowSeconds = 1
  RateHorizon = 1
  \* The executors: one slot of each kind.
  SqlWork = {x1, x2}
  PdfWork = {d1}
  Capacity = 1
  \* Curation: two ingestions of two observations, two reviewers on two processes, one
  \* legacy term and one of the taxonomy.
  Subjects = {p1}
  Sources = {x1, x2}
  Observations = {y1, y2}
  Terms = {t1, t2}
  Taxonomy = {t2}
  Skills = {s1}
  KnownSkills = {s1}
  LegacyTerms = {t1}
  Fetches = {x1, x2}
  Reviews = {y1, y2}
  Processes = {x1, x2}
  Unmapped = Unmapped
  ReviewLifetime = 1
  LastDay = 1
  \* Feature vectors: one record, two builds, one use.
  Talents = {p1}
  Outcomes = {d1}
  Builds = {y1, y2}
  Uses = {u1}
  Unknown = Unknown
  LastCut = 1
  \* Matching: a shortlist of two out of three, two organizations.
  Seekers = {p1, p2, p3}
  Employers = {o1, o2}
  Postings = {r1}
  Matches = {m1}
  Nothing = Nothing
  Shortlist = 2

INVARIANTS
  OneLiveSession
  AnswersInOrder
  AssessedAsAnswered
  ErasureLeavesNothing
  RevocationHonoured
  LedgerHolds
  AnswersAreWitnessed
  WithinLimit
  EngineOutlivesWork
  ObservationsAreOwned
  UsesHonourConsent
  NoLeakage
  VectorsHold
  DisclosuresAreAudited

PROPERTIES
  ChangesOnlyWhileLive
  NoTermDecidedUnseen
  RetriesRemoveSomeone

SYMMETRY RowSymmetry

\* Row ids and the clocks are finite: a service may end with nothing left to do.
CHECK_DEADLOCK FALSE
