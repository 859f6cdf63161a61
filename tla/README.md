# Verification of ResumeFilter

TLA+ models of the backend under `src/src/app/`, their TLC runs and the theorems
TLAPS checks about them. Paths below are relative to `src/src/app/` unless they
begin with `src/`.

| file | what it is |
|---|---|
| `Screening.tla` | screening batches: claims, leases, ingest, report, completion, retry, erasure, retention |
| `ScreeningContract.tla` | what a batch promises about each item; `Screening` implements it |
| `ScreeningPostgres.tla` | `Screening` with `requeue_failed` as the two steps it is on PostgreSQL |
| `Verification.tla` | one-time codes, attestations, documents, reviews, assurance |
| `Rights.tla` | data principal requests |
| `Interview.tla` | interview sessions |
| `AuthLogin.tla` | login by one-time code on the three planes, sessions, uploads and erasure of the same address |
| `Ledger.tla` | organizations, grants, evidence, disclosures and the access log |
| `RateLimit.tla` | fixed windows, conditional increments, housekeeping |
| `Executors.tla` | the bounded executors, PDF jobs, the shutdown of the services |
| `Curation.tla` | profile sources and the vocabulary queue they feed |
| `Features.tla` | feature vectors: built at a cut, used under consent, labelled, exported |
| `Matching.tla` | requisitions and match calls |
| `Ranking`, `Compensation`, `FeatureValues`, `SignalQuality`, `Fractions` | pure: the ranking engines, pay bands and reputation, feature values and the feature registry, measures of signals, and exact fractions for all of them |
| `Analysis`, `Fabrication` | pure: the evaluation graph with its domain rules, the advisory signals |
| `Extraction`, `Normalize`, `Documents`, `InterviewScoring`, `PdfWorker`, `Sources` | pure: reading resumes, documents, answers, PDF files and profiles |
| `Gateway`, `Handlers`, `Reads` | the edge of the service, the route handlers, what the stores answer |
| `Migrations` | pure: the ladder of schema revisions |
| `AlgorithmLaws`, `AnalysisLaws`, `ReadingLaws`, `GatewayLaws` | laws of the pure modules, over bounded inputs |
| `ScreeningProofs`, `ScreeningTablesProofs`, `AuthLoginProofs`, `RightsVerificationProofs`, `InterviewProofs`, `ConsentProofs` (ledger and features), `CurationMatchingProofs`, `LimitProofs` (limiter and executors) | theorems and their proofs |
| `MC*.tla`, `*.cfg` | instances for TLC |

## 1. The system

ResumeFilter is a FastAPI service over one SQL database (SQLite in development,
PostgreSQL at READ COMMITTED in production) and a few providers (mail, an LLM,
speech recognition, GitHub). Every request opens short transactions; work that
must not hold one (mail, transcription, analysis) happens between them. Nothing
runs in the background: there is no queue worker and no scheduler, so whatever
must happen later happens because a client calls again. Several processes and
several threads serve requests; they share the database and nothing else.

What makes the code hard is therefore always the same shape: a handler reads,
lets go, and writes later, while erasure (a right of the candidates, at any
time), retention, an operator, a second request or a crash comes between.

### Inventory

| component | state | operations | who calls it, what it shares |
|---|---|---|---|
| screening batches (`screening/`) | `screening_batches`, `batch_items`, `screening_item_inputs`, `screening_erasure_state` | register, add items, process (claim, recover, ingest, evaluate, save, complete, fail), retry, delete, queue and summary reads | organisations; writes through the candidate and report stores, is written by erasure and retention |
| candidate store (`candidates/`) | `candidates`, `resumes`, `extractions`, `fingerprints`, `candidate_credentials` | ingest with identity resolution, refresh of identity, correction, erasure of candidate or resume, access keys, login binding | screening, portal, rights, verification, interviews, login |
| report store (`reports/`) | `reports`, `outcomes` | save, delete, outcomes | screening, the analysis route, portal |
| retention (`retention/`) | none of its own | one sweep over a list of targets, deleting or blanking, capped | an operator's call |
| verification (`verification/`) | `verifications`, `verification_challenges` | start, confirm, submit document, record review, assurance | candidates and operators; disclosures to organisations |
| data principal requests (`rights/`) | `data_principal_requests`, the name on `candidates` | submit, resolve (decide, apply, audit) | candidates and operators; uploads write the same name |
| interviews (`interview/`) | `interview_sessions`, `interview_turns` | start, answer, finish, lazy expiry | candidates; organisations read assessments |
| login and sessions (`auth/`) | `login_issuances`, `login_challenges`, `auth_sessions`, `org_users`, `admin_users` | request code (reserve, send, activate), redeem, touch, revoke, resolve | every plane; candidate store for the claim of a record |
| bounded executors (`core/blocking.py`, `core/pdf_execution.py`) | a pool and its active set | run, close | every blocking operation of the routes |
| rate limiting (`ratelimit/`) | `rate_limit_counters` | hit, check, enforce | login, screening, interviews, rights |
| consent ledger (`ledger/`) | `consent_grants`, `interview_records`, `evaluation_events`, `coding_rounds`, `observed_offers`, `audit_log`, `organizations` | grant, revoke, submit under consent, disclose with audit | candidates, organisations, operators |
| portal (`portal/`) | none | my data, access log, consents, erase | candidates |
| vocabulary curation (`curation/`) | `curation_observations`, `curation_aliases` | record, list, resolve against a revision, purge | ingest and operators |
| feature vectors (`features/`) | `feature_vectors` | materialise at a cut, serve masked by consent, export training sets | operators, matching |
| requisitions and matching (`matching/`) | `job_requisitions` | create, update, match | organisations |
| compensation (`comp/`), reputation (`ledger/reputation.py`), fabrication signals (`fabrication/`), signal quality (`signal_quality/`), domain rules (`domains/`), extraction (`candidates/extractor.py`, ...) | none | pure functions | the analysis graph and the reads above |
| analysis graph (`graph/`) | none | a fixed pipeline of nodes | screening, the analysis route |
| profile sources (`profile_sources/`) | `profile_sources` | consented import | candidates |
| schema migrations (`alembic/versions/`) | the schema itself | upgrade at boot under a lock or by an operator, downgrade by an operator | everything that stores rows |
| HTTP surface, boot, configuration, PDF children, providers, metrics, dashboard | in-process only | | |

### What is hard, and what must hold

- **Screening.** Calls overlap, outlive their leases, die anywhere. One holder
  of an item; one report per item in its whole life; one candidate per person;
  nothing ingested from text registered before an erasure; links that never
  name the dead; ends that stay ends; and every item settles if clients keep
  calling.
- **Verification.** Starts overlap, mail fails, codes are superseded, expire and
  are guessed. One live code per candidate and channel; one outcome per attempt;
  only the newest code verifies; assurance never outlives what it rests on;
  nothing is written about a candidate who was erased meanwhile.
- **Rights.** Two operators, an upload and a crash around three transactions. A
  decision is final; the access log tells the truth; a correction is not undone.
- **Interviews.** Seconds of scoring between the check and the write. One live
  session; answers in order; the assessment covers the answers; dead sessions
  do not change.
- **Login.** Mail between reservation and activation, a look-up before the
  redemption, uploads of the same address. One redemption per code, attempts
  never lost, nothing activated after an erasure, one candidate and one
  organisation per address, and no session of somebody who is gone.
- **Ledger.** Grants are read without a lock and used later. A call that began
  after a revocation honours it; whoever was shown something of a person stands in
  that person's log; nothing is kept of the erased.
- **Rate limits.** On PostgreSQL other requests commit between the statements of
  a hit. No bucket exceeds its limit while its window is open.
- **Executors.** Callers give up, shutdown begins, its caller is cancelled. The
  engine outlives every transaction and child, and nothing runs over capacity.
- **Curation.** Observations arrive, expire and are erased under a reviewer's
  eyes. No term is decided unseen.
- **Features, matching.** Several reads between which consent goes and outcomes
  come. Nothing withdrawn is used, no label leaks into a vector, every disclosed
  match is in the log, and the retry of a match ends.
- **Migrations.** A revision meets rows an older release wrote, and taking it
  back meets rows the newer one wrote. A revision that refuses touches nothing,
  what is taken back leaves no trace of itself, an erasure still takes all that
  is a person's on every rung.
- **Pure code** has no steps, and still hazards: a value read twice, a tie, an
  empty pool, a boundary. Its properties are laws.

`PROJECT.json` lists every hazard at its line, with the properties that cover it
or the reason why none does yet.

## 2. The models

**Granularity.** One action per committed transaction. SQLite serialises
writers and PostgreSQL holds the row locks the stores ask for, so the statements
of a transaction that locks before it reads are one step. What a handler reads
before its first lock or write, or in an earlier transaction, is a step of its
own, and the handler carries what it read in its record (`worker`, `op`,
`operator`, `upload`, `call`). Where the two databases differ in a way that
matters the difference has a module: `ScreeningPostgres`.

**Data.** Texts, names, persons and codes are model values. A table is a
function from row ids to records; an id is used at most once, as a UUID is.
A variable marked *history* in a module is read by no action.

### Screening

| TLA+ | code |
|---|---|
| `item`, `input`, `generation` | `batch_items`, `screening_item_inputs`, `screening_erasure_state` |
| `candidate`, `resume`, `report` | the rows screening creates; `fp` is the fingerprint of a resume |
| `worker[w]` | one `process` call: where it is and what it read (`lease`, `expected`, `gen`, ...) |
| `tainted` | history: items registered before their subject was erased |
| `Register`, `Requeue`, `DeleteBatch` | `create_batch` / `add_items`, `requeue_failed`, `delete_batch` |
| `BeginClaim`, `Claim`, `Load` | the clock is sampled; the claim transaction; the rows are read back |
| `Recover*` | `recover_report`: complete from a report saved by an earlier call |
| `Resolve`, `Ingest*`, `Farm`, `Require`, `Save*`, `Confirm` | `ingest_resume` with the callbacks `check_input_generation`, `retain_ingested_input`, `bind_input_report` inside the transactions of the other stores |
| `Complete*`, `Cleanup`, `Fail` | `complete` with its rollback and erasure cleanup, `fail` |
| `PipelineFails`, `Abandon`, `Stop` | any other exception; a caller that stops waiting while the executor finishes the transaction; a crash or cancellation |
| `Erase*`, `Sweep*` | `delete_candidate`, `delete_resume`, report deletion, with the foreign keys and triggers; two retention targets |

`process` loops up to `screening_max_items_per_call` times; each turn claims
one item, so the loop is a repeated `BeginClaim`. Whether a saved checkpoint
validates is a choice (`RecoverUnusable`). Rows that only carry data (hashes,
signals, risk scores, processing times, extraction rows) are left out, and a
refusal because a contact changed is one of the ordinary failures. The triggers
advance the generation once per deleted row; only equality with it is tested,
so the model advances it once per transaction. One organisation is modelled:
every statement is scoped by it.

`ScreeningContract` forgets leases, rows, clocks and calls: an item has a phase
(`open`, `failed`, `refused`, `done`, `deleted`) and something kept of its
resume (`copy`, `reference`, `bound`, `nothing`). Its point is that what is kept
only moves down and that ends are ends, whatever happens in between.

### Verification

`ver` and `chal` are the two tables, `op` the calls in flight. A start is
`Begin`, `Create`, then `Issue`, `IssueRefused` or `Unsent` and
`MarkUndelivered`; a document passes through `Parsed`; `Complete` is the outcome
that needs no code. `Confirm` is one transaction with its three results. A code
is named by the attempt it was issued for, so a code of another attempt is a
wrong code, and a lucky guess is not modelled. Refusals that precede the first
write (a contact that does not match, a method that cannot be used) change
nothing and are not steps. Superseded, undelivered and throttled attempts stay
`pending` for ever by design: no liveness is claimed. `Legacy` are attempts with
live codes inherited from a release that could issue several at once, the state
`confirm_challenge` defends against.

The names of `Verification` that would collide with those of `Rights` are
prefixed (`VerificationInit`, `verificationVars`, `VerificationTypeOK`), so that
one module can extend both.

### Rights

`Resolve` is `BeginResolve` (checks), `Decide` (the conditional UPDATE),
`Load` and `Apply` (`apply_correction`, which reads before it writes) and
`Audit`. An upload is `BeginUpload` (reads the candidate) and `Flush` (writes
what `_refresh_identity` decided on the row as read). The fields e-mail, phone
and other are one value, because no code applies them. A crash leaves the rest
undone; nothing in the code resumes it. The audit row of `submit` is not
modelled.

### Interview

`session` holds the row and its turns, which name questions by their place in
the plan. `BeginStart`, `BeginAnswer` and `BeginFinish` are the checks before
the providers; `Create`, `SaveTurn`, `Finish` are the transactions under the
lock of the candidate's row; `Refused` is any refusal under it. `abandoned` is
never stored, only derived from the clock. Transcripts, scores and the assurance
stamp are data.

### Login

| TLA+ | code |
|---|---|
| `cand`, `org`, `admins` | `candidates` (`hint` is `email_hash`, `login` is `login_email_hash`), `organizations` by name with the owner created beside it (`NoOwner` if an operator made it), `admin_users` |
| `issuance`, `chal`, `sess` | `login_issuances`, `login_challenges` (one row per plane, purpose and address), `auth_sessions` |
| `call[k]` | a request for a code, a redemption or an upload, with what it read (`seen`, `match`, `at`) |
| `redeemed`, `guesses`, `tainted` | history: sessions opened with a code, wrong guesses charged to it, codes of an erased address |
| `Request`, `TestCooldown`, `ReserveIssuance`, `ActivateIssuance`, `CancelIssuance` | `issue_code`, before and after the mail |
| `BeginVerify`, `LookAgain`, `ChargeGuess`, `NothingToCharge`, `Redeem`, `RefuseRedemption` | `verify_code`: the look-ups, the judgement, the redeeming transaction |
| `BeginUpload`, `Upload` | `ingest` of a resume that names an address: `_resolve_candidate`, then again under the lock of the address |
| `RefreshIdentity` | `_refresh_identity` on a row without a hint, which tests the row and not the lock of the address |
| `DeleteCandidate`, `CreateAdmin`, `DeleteAdmin`, `Revoke`, `Crash` | erasure with `_clear_login_state`, operators, sign-out, a process that dies |
| `CreateOrganization`, `DeleteOrganization` | the operator's routes: an organization nobody logs in to; the loss of one with its users and their sessions, after which its name is free |

A code is named by its reservation: two codes never collide, and what is typed
is a code that was mailed to somebody or a wrong one. The look-up of an
organisation's name is merged with the purge that follows it: a name taken in
between is as good as one taken right after, because the redemption looks again.
The verification stamp of a candidate is always written with its binding and is
left out. `Sessions` is the room for sessions that are live at a time: a revoked
one, and one that went with its principal, make room again. `Planes` says whose
accounts come and go in an instance, so that each run can leave the others out.
The expiry and idle clock of sessions and the rate limits in front of the routes
are not modelled.

### Ledger

A call (`asks`) that reads consent in one step and writes or answers in a later
one: `SubmitCheck` / `SubmitCommit`, `QueryCheck` / `QueryCommit`,
`AppendEvent`, `MaterializationCheck` / `MaterializationConsent`,
`CurrentConsent`. The store takes no lock, so a grant may be revoked, a person
erased or an organization deleted between the two; foreign keys refuse the write
then. A revocation is `RevokeRead` and `RevokeConsent`, and two may overlap. The
clock is the one the call took: before its reads for the ledger, after them for
serving vectors. `dead` (history) is the set of grants revoked before the call
began.

### Rate limiter

One action per statement of `hit` (`TryIncrement`, `LookAgain`, `OpenWindow`
with its housekeeping, `RetryIncrement`), `Check` for the rules of a request,
`SweepCounters` for retention. A request keeps the time it was made; the store
may see it much later. `onTime` (history) counts the hits allowed while their
window was open. A late one may open again a row that was already retired
(`ratelimit/store.py:88`) and is allowed then, so the bound is not about it; what
the bound does say of it is that its housekeeping must not take the row of a
window that is open.

### Executors

`work` is an operation with its future (`st`), its caller, its child process and
its stop signal. `Run` admits or refuses: services that are closing hand out no
executor, but a caller may hold one from before, which admits until it is closed
itself. `LastCheck`, `End` and `Release` are the thread, `Deliver`,
`StopWaiting` and `Cancel` the event loop; a wait may time out although the
operation has just been released, because the loop has yet to wake. The shutdown is
`CloseServices` to `CloseClients`, shielded from the cancellation of its caller.

### Curation, features, matching

`Curation` captures observations under a fetch (`SaveSignal`,
`RecordObservation`, `RequireSavedSignal`) and decides on the rows a reviewer was
shown: `ListObservations`, then `ClaimObservations`, which first checks the
decision against the vocabulary as its process knows it, `ResolveObservations`
and, after the commit, `RefreshOverlay`. `overlay` has one copy of the vocabulary
per process of `Processes`; only that process loads it again, after its own
decisions and when it restarts, so a decision may be checked and a source be
normalised by a copy that is behind. A process has one decision under way,
because `resolve` runs whole on the event loop. `DisposeLegacy` gives each
legacy row an alias and a skill of its own. The two reads of
`load_owned_overlay` are taken as one.

`Features` builds a vector (`BeginBuild` to `UpsertVector`: context, consent of
the cut, look-up, upsert are separate transactions; a cut may lie ahead) and
uses one in a search, a view or a training export, each with the reads the code
makes in its order. An export is handed rows that were read before (`KeepRow`),
so their person may be gone and their grant revoked when it begins. A grant may
be revoked, may end at its expiry, and may or may not cover the organization an
export is for (`permits`, `Permitted`); `dead` and `gone` record which of this
was so when the call began.

`Matching` is one match call: the pool, the ranking (any order), the batch of
audits, which the foreign key refuses after an erasure or another constraint
refuses with everyone there, the retry without the missing, the answer.

### Schema migrations

`Migrations` holds revisions 0001 to 0030 as sequences of steps up and down: the
tables and columns that refer to rows, that are unique or that a revision reads
or writes; references with what the loss of a row does to them; unique keys; the
counter of deletions. `RestoreInput`, `Quarantine`, `QuarantinedInput` and
`ReviewLogins` are what revisions do to rows, `CollidingNames` is a refusal,
`Delete` follows the references. Columns that only carry data, widths, indexes
that are not unique and the table rebuilds SQLite needs are left out. The laws
climb and descend the ladder with rows on it: `EveryRevisionIsTakenBack`,
`RollbackTouchesItsOwn`, `RefusalsTouchNothing`, `RollbackForgetsWhoJudged`,
`SchemaErasesAPerson`, `OffboardingSparesPeople`, `AReportEndsItsRetry`,
`QuarantineOutlivesRollback`, `ErasedInputStaysErased`,
`UnknownLoginsAreReviewed`.

### The pure modules

Their definitions are operators without state, each mapped to the function it
translates. They keep the control (guards, early returns, fallbacks, the order of
rules, what is refused) and abstract the data: a text is the set of the markers a
pattern would find in it, a table is a parameter or a small stand-in, a number is
exact (`Fractions`) where the code rounds to four decimals. Optional values are
sets of at most one. A provider is given by what it answered, a service call by
what it returned or raised; `Handlers` composes such records with the checks of
the route. A read whose order leaves ties open is the set of what it may return.

Each module has laws in a `*Laws` module: named assumptions quantified over all
inputs of a small domain, which TLC evaluates before the run that extends the
module. A law is about what is hard to see in the code, never a copy of it:
walking a queue page by page meets every item once unless it moves
(`QueueIsWalkedOnce`, `OnlyTheMovedItemIsLost`), a legal form at
the end changes no employer that is not listed with it (`LegalFormsNameNobody`), one subsystem of
signals alone never elevates a risk (`OneSignalNeverElevates`), a page tree with a cycle is refused
(`PageTreesAreTrees`), one organization alone brands nobody
(`OneOrganizationBrandsNobody`), every registered feature has a range its values
keep to (`FeaturesFitTheirSpecs`) and a vector names what it misses
(`VectorsNameWhatIsMissing`), a contact never matches across people
(`ContactsNeverMatch`), the preview of a retention sweep is the sweep
(`SweepIsItsPreview`). Every law is preceded by a comment that says what it means.

## 3. The runs

| run | instance | shows |
|---|---|---|
| `ScreeningCalls` | 2 items about one person, 2 calls, leases that expire at the next tick, 1 erasure; evaluates `AnalysisLaws` | `LeaseExclusion`, `OneReportPerItem`, `OneCandidatePerPerson`, `LinksConsistent`, `NothingIngestedAfterErasure` |
| `ScreeningContract` | 1 item from before migration 0026 and 1 new item, 1 call at a time, clock to 3, retention after 1, 1 erasure | `ImplementsContract`, `ItemsSettle` |
| `ScreeningPostgres` | 1 item, 1 call, overlapping retries | `OnlyFailedItemsRequeued` is violated |
| `ScreeningQuarantine` | 1 item from before migration 0026 and the sweep | `QuarantineShown` is violated |
| `VerificationRestart` | 1 call at a time, 1 channel | `RestartWaits` is violated |
| `RightsApplied`, `RightsPin` | 1 request, 1 operator, 1 upload | `AppliedIsWritten` (by a crash), `CorrectionPinned` are violated |
| `RightsVerification` | rights: 1 candidate, 2 requests, 2 names, 2 operators, 2 uploads; verification: 4 attempts of which 2 inherited, 2 calls, both channels, every duration 1, 2 attempts per code; evaluates `GatewayLaws` | `AuditTruthful`, `DecisionIsFinal`, `CorrectionOutlivesUploads`, `OneLiveCode`, `CompletedOnce`, `NewestCodeOnly`, `ErasureLeavesNothing`, `AssuranceEarned` |
| `LoginCodes` | candidate plane, 1 address, 2 codes, 2 candidates, 2 sessions, 2 calls, 2 attempts per code, clock to 1; evaluates `ReadingLaws` | `CodeOpensOneSession`, `RedeemedInTime`, `ErasureCancelsCodes`, `CodesAreNotLost`, `SessionsBelongToProver`, `OneCandidatePerEmail` |
| `LoginAccounts` | organisation and operator planes, 2 addresses, 2 names, organisations made and deleted by operators, 2 codes, 2 sessions, 2 calls, the clock stands still | `OneOrganizationPerEmail`, `SessionsBelongToProver` |
| `Services` | the services that share no state: the initial state chooses which one runs, on the instance `Services.cfg` comments; evaluates `AlgorithmLaws` | interviews: `OneLiveSession`, `AnswersInOrder`, `AssessedAsAnswered`, `ErasureLeavesNothing`, `ChangesOnlyWhileLive`; ledger: `RevocationHonoured`, `LedgerHolds`, `AnswersAreWitnessed`; limiter: `WithinLimit`; executors: `EngineOutlivesWork`; curation: `ObservationsAreOwned`, `NoTermDecidedUnseen`; features: `UsesHonourConsent`, `NoLeakage`, `VectorsHold`; matching: `DisclosuresAreAudited`, `RetriesRemoveSomeone` |
| `RateLimitRace` | 3 requests for one mailbox whose limit is 2, windows of 2 seconds | `RefusedOnlyWhenFull` is violated |

`Services` and `RightsVerification` put models side by side that share nothing:
a state of one never meets a state of another, so the runs are the sum and not
the product of their parts. The type invariants are proved for every component
with state, and no run repeats them. The largest runs have 2.1 million
(`LoginAccounts`), 1.7 (`Services`), 1.4 (`LoginCodes`) and 1.0 million
(`RightsVerification`) distinct states.

**Bounds.** `MaxClock` and `MaxErasures` bound what the environment does, and
are guards of `Tick` and `Delete` alone. Two calls are what a race takes: every
shared row is protected by a condition on that row, so a third call meets the
same condition. Two items share one person and one text because that is where
they interact (identity, resume reuse, erasure). A duration of 0 or 1 puts every
expiry within reach; the boundary instant itself is one of the clock's values.
Row ids run out in some behaviours, which is why deadlock is not checked.
`CanStop` lets a call crash only while its lease can still expire before
`MaxClock`; without it a bounded clock would turn the last crash into a hang the
program does not have. The two login runs divide the work: expiry, the budget of
guesses and the lock with uploads do not depend on the plane and are checked on
candidates; founding organisations, two purposes per address, and organisations
and operators who are removed need two addresses and no time. Two attempts per
code are the fewest with which a lost increment shows.

What the instances do not reach, and the theorems do: a redemption refused
because the name of the organisation was taken does not spend its code
(`CodesAreNotLost` runs on the candidate plane; `RefusalsSpendNothing` is for all
planes); housekeeping that takes the row of an open window takes four hits to
show with a limit of two (`LimitHolds`); a decision that creates a skill, since
the instance of `Curation` has one and it is known (`DecisionsAreInformed`); two
grants, or two organisations, of one person in the ledger (`TheLedgerHolds`).

**Symmetry** is declared for identifiers that are only compared, and in no run
with a liveness property.

**Fairness.** `ItemsSettle` assumes weak fairness of the clock, of a call's next
step and of `BeginClaim`: the client that owns the batch keeps calling
`process`, as `src/SCREENING.md` tells it to, and a call that runs goes on
running. Nothing is assumed of retries, erasure, retention or crashes. An item
whose batch is retried for ever need not stay settled, and the property does not
claim it.

**The violations** state what the documentation or a comment says and the code
does not do; the findings in `PROJECT.json` quote both. In short:

1. `requeue_failed` on PostgreSQL overwrites rows that are not failed any more
   (`screening/store.py:648`).
2. A quarantined item is shown as pending once retention blanks its text
   (`screening/store.py:838`).
3. Using up the attempts also discards the cooldown (`verification/store.py:353`).
4. `applied` is committed before the value is written (`rights/service.py:218`).
5. An upload in flight overwrites a corrected name (`candidates/store.py:346`).
   `CorrectionOutlivesUploads` is the weaker promise that does hold.
6. On PostgreSQL a hit whose UPDATE found no row is refused although its bucket
   is below the limit, when another hit opens the window before the look
   (`ratelimit/store.py:73`).

**Observations** the laws made, of behaviour a reader of the code may not expect;
none contradicts a run:

- A row inserted behind the cursor, or an item scored meanwhile, is missed or
  repeated by a client that pages through the queue, although
  `screening/pagination.py:3-6` says it "can neither be skipped nor served twice"
  (`OnlyTheMovedItemIsLost`).
- `gather_user_signal` lets the `ValueError` of a reply that is no JSON escape,
  which the route answers as a bad handle (`NoJsonEscapes`).
- `append_event` (`api/ledger.py`) and `create_job` (`api/employer.py`) answer 500
  when the organisation is deleted between their look and their write
  (`DeletedMeanwhileEscapes`).
- The throttled idle clock may end a session up to the throttle early
  (`ThrottleOnlyShortens`).
- A retention report says what was counted, which may differ from what went when
  rows go in between (`SweepIsBounded`).
- An organisation whose reliability is zero still counts as corroborating
  (`ledger/reputation.py:154`).
- A claim that names none of the expected signals is flagged with confidence
  0.85, although the docstring of `graph/nodes/plausibility.py` says that absent
  signals lower it.
- Taking revision 0020 back and applying it again marks every organisation's
  judgment as the operator's, although its docstring calls the backfill a fact
  (`RollbackForgetsWhoJudged`).
- Two columns point at rows without a foreign key:
  `interview_sessions.report_id` and `verifications.consent_id`. The loss of the
  row leaves them (`SchemaErasesAPerson` is about the rows that are a person's).
- A role whose end is written "to date" is missed by the extractor, and reported
  by the coverage check (`ToDateIsReported`).

## 4. The proofs

All are checked by TLAPS for every value of the constants that satisfies
`ConstantsOK` of the module. Every property a passing run checks is stated by a
theorem, with one exception: `ItemsSettle`, which is liveness. Each inductive
invariant was an invariant of the run of its module before it was proved.

Three assumptions bound what the constants may be: `Candidates` in `AuthLogin`,
`Outcomes` in `Features` and `Seekers` in `Matching` are finite sets, because the
models count them (how many candidates bear an address, how many results a
vector saw, how long a ranking is) and the tables of a database are finite.

**Screening, `ScreeningProofs`.** `TypeCorrect` is `Spec => []TypeOK`; the steps
carry ids from rows into calls and back, so its invariant also says which fields
of a call are set at which of its points. `LeasesExclusive`: a call samples the
lease before its claim commits, so two calls may carry equal leases on one item,
and a row keeps `claimed_at` after it has settled. The invariant adds that two
calls carry one lease only when it has expired (`OneHolder`), and that an item
whose live lease was lost has been settled or refused (`StillHeld`), which no
claim and no retry undoes.

**Screening, `ScreeningTablesProofs`.** The steps are first sorted: a minor one
(`Minor`) leaves the rows alone and at most takes from items what they refer to;
the major ones are registration, deletion, the first ingest, the saved report and
the completion. Rows that exist keep what they are about (`RowsKept`).

- `LinksAlwaysConsistent`, `OneCandidateEach`, from `LinkInv`. The foreign keys
  hold only together with what calls carry (`Carried`): a completion writes ids
  its call read transactions ago, in stores that have changed since. Deleting a
  candidate leaves no resume and no report of theirs (`Rooted`). One candidate
  per person is the look-up repeated under the lock of the contact.
- `OneReportEach`, from `ReportInv`: the first report of an item spends its
  private input (`ReportsSpend`), and an item has its text in one place
  (`OneInput`).
- `ErasureOutrunsIngest`, from `TaintInv`: from an erasure on, the generation an
  item was registered under is behind, and so is the one a call has read,
  whenever it read it (`Past`, `Overtaken`).
- `ContractImplemented`: `Spec` implements `ScreeningContract` under the
  refinement mapping of `Screening`. The contract is a conjunction over items, so
  the proof follows one item: a step that does not touch it stutters, one that
  only reduces it moves what is kept down, and each major step is one action of
  the contract. `DoneStaysDone` and `RefusedStaysRefused` then say of the
  implementation what the contract says of its phases.

**Data principal requests, `RightsVerificationProofs`.** `RightsTyped`,
`AuditsAreTruthful`, `DecisionsAreFinal`, `CorrectionsOutliveUploads`. The
invariant says that the conditional UPDATE leaves one operator past the decision
(`Sole`), that what this operator carries agrees with the row and with what has
been written and audited so far (`Handled`), and that nothing was written or
audited before a decision (`Untouched`). That is why the row count is enough and
no lock is needed.

**Verification, `RightsVerificationProofs`.** `VerificationTyped`,
`LiveCodesExclude`, `CompletionsAreFinal`, `VerificationErases`,
`NewestCodeVerifies`, `AssuranceIsEarned`. A call past its first transaction is
the only one at work on its attempt (`OneCaller`), which nobody has completed and
no code is live for (`CallSound`). A live code belongs to an open attempt of its
channel (`RowSound`) and is the newest there, or one of several an older release
left behind, which only go together (`NewestLive`): so one live code is exactly
what superseding leaves, and the defence in `confirm_challenge` is only needed
for the inherited ones. The newest code lapses a lifetime after it was issued
(`CodesTimed`), so the check of its expiry under the lock of the row is what
`NewestCodeVerifies` says of its last instant. A verified outcome lapses no later than its proof
(`Earned`).

**Interviews, `InterviewProofs`.** Every property of `Interview`. Whatever a call
read before the providers answered is read again under the lock of the
candidate's row, so the invariant needs little about calls in flight
(`CallSound`) and says of each row that its turns are a beginning of the plan
(`SessionSound`): the only question that can be appended is the one after the
last.

**Login, `AuthLoginProofs`.** `CodesOpenOneSession`, `ErasedCodesStayDead`,
`RedemptionsAreInTime`, `RefusalsSpendNothing`, `SessionsAreProved`,
`OrganizationsAreFew`, `NobodyIsDoubled`. A code that is not yet sent has no
history (`CodesFit`); a live one is as it was reserved and all that was charged
to it shows (`LiveCodesFit`), and it is live in one place (`OnePlace`). What a
call saw before is believed only as far as the row still says so, because the
redeeming transaction reads that row again. An address that was proved is the
one a candidate was known by (`HintsAgree`), which is what lets a login claim a
record without a second candidate for it.

**Ledger, `ConsentProofs`.** `RevocationsAreHonoured`, `TheLedgerHolds`,
`EveryAnswerIsWitnessed`, from `LedgerInv`. The state of the world (`GrantSound`,
`LogSound`, `EvidenceSound`) only moves forward (`Evolves`): what has gone stays
gone, what is held keeps whom it is about. What is said of a call (`AskKnown`,
`AskDead`, `AskUnder`, `AskAnswer`) survives every such step, so a call that
checked consent and commits later needs no lock: a grant it may not use was
revoked at a moment no later than its own, and nothing moves that moment.

**Features, `ConsentProofs`.** `ConsentIsHonoured`, `LabelsDoNotLeak`,
`StoredVectorsHold`, from `FeatureInv`, by the same argument over people who only
go (`PeopleEvolve`). What a vector has seen was on record at its cut
(`SeenSound`), what it holds of the ledger had been granted by then
(`GatedSound`), and a training example carries a label only from results its
vector has not seen.

**Curation and matching, `CurationMatchingProofs`.** `ObservationsHaveOwners`
needs that an ingestion that queues has a row; `DecisionsAreInformed` follows
from the rows a reviewer claimed, whatever the copies of the vocabulary say. `DisclosuresAreInTheLog` and `RetriesShrink`
need that the order of a ranking survives the removal of people (`Keeping`),
which is a fact about counting places in a finite set. The library's induction
theorems are out of reach (see below), so it is proved from the least element of
a set of naturals (`LeastNatural`), which well-foundedness gives.

**Limits, `LimitProofs`.** `EngineOutlivesAll`: executors close in their order and
each step of the shutdown found the one before it idle (`ShutdownInOrder`), the
active sets are finite and within capacity (`SlotsHeld`), a job told to stop in
time can neither pass its last look nor yield a text (`JobSound`). `LimitHolds`:
a count is bounded by the limit, but a hit must also be in some count. Until a
window has closed its row counts every hit allowed in time (`RowCountsHits`),
which needs that a request's window had begun when it was made (`RequestSound`)
and that of two windows the earlier ends before the later begins
(`WindowsApart`), so housekeeping only takes rows of closed ones.

**Only model-checked.** `ItemsSettle`: liveness under fairness and ENABLED are
beyond the prover. The laws of the pure modules, which hold for the inputs they
enumerate: what a recursive definition computes for every input takes induction
over data. And what the violation runs refute.

## 5. Not modelled

Regular expressions, prompts, the shipped tables, wire formats, wording and
layout, configuration values, logging and the engine options; the scripts under
`src/scripts/` and the tests, which are no part of the program. Within the
modelled components: several organisations in `Screening`, the columns that only
carry data, the remaining retention targets as steps (their report is checked by
the laws), and rounding. Writes that `Reads` models as operators (outcome
records, access keys, the touch of a session, the disabling of users) are no
steps of a composed module.

Not claimed anywhere: that two approved corrections of one person are written in
the order they were decided; that of two overlapping revocations of one grant
only one is reported and audited as new (`ledger/store.py:403` says so, and takes
no lock: the access log of the model is a set and would not show it); the very
instants at which the cooldown and the budget of a verification code end, which
are guards of the model; a bound on late hits of the rate limiter.

## 6. Plan

1. An abstract specification of a login code (absent, live, spent), shared by
   `AuthLogin` and `Verification` and refined by both.
2. The remaining retention targets as steps of the modules that own their rows,
   and a property of what a sweep leaves.
3. The order of two approved corrections of one person, as a run of `Rights` with
   two requests and the weakest promise that holds.
4. A contract of the ledger (granted, revoked, gone, per pair of person and
   organisation) that `Ledger` implements.
