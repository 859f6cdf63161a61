-------------------------------- MODULE Reads ------------------------------
(***************************************************************************)
(* What the stores answer from the rows they hold: the screening pages,    *)
(* the profiles as of a moment, the outcomes an organisation may see, the  *)
(* sessions of a principal, the queues of the operators; and the writes    *)
(* that answer from what they find at their commit.                        *)
(*                                                                         *)
(* A table is a set of records, a nullable column a set of at most one     *)
(* element, a moment an integer; ids and names are integers in the order   *)
(* of the database's collation.  A read whose order leaves ties open       *)
(* answers the set of what it may return.                                  *)
(***************************************************************************)
EXTENDS Integers, Sequences, FiniteSets
LOCAL INSTANCE SequencesExt
LOCAL INSTANCE FiniteSetsExt

Unscored == -1
Value(opt, default) == IF opt = {} THEN default ELSE CHOOSE x \in opt : TRUE
UpTo(seq, n) == SubSeq(seq, 1, Min({n, Len(seq)}))
The(rows, id) == {r \in rows : r.id = id}

----------------------------------------------------------------------------
\* Screening. `text` of an item is {}, {""} or {"text"}, `signals` a sequence of at most one blob.

Statuses == {"pending", "processing", "done", "failed"}

\* The two spellings of one reading: what the queries group by, and what an item reads as.
BlockedInput(i, generation) ==
  /\ i.status # "done"
  /\ \/ i.error = {"fresh_upload_required"}
     \/ i.text \notin {{}, {""}} /\ (i.generation = {} \/ i.generation # {generation})
StaleProcessing(i, now, timeout) ==
  i.status = "processing" /\ (i.claimed = {} \/ \E c \in i.claimed : c < now - timeout)
CountedAs(i, now, timeout, generation) ==
  IF BlockedInput(i, generation) THEN "failed" ELSE IF StaleProcessing(i, now, timeout) THEN "pending" ELSE i.status

ItemRecord(i, now, timeout, generation) ==
  LET blocked == i.status # "done" /\ (i.error = {"fresh_upload_required"} \/ (i.text = {"text"} /\ i.generation # {generation}))
      lost == i.status = "processing" /\ \A c \in i.claimed : c < now - timeout
  IN  [id |-> i.id, status |-> IF blocked THEN "failed" ELSE IF lost THEN "pending" ELSE i.status, risk |-> i.risk,
       signals |-> SelectSeq(i.signals, LAMBDA s : s.readable), created |-> i.created,
       error |-> IF blocked THEN {"fresh_upload_required"} ELSE i.error]

\* A batch is its organisation's, or it is not there.
BatchRow(batches, org, id) == {b \in batches : b.id = id /\ b.org = org}
Items(items, batch) == {i \in items : i.batch = batch}

Counts(db, org, batch, now, timeout) ==
  {[s \in Statuses |-> Cardinality({i \in Items(db.items, b.id) : CountedAs(i, now, timeout, db.generation) = s})] :
   b \in BatchRow(db.batches, org, batch)}
AllItems(db, org, batch, now, timeout) ==
  {LET rows == SetToSortSeq(Items(db.items, b.id), LAMBDA x, y : x.created < y.created \/ (x.created = y.created /\ x.id < y.id))
   IN  [k \in DOMAIN rows |-> ItemRecord(rows[k], now, timeout, db.generation)] : b \in BatchRow(db.batches, org, batch)}

\* One page of a list kept in the order of a key, highest first and then by id: what follows the
\* cursor, and the next one when more is left.
Page(rows, Key(_), cursor, limit) ==
  LET after == {r \in rows : \A c \in cursor : Key(r) < c.key \/ (Key(r) = c.key /\ r.id > c.id)}
      order == SetToSortSeq(after, LAMBDA x, y : Key(x) > Key(y) \/ (Key(x) = Key(y) /\ x.id < y.id))
      page == UpTo(order, limit)
  IN  [rows |-> page, next |-> IF Len(order) > limit /\ page # <<>> THEN {[key |-> Key(page[Len(page)]), id |-> page[Len(page)].id]} ELSE {}]

ListBatches(db, org, cursor, limit) == Page({b \in db.batches : b.org = org}, LAMBDA b : b.created, cursor, limit)
QueuePage(db, org, batch, cursor, limit, now, timeout) ==
  {LET p == Page(Items(db.items, b.id), LAMBDA i : Value(i.risk, Unscored), cursor, limit)
   IN  [rows |-> [k \in DOMAIN p.rows |-> ItemRecord(p.rows[k], now, timeout, db.generation)], next |-> p.next] :
   b \in BatchRow(db.batches, org, batch)}

Total(counts) == counts["pending"] + counts["processing"] + counts["done"] + counts["failed"]
DeriveStatus(counts) ==
  IF Total(counts) = 0 THEN "empty"
  ELSE IF counts["processing"] > 0 THEN "processing"
  ELSE IF counts["pending"] > 0 THEN "pending"
  ELSE IF counts["failed"] > 0 THEN "partial" ELSE "complete"

\* The service looks twice, `before` and `after`: what went in between is absent, not an error.
GetBatch(before, after, org, batch, now, timeout) ==
  {[counts |-> c, status |-> DeriveStatus(c)] :
   c \in IF BatchRow(before.batches, org, batch) = {} THEN {} ELSE Counts(after, org, batch, now, timeout)}
ListService(before, after, org, cursor, limit, now, timeout) ==
  LET p == ListBatches(before, org, cursor, limit)
  IN  [rows |-> SelectSeq(p.rows, LAMBDA b : Counts(after, org, b.id, now, timeout) # {}), next |-> p.next]
Summary(before, after, org, batch, now, timeout) ==
  LET items == Value(AllItems(before, org, batch, now, timeout), <<>>)
      scored == {k \in DOMAIN items : items[k].signals # <<>>}
      tally(Of(_)) == [v \in UNION {Of(items[k].signals[1]) : k \in scored} |->
                       Cardinality({k \in scored : v \in Of(items[k].signals[1])})]
      loud == tally(LAMBDA s : s.loudest)
  IN  {[counts |-> c, status |-> DeriveStatus(c), screened |-> Cardinality(scored), bands |-> tally(LAMBDA s : {s.band}),
        top |-> SetToSortSeq({[signal |-> v, count |-> loud[v]] : v \in DOMAIN loud},
                             LAMBDA x, y : x.count > y.count \/ (x.count = y.count /\ x.signal < y.signal))] :
       c \in IF BatchRow(before.batches, org, batch) = {} THEN {} ELSE Counts(after, org, batch, now, timeout)}

\* The signals an item keeps of its report, and the line the queue shows for it.
Loudest(components) ==
  LET louder(x, y) == \/ x.weight > y.weight
                      \/ x.weight = y.weight /\ x.risk > y.risk
                      \/ x.weight = y.weight /\ x.risk = y.risk /\ x.id < y.id
  IN  UpTo(SetToSortSeq(components, louder), 1)
SignalsFromReport(report, match) ==
  LET fab == report.fabrication
      farm == report.farm
      components == UNION {f.components : f \in fab}
      loud == Loudest(components)
  IN  [band |-> Value({f.band : f \in fab}, "insufficient_data"), confidence |-> Value({f.confidence : f \in fab}, 0),
       loudest |-> {loud[k].id : k \in DOMAIN loud}, components |-> Cardinality(components),
       farm |-> Value({f.band : f \in farm}, "insufficient_data"), corpus |-> Value({f.corpus : f \in farm}, 0),
       matched |-> match.existing, duplicate |-> match.duplicate, flagged |-> Cardinality(report.flagged)]
NoReportSignals(match) == SignalsFromReport([fabrication |-> {}, farm |-> {}, flagged |-> {}], match)
ComposeReason(signals, status, error) ==
  CASE status = "pending" -> "not screened yet"
    [] status = "processing" -> "in progress"
    [] status = "failed" /\ error = {"fresh_upload_required"} -> "upload again"
    [] status = "failed" /\ error # {"fresh_upload_required"} -> "could not be screened"
    [] status = "done" /\ signals = <<>> -> "unreadable"
    [] status = "done" /\ signals # <<>> /\ signals[1].band = "insufficient_data" -> "insufficient data"
    [] OTHER -> IF signals[1].loudest = {} THEN "no dominant signal" ELSE "loudest signal"

----------------------------------------------------------------------------
\* Candidates. An extraction is [id, candidate, version, created].

Newest(rows) == {e \in rows : \A f \in rows : f.version < e.version \/ (f.version = e.version /\ f.created <= e.created)}
LatestProfile(extractions, c) == Newest({e \in extractions : e.candidate = c})
ProfileAsOf(extractions, c, moment) == Newest({e \in extractions : e.candidate = c /\ e.created <= moment})

ListResumes(resumes, c) == SetToSortSeq({r \in resumes : r.candidate = c}, LAMBDA x, y : x.version < y.version)
GetCandidate(db, c) == {[id |-> p.id, name |-> p.name, resumes |-> Cardinality({r \in db.resumes : r.candidate = c})] : p \in The(db.candidates, c)}
ListCandidateIds(candidates, limit) ==
  UpTo(SetToSortSeq(candidates, LAMBDA x, y : x.created < y.created \/ (x.created = y.created /\ x.id < y.id)), limit)
FindByEmailHash(candidates, hash) == {p.id : p \in {q \in candidates : hash # {} /\ q.email = hash}}
EmailHashFor(candidates, c) == UNION {p.email : p \in The(candidates, c)}
OrgOwnsCandidate(resumes, org, c) == \E r \in resumes : r.candidate = c /\ r.org = {org}
CreateBareCandidate(candidates, id, hash, now) == candidates \cup {[id |-> id, email |-> {hash}, name |-> {}, created |-> now]}

\* One credential for a person; a new key replaces it. Credentials are [candidate, key].
IssueAccessKey(candidates, credentials, c, key) ==
  IF The(candidates, c) = {} THEN [raised |-> {"LookupError"}, credentials |-> credentials]
  ELSE [raised |-> {}, credentials |-> {k \in credentials : k.candidate # c} \cup {[candidate |-> c, key |-> key]}]
AuthenticateCandidate(credentials, key) == {k.candidate : k \in {x \in credentials : key # {} /\ {x.key} = key}}

\* A fingerprint is looked for at `before` and inserted at `after`.
Parents(db, resume, c) ==
  IF The(db.candidates, c) = {} THEN {"CandidateErasedError"}
  ELSE IF The(db.resumes, resume) = {} THEN {"ResumeErasedError"}
  ELSE IF \E r \in The(db.resumes, resume) : r.candidate # c THEN {"ValueError"} ELSE {}
Fingerprinted(db, resume, algo) == \E f \in db.fingerprints : f.resume = resume /\ f.algo = algo
SaveFingerprint(before, after, algo, resume, c) ==
  LET refused == The(after.candidates, c) = {} \/ The(after.resumes, resume) = {} \/ Fingerprinted(after, resume, algo)
      found == IF Parents(before, resume, c) # {} THEN Parents(before, resume, c) ELSE Parents(after, resume, c)
  IN  IF Parents(before, resume, c) # {} \/ (~Fingerprinted(before, resume, algo) /\ refused /\ found # {})
      THEN [raised |-> found, written |-> FALSE, fingerprints |-> after.fingerprints]
      ELSE IF Fingerprinted(before, resume, algo) \/ refused THEN [raised |-> {}, written |-> FALSE, fingerprints |-> after.fingerprints]
      ELSE [raised |-> {}, written |-> TRUE, fingerprints |-> after.fingerprints \cup {[resume |-> resume, candidate |-> c, algo |-> algo]}]

\* The stored fingerprints of others at least this similar, best first, and how many were
\* compared; `similar` gives each resume its estimate.
SimilarResumes(fingerprints, algo, similar, exclude, threshold, limit) ==
  LET corpus == {f \in fingerprints : f.algo = algo /\ f.candidate # exclude}
      hits == {f \in corpus : similar[f.resume] >= threshold}
      best(S) == \A f \in S, g \in hits \ S : similar[f.resume] >= similar[g.resume]
  IN  [matches |-> {S \in kSubset(Min({limit, Cardinality(hits)}), hits) : best(S)}, corpus |-> Cardinality(corpus)]

----------------------------------------------------------------------------
\* Reports and their outcomes. `org` of either is optional; ids are in the order of insertion.

GetReport(reports, id) == The(reports, id)
GetForOrg(reports, org, id) == {r \in The(reports, id) : r.org = {org}}
Oldest(rows) == {s \in SetToSeqs(rows) : \A k, m \in DOMAIN s : k < m => s[k].created <= s[m].created}
ForCandidate(reports, c) == Oldest({r \in reports : r.candidate = {c}})
ForCandidateAndOrg(reports, org, c) == Oldest({r \in reports : r.candidate = {c} /\ r.org = {org}})
AllReportsWithCandidates(reports) ==
  SetToSortSeq({r \in reports : r.candidate # {}}, LAMBDA x, y : x.created < y.created \/ (x.created = y.created /\ x.id < y.id))

\* An outcome fails its insert when its report went, or another of its keys did.
AddOutcome(db, outcome) ==
  LET lost == The(db.reports, outcome.report) = {}
      other == ~(outcome.org \subseteq db.orgs)
  IN  [raised |-> IF ~lost /\ other THEN {"IntegrityError"} ELSE {}, recorded |-> ~lost /\ ~other,
       outcomes |-> IF lost \/ other THEN db.outcomes ELSE db.outcomes \cup {outcome}]
OutcomesOf(outcomes, report, org) ==
  SetToSortSeq({o \in outcomes : o.report = report /\ (org = {} \/ o.org = org)}, LAMBDA x, y : x.id < y.id)
Outcomes(outcomes, report) == OutcomesOf(outcomes, report, {})
OutcomesForOrg(db, org, report) == {OutcomesOf(db.outcomes, r.id, {org}) : r \in GetForOrg(db.reports, org, report)}
ReportLevelOutcomes(db) ==
  SetToSortSeq({o \in db.outcomes : o.claim = {} /\ The(db.reports, o.report) # {}},
    LAMBDA x, y : \/ x.report < y.report
                  \/ x.report = y.report /\ x.recorded < y.recorded
                  \/ x.report = y.report /\ x.recorded = y.recorded /\ x.id < y.id)

----------------------------------------------------------------------------
\* Interviews, as somebody else may see them: a header for every completed one, under consent,
\* and a line in the audit log for every look at a known person by a known organisation.

Summarize(s, at) ==
  [id |-> s.id, status |-> IF s.status = "in_progress" /\ \E e \in s.expires : e <= at THEN "abandoned" ELSE s.status,
   band |-> Value({a.band : a \in s.assessment}, "insufficient_signal"),
   planned |-> Value({a.planned : a \in s.assessment}, s.questions), answered |-> Value({a.answered : a \in s.assessment}, s.turns)]
Started(rows) == SetToSortSeq(rows, LAMBDA x, y : x.started < y.started \/ (x.started = y.started /\ x.id < y.id))
SessionsForCandidate(sessions, c) == Started({s \in sessions : s.candidate = c})
ListInterviews(sessions, c, at) ==
  LET rows == SessionsForCandidate(sessions, c) IN [k \in DOMAIN rows |-> Summarize(rows[k], at)]
AssessmentsForOrg(db, org, c, allowed, at) ==
  LET rows == Started({s \in db.sessions : s.candidate = c /\ s.status = "completed"})
      audited(n) == [org |-> org, candidate |-> c, allowed |-> allowed, shown |-> n]
  IN  IF org \notin db.orgs \/ The(db.candidates, c) = {} THEN [raised |-> {"LookupError"}, shown |-> <<>>, audit |-> {}]
      ELSE IF ~allowed THEN [raised |-> {"ConsentError"}, shown |-> <<>>, audit |-> {audited(0)}]
      ELSE [raised |-> {}, shown |-> [k \in DOMAIN rows |-> Summarize(rows[k], at)], audit |-> {audited(Len(rows))}]

----------------------------------------------------------------------------
\* Sessions and accounts. A session is [id, token, kind, subject, issued, expires, seen, revoked].

SessionStatus(s, idle, at) ==
  IF s.revoked # {} THEN "revoked"
  ELSE IF s.expires <= at THEN "expired"
  ELSE IF idle > 0 /\ s.seen + idle <= at THEN "idle_expired" ELSE "active"
ShouldWriteLastSeen(seen, throttle, at) == throttle <= 0 \/ at >= seen + throttle
Touch(sessions, id, throttle, at) ==
  {IF s.id = id /\ ShouldWriteLastSeen(s.seen, throttle, at) THEN [s EXCEPT !.seen = at] ELSE s : s \in sessions}
SessionByToken(sessions, token, idle, at) ==
  {[id |-> s.id, kind |-> s.kind, subject |-> s.subject, status |-> SessionStatus(s, idle, at)] :
   s \in {x \in sessions : token # {} /\ {x.token} = token}}
SessionsFor(sessions, kind, subject, current, idle, at) ==
  LET mine == {s \in sessions : s.kind = kind /\ s.subject = subject}
      order == {q \in SetToSeqs(mine) : \A k, m \in DOMAIN q : k < m => q[k].issued >= q[m].issued}
      view(s) == [id |-> s.id, current |-> {s.id} = current]
      live(q) == SelectSeq(q, LAMBDA s : SessionStatus(s, idle, at) = "active")
  IN  {[k \in DOMAIN live(q) |-> view(live(q)[k])] : q \in order}
AuditCandidate(ledger, action, session, c) == IF ledger THEN {[action |-> action, session |-> session, candidate |-> c]} ELSE {}

\* A name is taken without case and without what surrounds it: a name is [key, shown].
OrganizationNameExists(orgs, name) == \E o \in orgs : o.key = name.key
\* The account a login is for: enabled, the first created where one address has several.
UserByEmail(users, hash) ==
  LET enabled == {u \in users : hash # {} /\ u.email = hash /\ u.disabled = {}}
  IN  UpTo(SetToSortSeq(enabled, LAMBDA x, y : x.created < y.created \/ (x.created = y.created /\ x.id < y.id)), 1)
OrgUserById(users, id) == {u \in The(users, id) : u.disabled = {}}
DisableOrgUser(users, id, at) == {IF u.id = id THEN [u EXCEPT !.disabled = {at}] ELSE u : u \in users}
AdminUserByEmail(users, hash) == UserByEmail(users, hash)
AdminUserById(users, id) == OrgUserById(users, id)
DisableAdminUser(users, id, at) == DisableOrgUser(users, id, at)
ListAdminUsers(users) == Oldest(users)

\* Clearing an address takes the sends under way with it; what is reported are the codes.
DeleteChallengesForEmail(db, hash) ==
  IF hash = {} THEN [deleted |-> 0, db |-> db]
  ELSE [deleted |-> Cardinality({c \in db.challenges : {c.email} = hash}),
        db |-> [db EXCEPT !.challenges = {c \in @ : {c.email} # hash}, !.issuances = {i \in @ : {i.email} # hash}]]
UpsertChallenge(db, scope, code, expires) ==
  [db EXCEPT !.challenges = {c \in @ : ~(c.email = scope.email /\ c.purpose = scope.purpose /\ c.plane = scope.plane)} \cup
     {[email |-> scope.email, purpose |-> scope.purpose, plane |-> scope.plane, code |-> code, expires |-> expires, attempts |-> 0]}]
GetChallenge(db, scope) == {c \in db.challenges : c.email = scope.email /\ c.purpose = scope.purpose /\ c.plane = scope.plane}

----------------------------------------------------------------------------
\* Requests of a data principal, and the rows of the ledger.

CreateRequest(db, request) ==
  LET lost == The(db.candidates, request.candidate) = {}
  IN  [view |-> IF lost THEN {} ELSE {request}, requests |-> IF lost THEN db.requests ELSE db.requests \cup {request}]
RequestsForCandidate(requests, c) ==
  SetToSortSeq({r \in requests : r.candidate = c}, LAMBDA x, y : x.created > y.created \/ (x.created = y.created /\ x.id > y.id))
GetRequest(requests, id) == {<<r, r.candidate>> : r \in The(requests, id)}
ListByStatus(requests, status, limit) ==
  UpTo(SetToSortSeq({r \in requests : status = {} \/ {r.status} = status},
                    LAMBDA x, y : x.created < y.created \/ (x.created = y.created /\ x.id < y.id)), limit)
CurrentValue(candidates, c, field) == IF field # {"full_name"} THEN {} ELSE UNION {p.name : p \in The(candidates, c)}
WhyNotAppliable(field) == IF field = {"email"} THEN "mailbox" ELSE IF field = {"phone"} THEN "dedup hint" ELSE "no single field"

ByCreation(rows) == SetToSortSeq(rows, LAMBDA x, y : x.created < y.created \/ (x.created = y.created /\ x.id < y.id))
EventsForRecord(events, record) == ByCreation({e \in events : e.record = record})
CodingRoundsForCandidate(rounds, c) == ByCreation({r \in rounds : r.candidate = c})
ConsentsForCandidate(grants, c) == ByCreation({g \in grants : g.candidate = c})
ConsentStatus(db, org, c, check) ==
  IF The(db.candidates, c) = {} \/ org \notin db.orgs THEN [raised |-> {"LookupError"}, decision |-> {}] ELSE [raised |-> {}, decision |-> {check}]

----------------------------------------------------------------------------
\* Retention. A target is [class, mode, ttl]; a row is [id, at, text], `text` what CLEAR blanks.
\* The rows are counted in the table `before`, and written in the table `after`.

Eligible(target, rows, now) ==
  {r \in rows : (\E a \in r.at : a < now - target.ttl) /\ (target.mode = "clear" => r.text)}
Affected(target, before, now, cap) == Min({cap, Cardinality(Eligible(target, before, now))})
\* The rows a sweep may choose, the oldest of those that are eligible when it writes.
Chosen(target, before, after, now, cap, dry) ==
  LET e == Eligible(target, after, now)
      oldest(S) == \A r \in S, q \in e \ S : \E a \in r.at, b \in q.at : a <= b
  IN  IF dry \/ Affected(target, before, now, cap) = 0 THEN {{}} ELSE {S \in kSubset(Min({cap, Cardinality(e)}), e) : oldest(S)}
Swept(target, after, chosen) ==
  IF target.mode = "delete" THEN after \ chosen ELSE {IF r \in chosen THEN [r EXCEPT !.text = FALSE] ELSE r : r \in after}
\* What a sweep reports, from what it counted: of each class the sum of its targets, capped each.
SweepReport(targets, before, now, cap) ==
  LET of(class) == {t \in targets : t.class = class}
  IN  [affected |-> [c \in {t.class : t \in targets} |-> FoldSet(LAMBDA t, n : n + Affected(t, before[t], now, cap), 0, of(c))],
       truncated |-> {t.class : t \in {u \in targets : Cardinality(Eligible(u, before[u], now)) > cap}}]
\* What the portal tells a person of each class: its window, and when their oldest row ages out.
BuildRetentionPolicy(knobs, oldest) ==
  [c \in DOMAIN knobs |-> [ttl |-> knobs[c], until |-> {o + knobs[c] : o \in IF c \in DOMAIN oldest THEN oldest[c] ELSE {}}]]

----------------------------------------------------------------------------
\* The process: counters, a request around its route, migrations and the lifespan.

AddCounter(counters, series, amount) ==
  IF amount < 0 THEN [raised |-> {"ValueError"}, counters |-> counters]
  ELSE IF amount = 0 THEN [raised |-> {}, counters |-> counters]
  ELSE [raised |-> {}, counters |-> [s \in DOMAIN counters \cup {series} |->
          IF s = series THEN amount + (IF s \in DOMAIN counters THEN counters[s] ELSE 0) ELSE counters[s]]]
ObserveDuration(durations, route, ms) ==
  [r \in DOMAIN durations \cup {route} |->
     LET d == IF r \in DOMAIN durations THEN durations[r] ELSE [sum |-> 0, count |-> 0]
     IN  IF r = route THEN [sum |-> d.sum + ms, count |-> d.count + 1] ELSE d]
RenderMetrics(counters) == {[series |-> s, value |-> counters[s]] : s \in DOMAIN counters}

\* Every request is counted under its template, with 500 where its route raised; a request
\* outside the lifespan is counted nowhere.
RouteTemplate(route) == Value(route, "__unmatched__")
RequestContext(answer, route, serving, supplied, fresh) ==
  [id |-> Value(supplied, fresh), raised |-> answer = {}, status |-> Value(answer, 500),
   counted |-> IF serving THEN {[route |-> RouteTemplate(route), status |-> Value(answer, 500)]} ELSE {}]
\* A refused body is logged by where it failed.
InvalidBody(errors) == [status |-> 422, logged |-> {e.loc : e \in errors}]

\* Migrations on a shared server run under a lock that is given back whatever happens.
UpgradeToHead(backend, upgraded) ==
  IF backend = "sqlite" THEN [steps |-> <<"upgrade">>, raised |-> ~upgraded]
  ELSE [steps |-> <<"lock", "upgrade", "unlock", "dispose">>, raised |-> ~upgraded]
RevisionState(database, head) == [steps |-> <<"connect", "read", "dispose">>, state |-> <<database.revision, head>>]

\* A start refuses a misconfigured deployment before it migrates or builds anything; what was
\* built is closed, and an error of the closing is told only when nothing else went wrong.
Lifespan(injected, configured, onBoot, migrated, body, closed) ==
  LET migrates == ~injected /\ onBoot
      starts == configured /\ (migrates => migrated)
  IN  [migrated |-> configured /\ migrates, served |-> starts, closed |-> starts /\ ~injected,
       raised |-> IF ~configured THEN {"LaunchConfigError"} ELSE IF ~starts THEN {"MigrationError"}
                  ELSE IF body # {} THEN body ELSE IF ~injected THEN closed ELSE {}]

\* The paths the service describes itself by: those of its routes, its documentation apart.
AdvertisedEndpoints(routes, docs) ==
  {<<m, r.path>> : <<m, r>> \in {<<m, r>> \in {"GET", "POST", "DELETE", "HEAD", "OPTIONS"} \X routes :
     r.api /\ m \in r.methods /\ r.path \notin docs \cup {"/"} /\ m \notin {"HEAD", "OPTIONS"}}}
Healthz(llm, env, domainKeys) == [status |-> "ok", env |-> env, mode |-> IF llm = "null" THEN "null" ELSE "live", domains |-> domainKeys]
=============================================================================
