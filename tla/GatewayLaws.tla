---------------------------- MODULE GatewayLaws ----------------------------
(***************************************************************************)
(* What the edge of the service promises, evaluated over bounded requests, *)
(* sessions and service outcomes before every run of a module that extends *)
(* this one.                                                               *)
(***************************************************************************)
EXTENDS Integers, Sequences, FiniteSets

Api == INSTANCE Handlers
Rd == INSTANCE Reads

Planes == {"admin", "org", "candidate"}
Optional(S) == {{}} \cup {{x} : x \in S}

----------------------------------------------------------------------------
\* Requests and credentials.

LiveSessions == {[id |-> "s1", token |-> "t1", kind |-> "org", subject |-> "u1", enabled |-> TRUE],
                 [id |-> "s2", token |-> "t2", kind |-> "candidate", subject |-> "c1", enabled |-> TRUE],
                 [id |-> "s3", token |-> "t3", kind |-> "org", subject |-> "u2", enabled |-> FALSE],
                 [id |-> "s4", token |-> "t4", kind |-> "org", subject |-> "u1", enabled |-> TRUE]}
KeyHolders == {[kind |-> "org", key |-> "k1", subject |-> "o1"], [kind |-> "candidate", key |-> "k2", subject |-> "c2"],
               [kind |-> "admin", key |-> "k3", subject |-> "machine"]}
WebRequests == [token : Optional({"t1", "t2", "t3"}), keys : [Planes -> Optional({"k1", "k3"})], unsafe : BOOLEAN,
                csrfCookie : Optional({"x"}), csrfHeader : Optional({"x", "y"})]
Passed(plane, r) == Api!Gate(plane, r, LiveSessions, KeyHolders, {})

\* A principal belongs to the plane it was asked for and to the holder of what was sent.
ASSUME PlanesStaySeparate ==
  \A plane \in Planes, r \in WebRequests : \A p \in Passed(plane, r).principal :
    /\ p.kind = plane
    /\ p.via = "session" => \E s \in LiveSessions : {s.token} = r.token /\ s.subject = p.subject /\ s.kind = plane
    /\ p.via = "key" => \E h \in KeyHolders : {h.key} = r.keys[plane] /\ h.subject = p.subject /\ h.kind = plane

\* A key sent along with a session never lifts what the session demands.
ASSUME KeysLiftNoCheck ==
  \A plane \in Planes \cup {"any"}, r \in WebRequests :
    LET bare == [r EXCEPT !.keys = [k \in Planes |-> {}]]
    IN  /\ Api!ResolveAny(r, LiveSessions) # {} /\ plane = "any" => Passed(plane, r) = Passed(plane, bare)
        /\ plane # "any" /\ Api!FromSession(plane, r.token, LiveSessions) # {} => Passed(plane, r) = Passed(plane, bare)
        /\ plane = "any" => \A p \in Passed(plane, r).principal : p.via = "session"
        /\ r.unsafe /\ (\E p \in Passed(plane, r).principal : p.via = "session") => r.csrfCookie = r.csrfHeader /\ r.csrfCookie # {}

\* A resolver that refused or is late lets nobody through, whatever it might have found.
ASSUME UnresolvedIsRefused ==
  \A plane \in Planes \cup {"any"}, r \in {x \in WebRequests : ~x.unsafe}, e \in {"ExecutionUnavailable", "ExecutionPending"} :
    LET g == Api!Gate(plane, r, LiveSessions, KeyHolders, {e})
    IN  g.principal = {} /\ \A x \in g.refused : x.status = 503 /\ x.retry

\* A session reaches the sessions of its own subject, and the answer for somebody else's is
\* the answer for none.
ASSUME SessionsAreTheirOwners ==
  \A r \in {x \in WebRequests : ~x.unsafe} : \A p \in Passed("any", r).principal : \A id \in {"s1", "s2", "s3", "s4", "s9"} :
    LET hit == Api!RevokeSession(p, id, LiveSessions)
    IN  /\ \A s \in LiveSessions : s.id \in hit => s.subject = p.subject /\ s.kind = p.kind
        /\ hit = {} => Api!AuthRevokeSession(Api!Returned(hit)) = Api!AuthRevokeSession(Api!Returned({}))
        /\ Api!Logout(p, LiveSessions) \subseteq Api!SessionsFor(p, LiveSessions)

Addresses == {"a", "b"}
AddressLists == UNION {[1..n -> Addresses] : n \in 0..3}

\* What a caller puts in front of the forwarded list changes nothing behind trusted proxies.
ASSUME SuppliedAddressesDoNotCount ==
  \A hops \in 0..2, mine \in AddressLists, ours \in AddressLists : \A peer \in Optional({"p"}) :
    LET at(list) == Api!ClientIp([forwarded |-> list, peer |-> peer], hops)
    IN  /\ hops = 0 => at(mine) = peer
        /\ hops > 0 /\ Len(ours) >= hops => at(mine \o ours) = at(ours)

----------------------------------------------------------------------------
\* Login codes.

Knowledge == [known : BOOLEAN, cooling : BOOLEAN, delivery : {"sent", "failed", "slow", "cancelled"},
              mail : BOOLEAN, limited : BOOLEAN, nameTaken : BOOLEAN]
Environments == {"local", "staging", "prod"}
Codes(s, c) == {Api!AuthOrgSignup(s, c), Api!AuthOrgLogin(s, c), Api!AuthCandidateSignup(s, c),
                Api!AuthCandidateLogin(s, c), Api!AuthAdminLogin(s, c)}
PublicSays(s, c) == <<Api!AuthOrgSignup(s, c), Api!AuthOrgLogin(s, c), Api!AuthCandidateSignup(s, c),
                      Api!AuthCandidateLogin(s, c), Api!AuthAdminLogin(s, c)>>

\* Whether an address has an account, a code on the way or a failing mailbox does not show,
\* except where the development echo is on.
ASSUME AddressesAreAlike ==
  \A s, t \in Knowledge : \A env \in Environments, echo \in BOOLEAN :
    (s.mail = t.mail /\ s.limited = t.limited /\ s.nameTaken = t.nameTaken /\ ~(env = "local" /\ echo))
      => PublicSays(s, [env |-> env, echo |-> echo]) = PublicSays(t, [env |-> env, echo |-> echo])

Configs == [env : Environments, apiKey : BOOLEAN, sqlite : BOOLEAN, secure : BOOLEAN, origins : {{}, {"*"}}, provider : {"null", "smtp", "capture"},
            host : BOOLEAN, path : BOOLEAN, limiter : BOOLEAN, officer : BOOLEAN, echo : BOOLEAN,
            static : Optional({[digits |-> TRUE, length |-> 6]}), codeLength : {6}]

\* A production process that starts can answer a login: its mail client delivers, and no
\* answer carries a code.
ASSUME LaunchedServesLogins ==
  \A c \in {x \in Configs : x.env = "prod" /\ Api!LaunchRefusals(x) = {}} :
    /\ Api!BuildEmail(c) = "smtp" /\ c.limiter /\ c.static = {}
    /\ \A s \in {x \in Knowledge : x.mail = Api!EmailAvailable(Api!BuildEmail(c))} :
         \A r \in Codes(s, c) : r.body \cap {"email_unavailable", "debug_code"} = {}

\* The same client serves the contact checks: what launch accepts, they can send with.
ASSUME OneMailClient ==
  \A c \in Configs : \A works \in BOOLEAN :
    LET client == Api!BuildEmail(c)
    IN  /\ (Api!DeliverContactCode("email", client, works).raised = {"DeliveryUnavailable"}) <=> (Api!SendEmail(client, works).raised = {"EmailUnavailable"})
        /\ Api!DeliverContactCode("phone", client, works).raised = {"DeliveryUnavailable"}

----------------------------------------------------------------------------
\* Calls whose end is not known.

Late == Api!Raised("ExecutionPending")
Routes(call) ==
  {Api!Verify(call), Api!AuthLogout(call), Api!AuthSessions(call), Api!AuthRevokeSession(call), Api!IngestOne(TRUE, Api!Returned({"t"}), call),
   Api!GetCandidate(call), Api!IssueCandidateKey(call), Api!IngestGithubSource(call), Api!IngestLinkedinSource(Api!Returned({"b"}), call),
   Api!ListCandidateSources(call), Api!GetReport(call), Api!ScreeningListOutcomes(call), Api!ProcessScreeningBatch(call),
   Api!StartVerification(call, [env |-> "local", echo |-> TRUE])}

\* Work that may still commit is never reported as done or undone: no cookie is set or
\* cleared, no code or key is shown.
ASSUME LateIsNeverDone ==
  \A r \in Routes(Late) : r.status \in {503, 504} /\ r.cookies = {} /\ r.cleared = {} /\ r.body \cap {"ok", "debug_code"} = {}

\* Cookies are set by a verified code alone.
ASSUME CookiesAreEarned ==
  \A e \in {"ExecutionUnavailable", "RateLimited", "RegistrationRefused", "ChallengeRefused", "ValueError"} :
    \A r \in Routes(Api!Raised(e)) : r.cookies = {} /\ r.cleared = {} /\ r.status >= 400

----------------------------------------------------------------------------
\* Refusals.

\* A refusal with a class of its own keeps its status beside the wider one.
ASSUME NarrowRefusalsAnswer ==
  /\ Api!ResolveDataPrincipalRequest(Api!Raised("RequestAlreadyResolved")).status = 409
  /\ Api!ResolveDataPrincipalRequest(Api!Raised("RequestRefused")).status = 422
  /\ Api!StartInterview(Api!Raised("KeyError")).status = 422 /\ Api!StartInterview(Api!Raised("LookupError")).status = 404
  /\ Api!ResolveUnmappedTerm(Api!Raised("StaleReviewError")).status = 409 /\ Api!ResolveUnmappedTerm(Api!Raised("ValueError")).status = 422
  /\ Api!IngestGithubSource(Api!Raised("SourceSignalErasedError")).status = 404 /\ Api!IngestGithubSource(Api!Raised("ValueError")).status = 400
  /\ Api!MatchJob(Api!Raised("KeyError"), 0).status = 400

\* Each route with what its service raises. Two escape as a 500: an organisation deleted
\* while it creates a job, and a record deleted between the look at its owner and the write.
Refusals ==
  {<<Api!SubmitAnswer(Api!Raised(e)), e>> : e \in {"SessionConflictError", "AnswerTooLargeError", "SpeechUnavailable", "SpeechFailed", "LookupError", "ValueError", "RateLimited"}}
  \cup {<<Api!StartVerification(Api!Raised(e), [env |-> "prod", echo |-> FALSE]), e>> :
         e \in {"LookupError", "MethodNotPermittedError", "NotImplementedError", "ConsentError", "DestinationError", "ChallengeError", "DeliveryUnavailable", "EmailSendFailed"}}
  \cup {<<Api!SubmitDocument(Api!Raised(e)), e>> : e \in {"LookupError", "DocumentTooLargeError", "DocumentParseError", "MethodNotPermittedError", "ConsentError", "PdfUnavailable"}}
  \cup {<<Api!SubmitRequest(Api!Raised(e)), e>> : e \in {"RequestRefused", "LookupError", "RateLimited"}}
  \cup {<<Api!ResolveUnmappedTerm(Api!Raised(e)), e>> : e \in {"StaleReviewError", "AliasConflictError", "LookupError", "ValueError"}}
  \cup {<<r, e>> : r \in {Api!SubmitRecord(Api!Raised("LookupError")), Api!CandidateReputation(Api!Raised("ConsentError"))}, e \in {"LookupError"}}
  \cup {<<Api!CreateJob(Api!Raised("ValueError")), "ValueError">>, <<Api!GrantConsent(Api!Raised("LookupError")), "LookupError">>}

\* Whatever the service refuses with, the route has an answer of its own for it.
ASSUME EveryRefusalIsAnswered == \A x \in Refusals : x[1] # Api!UnhandledError

\* Except that an organization deleted between the route's look and the service's write
\* is an error nobody answers.
ASSUME DeletedMeanwhileEscapes ==
  /\ Api!AppendEvent("o1", {[org |-> "o1"]}, Api!Raised("LookupError")) = Api!UnhandledError
  /\ Api!CreateJob(Api!Raised("LookupError")) = Api!UnhandledError

----------------------------------------------------------------------------
\* Tenants.

Match(c) == [candidate |-> {c}, resume |-> {c}, near |-> 9]
SomeReports == [org : Optional({"o1", "o2"}), claims : {{}, {"k"}}, near : {<<>>, <<Match("x"), Match("y")>>}]
SomeOutcomes == [org : Optional({"o1", "o2"}), note : {"n"}]

\* Somebody else's report is no report: to read, to judge or to list the judgments of.
ASSUME OthersReportsLookAbsent ==
  \A r \in SomeReports, claim \in Optional({"k", "z"}), notes \in {1, 9}, there \in BOOLEAN : r.org # {"o1"} =>
    /\ Api!ScopedReport("o1", {r}) = Api!ScopedReport("o1", {})
    /\ Api!ScopedRecordOutcome("o1", {r}, claim, notes, 5, {}, there) = Api!ScopedRecordOutcome("o1", {}, claim, notes, 5, {}, there)
    /\ Api!ScopedOutcomes("o1", {r}, SomeOutcomes, {r}) = Api!ScopedOutcomes("o1", {}, {}, {})

\* Nothing an organisation is handed names another's candidate, and nothing else is taken away.
ASSUME MatchesNameNobody ==
  \A r \in SomeReports, top \in {<<>>, <<Match("z")>>}, reports \in {{}, {1}} :
    LET resp == [near |-> top, report |-> {r : x \in reports}]
        out == Api!RedactIngestResponseForOrg(resp)
        nameless(near) == \A i \in DOMAIN near : near[i].candidate = {} /\ near[i].resume = {} /\ near[i].near = 9
    IN  /\ nameless(out.near) /\ \A x \in out.report : nameless(x.near) /\ Len(x.near) = Len(r.near) /\ x.claims = r.claims
        /\ Len(out.near) = Len(top)
        /\ \A x \in Api!ScopedReport("o1", {r}).value : nameless(x.near)

\* Both doors to an outcome refuse the same judgments; they differ in whose it is.
ASSUME DoorsAgree ==
  \A r \in {x \in SomeReports : x.org = {"o1"}}, claim \in Optional({"k", "z"}), notes \in {1, 5, 6}, there \in BOOLEAN :
    Api!RecordOutcome({r}, claim, notes, 5, there).status
      = Api!ScreeningRecordOutcome(Api!ScopedRecordOutcome("o1", {r}, claim, notes, 5, {"u"}, there)).status

\* An organisation reads its own judgments only, and none once the report is gone.
ASSUME JudgmentsAreTheirs ==
  \A r \in SomeReports, after \in BOOLEAN :
    \A list \in Api!ScopedOutcomes("o1", {r}, SomeOutcomes, IF after THEN {r} ELSE {}).value :
      after /\ r.org = {"o1"} /\ \A o \in list : o.org = {"o1"}

\* A person gone by the last look is answered as nobody, by every read that looks twice.
ASSUME ErasedWhileReadIsAbsent ==
  \A before, after \in BOOLEAN : ~(before /\ after) =>
    /\ Api!GetCandidate(Api!CandidateSnapshot(before, {"profile"}, after)) = Api!NotFound
    /\ Api!ListCandidateSources(Api!ListSources(before, {"s"}, after)) = Api!NotFound
    /\ Api!ListOutcomes(Api!ReportHistory(before, {"o"}, after)) = Api!NotFound
    /\ ~after => Api!IssueCandidateKey(Api!CandidateKey(Api!Returned({"key"}), after)) = Api!NotFound

\* The sections of a card are refused one by one: what one answers does not depend on the rest.
SectionCalls == {Api!Raised("ConsentError"), Api!Returned({}), Api!Returned({"row"})}
ASSUME SectionsAreIndependent ==
  \A calls \in [1..3 -> SectionCalls] : \A k \in 1..3, other \in SectionCalls :
    LET card(cs) == CHOOSE x \in Api!Card(cs).value : TRUE
    IN  \A i \in 1..3 \ {k} : card([calls EXCEPT ![k] = other])[i] = card(calls)[i]

----------------------------------------------------------------------------
\* Inputs.

Texts == [raw : 0..3, kept : 0..2]
Pdfs == [chars : {1, 9}, read : Optional([raw : {1, 3}, kept : {0, 1}])]
Caps == [resume |-> 2, pdf |-> 5]

\* Text needs no worker, and what is accepted is within the cap and not blank.
ASSUME InputsAreBounded ==
  \A text \in Optional(Texts), pdf \in Optional(Pdfs), admitted \in BOOLEAN :
    LET got == Api!ReadResumeInputAsync(text, pdf, Caps, admitted)
    IN  /\ \A t \in got.value : t.raw <= Caps.resume /\ t.kept > 0
        /\ (\E t \in text : t.raw > 0) => got = Api!ReadResumeInputAsync(text, pdf, Caps, TRUE)
        /\ got.raised = {"PdfUnavailable"} => ~admitted /\ \A p \in pdf : p.chars <= Caps.pdf

\* What passes the body limit fits it, and what fits, honestly declared, passes.
ASSUME BodiesFit ==
  \A chunks \in UNION {[1..n -> 0..3] : n \in 0..3}, declared \in Optional(0..7), broken \in BOOLEAN :
    LET refused == Api!BodyLimit(declared, chunks, broken, 4)
        total == Api!Received(chunks, Len(chunks))
    IN  /\ refused = {} => total <= 4
        /\ total <= 4 /\ ~broken /\ declared \subseteq {total} => refused = {}

Cursors == [parses : BOOLEAN, values : UNION {[1..n -> [type : {"int", "str"}]] : n \in 0..2}]
ASSUME PagesAreBounded ==
  /\ \A limit \in Optional(-1..6) : \A n \in Api!ClampLimit(limit, 2, 4).value : n \in 1..4
  /\ \A c \in Cursors : \A v \in Api!DecodeCursor(c, 2, <<{"int"}, {"str"}>>).value : v[1].type = "int" /\ v[2].type = "str"

\* Everyone asked for is either materialised or skipped.
ASSUME MaterialisationCounts ==
  \A ids \in UNION {[1..n -> {"a", "b"}] : n \in 0..3}, computed, stored \in SUBSET {"a", "b"} :
    LET m == Api!MaterializeFeatures({}, "v", ids, computed, stored) IN m.materialized + m.skipped = Len(ids)

\* No path outside the allow-list is served, whatever follows its first segment.
ASSUME OnlyAssetsAreServed ==
  \A path \in UNION {[1..n -> {"api.js", "draft.png", "index"}] : n \in 0..2} :
    \A served \in Api!UiServes(path, {"api.js", "index"}, "index") : served[1] \in {"api.js", "index"} /\ (path # <<>> => served = path)
----------------------------------------------------------------------------
\* What the stores answer.

ItemRow(id, status, error, text, generation, claimed, risk, signals) ==
  [id |-> id, batch |-> 1, status |-> status, error |-> error, text |-> text, generation |-> generation,
   claimed |-> claimed, risk |-> risk, signals |-> signals, created |-> 0]
AnyItem == {ItemRow(1, st, e, t, g, c, {}, <<>>) : st \in Rd!Statuses, e \in Optional({"fresh_upload_required", "screening_failed"}),
            t \in Optional({"", "text"}), g \in Optional({1, 2}), c \in Optional(0..3)}

\* The two spellings of an item's state agree: what the counts group by is what each item reads as.
ASSUME CountsAgreeWithItems ==
  \A i \in AnyItem, now \in 0..3, g \in 1..2 :
    LET db == [batches |-> {[id |-> 1, org |-> 1, created |-> 0]}, items |-> {i}, generation |-> g]
        read == Rd!ItemRecord(i, now, 1, g)
    IN  /\ \A c \in Rd!Counts(db, 1, 1, now, 1) : \A s \in Rd!Statuses : c[s] = IF s = read.status THEN 1 ELSE 0
        /\ i.status = "done" => read.status = "done"
        /\ Rd!Counts(db, 2, 1, now, 1) = {} /\ Rd!AllItems(db, 2, 1, now, 1) = {}

Scores == Optional(0..1)
Queue(scores) == {ItemRow(k, "done", {}, {""}, {}, {}, scores[k], <<>>) : k \in DOMAIN scores}
QueueDb(scores) == [batches |-> {[id |-> 1, org |-> 1, created |-> 0]}, items |-> Queue(scores), generation |-> 1]
PageOf(scores, cursor, limit) == Rd!Value(Rd!QueuePage(QueueDb(scores), 1, 1, cursor, limit, 0, 1), [rows |-> <<>>, next |-> {}])
RECURSIVE Walk(_, _, _)
Walk(scores, cursor, limit) ==
  LET p == PageOf(scores, cursor, limit) IN p.rows \o IF p.next = {} THEN <<>> ELSE Walk(scores, p.next, limit)
IdsOf(rows) == [k \in DOMAIN rows |-> rows[k].id]
Times(rows, id) == Cardinality({k \in DOMAIN rows : rows[k].id = id})

\* Walking a queue page by page reads every item once, the riskiest first and those without a
\* score last.
ASSUME QueueIsWalkedOnce ==
  \A scores \in [1..4 -> Scores], limit \in 1..3 :
    LET all == Walk(scores, {}, limit)
        key(k) == Rd!Value(all[k].risk, Rd!Unscored)
    IN  /\ \A id \in 1..4 : Times(all, id) = 1
        /\ \A k, m \in DOMAIN all : k < m => key(k) > key(m) \/ (key(k) = key(m) /\ all[k].id < all[m].id)

\* When an item gains a score between two pages only that item may be missed or read twice.
ASSUME OnlyTheMovedItemIsLost ==
  \A scores \in [1..4 -> Scores], limit \in 1..3, moved \in 1..4, score \in Scores :
    LET first == PageOf(scores, {}, limit)
        rest == IF first.next = {} THEN <<>> ELSE Walk([scores EXCEPT ![moved] = score], first.next, limit)
    IN  \A id \in 1..4 : id # moved => Times(first.rows \o rest, id) = 1

\* An organisation pages through its own batches, each once, newest first; a batch deleted
\* after the page was read is left out and the walk goes on.
BatchRows == {[id |-> 1, org |-> 1, created |-> 5], [id |-> 2, org |-> 1, created |-> 5], [id |-> 3, org |-> 2, created |-> 6],
              [id |-> 4, org |-> 1, created |-> 4]}
RECURSIVE WalkBatches(_, _, _, _)
WalkBatches(before, after, cursor, limit) ==
  LET p == Rd!ListService(before, after, 1, cursor, limit, 0, 1)
  IN  p.rows \o IF p.next = {} THEN <<>> ELSE WalkBatches(before, after, p.next, limit)
ASSUME BatchesAreWalkedOnce ==
  \A gone \in SUBSET {1, 2, 4}, limit \in 1..3 :
    LET db(rows) == [batches |-> rows, items |-> {}, generation |-> 1]
        all == WalkBatches(db(BatchRows), db({b \in BatchRows : b.id \notin gone}), {}, limit)
    IN  IdsOf(all) = SelectSeq(<<1, 2, 4>>, LAMBDA id : id \notin gone)

Blob(readable, band, loud) == [readable |-> readable, band |-> band, loudest |-> loud]
SummaryItems == {ItemRow(k, "done", {}, {""}, {}, {}, {}, s) : k \in 1..1,
                 s \in {<<>>, <<Blob(FALSE, "low", {1})>>, <<Blob(TRUE, "low", {})>>, <<Blob(TRUE, "high", {2})>>}}
\* The summary of a batch that nobody writes accounts for each item it could read: no more are
\* screened than are done, the bands add up, and a signal is named once with how often it led.
ASSUME SummaryAddsUp ==
  \A f \in [1..3 -> SummaryItems], waits \in 0..2 :
    LET items == {[f[k] EXCEPT !.id = k] : k \in 1..3} \cup {ItemRow(10 + k, "pending", {}, {"text"}, {1}, {}, {}, <<>>) : k \in 1..waits}
        db == [batches |-> {[id |-> 1, org |-> 1, created |-> 0]}, items |-> items, generation |-> 1]
    IN  \A s \in Rd!Summary(db, db, 1, 1, 0, 1) :
          /\ s.screened <= s.counts["done"] /\ Rd!Total(s.counts) = Cardinality(items)
          /\ s.screened = Cardinality({k \in 1..3 : f[k].signals # <<>> /\ f[k].signals[1].readable})
          /\ \A k, m \in DOMAIN s.top : k < m => s.top[k].count >= s.top[m].count /\ s.top[k].signal # s.top[m].signal
          /\ (s.status = "complete") <=> waits = 0

\* A batch is complete or partial only when nothing in it waits or runs, and it is never called
\* pending while an item runs.
ASSUME StatusReadsTheCounts ==
  \A c \in [Rd!Statuses -> 0..2] :
    LET s == Rd!DeriveStatus(c)
    IN  /\ s \in {"complete", "partial"} => c["pending"] = 0 /\ c["processing"] = 0 /\ c["done"] + c["failed"] > 0
        /\ s = "pending" => c["processing"] = 0
        /\ s = "complete" => c["failed"] = 0

Components == {[id |-> i, weight |-> w, risk |-> r] : i \in 1..2, w \in 1..2, r \in 0..1}
\* The signal a report is known by does not depend on the order of its components, and an item
\* without a report claims no risk.
ASSUME LoudestIsOne ==
  /\ \A cs \in SUBSET Components : Cardinality(cs) \in 1..3 => Len(Rd!Loudest(cs)) = 1 /\ \A c \in cs : c.weight <= Rd!Loudest(cs)[1].weight
  /\ \A e, d \in BOOLEAN : LET s == Rd!NoReportSignals([existing |-> e, duplicate |-> d])
                           IN  s.band = "insufficient_data" /\ s.loudest = {} /\ s.components = 0 /\ s.matched = e
  /\ \A st \in {"pending", "processing", "failed"}, blob \in Optional({"low"}) :
       LET shown(signals) == Rd!ComposeReason(signals, st, {"screening_failed"})
       IN  \A b \in blob : shown(<<Blob(TRUE, b, {1})>>) = shown(<<>>)

\* What is current is what was known as of any later moment, and looking back never shows an
\* extraction made after it: a newer version wins over a later extraction of an older one.
ASSUME AsOfLooksBack ==
  \A f \in [1..3 -> [version : 1..2, created : 0..1]], moment \in 0..2 :
    LET rows == {[id |-> k, candidate |-> 1, version |-> f[k].version, created |-> f[k].created] : k \in 1..3}
        then == Rd!ProfileAsOf(rows, 1, moment)
    IN  /\ \A e \in then : e.created <= moment
        /\ moment >= 1 => then = Rd!LatestProfile(rows, 1) /\ then # {}
        /\ \A e \in then : ~\E x \in rows : x.created <= moment /\ x.version > e.version

\* One key opens one person's portal, and the key it replaced opens nobody's.
ASSUME RotationEndsTheOldKey ==
  \A old \in SUBSET [candidate : 1..2, key : {"k1", "k2"}] :
    (\A a, b \in old : (a.candidate = b.candidate) <=> (a.key = b.key)) =>
      \A c \in 1..3 : LET r == Rd!IssueAccessKey({[id |-> 1], [id |-> 2]}, old, c, "new")
                      IN  /\ Rd!AuthenticateCandidate(r.credentials, {}) = {}
                          /\ Rd!AuthenticateCandidate(r.credentials, {"new"}) = IF c = 3 THEN {} ELSE {c}
                          /\ c # 3 => \A k \in old : k.candidate = c => Rd!AuthenticateCandidate(r.credentials, {k.key}) = {}
                          /\ c = 3 => r.raised # {} /\ r.credentials = old

PrintDbs == [candidates : SUBSET {[id |-> 1], [id |-> 2]}, resumes : SUBSET {[id |-> 7, candidate |-> 1]},
             fingerprints : SUBSET {[resume |-> 7, candidate |-> 1, algo |-> "a"]}]
SoundDbs == {d \in PrintDbs : (\A r \in d.resumes : [id |-> r.candidate] \in d.candidates) /\ (d.fingerprints # {} => d.resumes # {})}
\* Saving a fingerprint twice writes it once, whoever came between; a person or resume erased
\* meanwhile is refused, never called a duplicate, and nothing of theirs is written.
ASSUME FingerprintOnce ==
  \A before \in SoundDbs, after \in SoundDbs, c \in 1..2 :
    LET r == Rd!SaveFingerprint(before, after, "a", 7, c)
        again == Rd!SaveFingerprint([after EXCEPT !.fingerprints = r.fingerprints], [after EXCEPT !.fingerprints = r.fingerprints], "a", 7, c)
    IN  /\ r.written => after.fingerprints = {} /\ after.resumes # {} /\ c = 1
        /\ ~r.written => r.fingerprints = after.fingerprints
        /\ (r.raised = {} /\ before.fingerprints = {}) => Rd!Parents(after, 7, c) = {}
        /\ r.written => ~again.written /\ again.raised = {} /\ again.fingerprints = r.fingerprints

\* Likeness is sought among others only, and the corpus named is the one that was compared.
ASSUME LikenessIsOfOthers ==
  \A f \in [1..3 -> 1..2], similar \in [1..3 -> 0..2], limit \in 0..2 :
    LET prints == {[resume |-> k, candidate |-> f[k], algo |-> "a"] : k \in 1..3}
        r == Rd!SimilarResumes(prints, "a", similar, 1, 1, limit)
    IN  /\ r.corpus = Cardinality({k \in 1..3 : f[k] = 2})
        /\ r.matches # {}
        /\ \A m \in r.matches : Cardinality(m) <= limit /\ \A x \in m : x.candidate = 2 /\ similar[x.resume] >= 1

OutcomeRows == [id : 1..3, report : 1..2, claim : Optional({"c"}), org : Optional({1, 2}), recorded : 0..1]
OutcomeDb(os) == [reports |-> {[id |-> 1, org |-> {1}], [id |-> 2, org |-> {}]}, orgs |-> {1, 2}, outcomes |-> os]
\* An organisation is shown what it wrote on its own report, and neither the operator's notes
\* on it nor that a report of nobody or of another is there; the operator is shown every one.
ASSUME OutcomesStayWithTheirAuthor ==
  \A a \in OutcomeRows, b \in OutcomeRows, org \in 1..2, report \in 1..3 :
    a.id < b.id =>
      LET db == OutcomeDb({a, b})
      IN  /\ \A seen \in Rd!OutcomesForOrg(db, org, report) : report = 1 /\ org = 1 /\ \A k \in DOMAIN seen : seen[k].org = {org}
          /\ Rd!OutcomesForOrg(db, 2, 1) = Rd!OutcomesForOrg(db, 2, 3)
          /\ Len(Rd!Outcomes(db.outcomes, 1)) = Cardinality({o \in {a, b} : o.report = 1})
          /\ LET level == Rd!ReportLevelOutcomes(db)
             IN  (\A k \in DOMAIN level : level[k].claim = {}) /\ Len(level) = Cardinality({o \in {a, b} : o.claim = {}})

\* A judgment of a report erased meanwhile is answered as such; any other broken key is raised.
ASSUME OutcomeNeedsItsReport ==
  \A o \in OutcomeRows, present \in SUBSET {[id |-> 1, org |-> {1}]}, orgs \in SUBSET {1, 2} :
    LET r == Rd!AddOutcome([reports |-> present, orgs |-> orgs, outcomes |-> {}], o)
    IN  /\ r.recorded <=> r.outcomes = {o}
        /\ r.recorded => (\E p \in present : p.id = o.report) /\ o.org \subseteq orgs
        /\ r.raised # {} => \E p \in present : p.id = o.report

InterviewRows == [id : {1}, candidate : 1..2, status : {"in_progress", "completed"}, expires : Optional(0..1), started : {0},
                  assessment : Optional({[band |-> "strong", planned |-> 3, answered |-> 2]}), questions : {3}, turns : {1}]
\* Every look by a known organisation at a known person leaves one line saying whether it was
\* allowed and how many sessions it showed; without consent none is shown, and unfinished
\* interviews never are.
ASSUME LooksAreWritten ==
  \A s \in InterviewRows, org \in 1..2, c \in 1..3, allowed \in BOOLEAN, at \in 0..2 :
    LET db == [orgs |-> {1}, candidates |-> {[id |-> 1], [id |-> 2]}, sessions |-> {s}]
        r == Rd!AssessmentsForOrg(db, org, c, allowed, at)
    IN  /\ (org = 1 /\ c \in 1..2) <=> Cardinality(r.audit) = 1
        /\ \A a \in r.audit : a.allowed = allowed /\ a.shown = Len(r.shown)
        /\ r.shown # <<>> => allowed /\ s.candidate = c /\ r.shown[1].status = "completed"

Clocked == [id : {1}, token : {"t"}, kind : {"org"}, subject : {1}, issued : {0}, expires : 1..6, seen : 0..3, revoked : Optional({2})]
\* Writing the idle clock less often never keeps a session alive longer, and ends it at most
\* the throttle earlier than its last use would have.
ASSUME ThrottleOnlyShortens ==
  \A s \in Clocked, throttle \in 0..2, used \in 0..4, at \in 0..8 :
    used >= s.seen /\ at >= used /\ Rd!SessionStatus(s, 3, used) = "active" =>
      LET exact == [s EXCEPT !.seen = used]
          kept == CHOOSE x \in Rd!Touch({s}, 1, throttle, used) : TRUE
      IN  /\ Rd!SessionStatus(kept, 3, at) = "active" => Rd!SessionStatus(exact, 3, at) = "active"
          /\ Rd!SessionStatus(exact, 3, at + throttle) = "active" => Rd!SessionStatus(kept, 3, at) = "active"

DeviceRows == {[id |-> 1, token |-> "a", kind |-> "org", subject |-> 1, issued |-> 1, expires |-> 9, seen |-> 5, revoked |-> {}],
               [id |-> 2, token |-> "b", kind |-> "org", subject |-> 1, issued |-> 2, expires |-> 9, seen |-> 1, revoked |-> {}],
               [id |-> 3, token |-> "c", kind |-> "org", subject |-> 1, issued |-> 3, expires |-> 9, seen |-> 5, revoked |-> {5}],
               [id |-> 4, token |-> "d", kind |-> "candidate", subject |-> 1, issued |-> 4, expires |-> 9, seen |-> 5, revoked |-> {}],
               [id |-> 5, token |-> "e", kind |-> "org", subject |-> 1, issued |-> 5, expires |-> 7, seen |-> 5, revoked |-> {}]}
\* A principal's list shows what its tokens still open, the newest first, and nobody else's.
ASSUME ListedSessionsOpen ==
  \A rows \in SUBSET DeviceRows, at \in 5..10, current \in Optional(1..5) : \A list \in Rd!SessionsFor(rows, "org", 1, current, 3, at) :
    /\ {list[k].id : k \in DOMAIN list} = {s.id : s \in {x \in rows : x.kind = "org" /\ \E v \in Rd!SessionByToken(rows, {x.token}, 3, at) : v.status = "active"}}
    /\ \A k, m \in DOMAIN list : k < m => list[k].id > list[m].id
    /\ \A k \in DOMAIN list : list[k].current <=> current = {list[k].id}

UserRows == [id : {1}, email : Optional({"e"}), disabled : Optional({0}), created : 0..1]
\* A login finds an enabled account, the same one each time, and nobody by an empty address.
ASSUME LoginFindsTheFirst ==
  \A a \in UserRows, b \in UserRows :
    LET users == {a, [b EXCEPT !.id = 2]}
        found == Rd!UserByEmail(users, {"e"})
    IN  /\ Rd!UserByEmail(users, {}) = <<>>
        /\ found # <<>> <=> \E u \in users : u.email = {"e"} /\ u.disabled = {}
        /\ \A u \in users : Rd!UserByEmail(Rd!DisableOrgUser(users, u.id, 5), {"e"}) # <<>> =>
             Rd!UserByEmail(Rd!DisableOrgUser(users, u.id, 5), {"e"})[1].id # u.id
        /\ found # <<>> => Rd!OrgUserById(users, found[1].id) # {}

ChallengeDbs == [challenges : SUBSET [email : {"e", "f"}, purpose : {"login"}, plane : {"org", "candidate"}, code : {"x"}, expires : {1}, attempts : {2}],
                 issuances : SUBSET [email : {"e", "f"}]]
\* A resend leaves one code with a fresh budget and every other scope alone; clearing an
\* address leaves nothing of it, its sends included, and reports the codes it removed.
ASSUME ResendAndClear ==
  \A db \in ChallengeDbs :
    LET scope == [email |-> "e", purpose |-> "login", plane |-> "org"]
        sent == Rd!UpsertChallenge(db, scope, "y", 3)
        cleared == Rd!DeleteChallengesForEmail(sent, {"e"})
    IN  /\ \A c \in Rd!GetChallenge(sent, scope) : c.code = "y" /\ c.attempts = 0
        /\ Cardinality(Rd!GetChallenge(sent, scope)) = 1
        /\ \A c \in db.challenges : (c.email = "f" \/ c.plane = "candidate") => c \in sent.challenges
        /\ \A r \in cleared.db.challenges \cup cleared.db.issuances : r.email # "e"
        /\ cleared.deleted = Cardinality(sent.challenges) - Cardinality(cleared.db.challenges)

PrincipalRequests == [id : {1}, candidate : 1..2, status : {"open", "resolved"}, created : 0..1]
\* The operators' queue serves whoever waits longest, the subject's list the newest first.
ASSUME QueueServesTheOldest ==
  \A a, b, c \in PrincipalRequests : \A limit \in 1..3 :
    LET rows == {a, [b EXCEPT !.id = 2], [c EXCEPT !.id = 3]}
        open == Rd!ListByStatus(rows, {"open"}, limit)
        mine == Rd!RequestsForCandidate(rows, 1)
    IN  /\ \A k \in DOMAIN open : open[k].status = "open"
        /\ \A r \in rows : r.status = "open" /\ (\A k \in DOMAIN open : open[k] # r) =>
             Len(open) = limit /\ \A k \in DOMAIN open : open[k].created <= r.created
        /\ \A k, m \in DOMAIN mine : k < m => mine[k].created >= mine[m].created
        /\ Len(mine) = Cardinality({r \in rows : r.candidate = 1})

SweepRows == [id : {1}, at : Optional(0..2), text : BOOLEAN]
SweepTables == {{[f[k] EXCEPT !.id = k] : k \in 1..3} : f \in [1..3 -> SweepRows]}
SweepTargets == {[class |-> "c", mode |-> m, ttl |-> 1] : m \in {"delete", "clear"}}
\* On a table nobody writes the sweep does what its preview says, the oldest first and nothing
\* on its boundary, and a second pass after an uncut one finds nothing.
ASSUME SweepIsItsPreview ==
  \A t \in SweepTargets, rows \in SweepTables, cap \in 1..2 : \A chosen \in Rd!Chosen(t, rows, rows, 3, cap, FALSE) :
    LET report == Rd!SweepReport({t}, [x \in {t} |-> rows], 3, cap)
        left == Rd!Swept(t, rows, chosen)
    IN  /\ Cardinality(chosen) = report.affected["c"]
        /\ \A r \in chosen : r.at \in {{0}, {1}}
        /\ ({"c"} = report.truncated) <=> Rd!Eligible(t, left, 3) # {}
        /\ Rd!Chosen(t, rows, rows, 3, cap, TRUE) = {{}}
\* When rows come and go between the count and the write the sweep still takes no more than the
\* cap and nothing that is not due, but the report says what was counted.
ASSUME SweepIsBounded ==
  \A t \in SweepTargets, m \in SUBSET (1..3), rows \in {{[id |-> k, at |-> {k - 1}, text |-> TRUE] : k \in s} : s \in SUBSET (1..3)} :
    LET after == {[id |-> k, at |-> {k - 1}, text |-> TRUE] : k \in m}
    IN  \A chosen \in Rd!Chosen(t, rows, after, 3, 1, FALSE) :
          /\ Cardinality(chosen) <= 1 /\ chosen \subseteq Rd!Eligible(t, after, 3)
          /\ rows \subseteq after => Cardinality(chosen) = Rd!Affected(t, rows, 3, 1)

\* A counter never goes down and none appears at zero, whatever is added.
ASSUME CountersOnlyGrow ==
  \A counters \in UNION {[S -> 1..2] : S \in SUBSET {"a", "b"}}, series \in {"a", "b"}, amount \in -1..2 :
    LET r == Rd!AddCounter(counters, series, amount)
    IN  /\ DOMAIN counters \subseteq DOMAIN r.counters
        /\ \A s \in DOMAIN r.counters : r.counters[s] >= 1 /\ (s \in DOMAIN counters => r.counters[s] >= counters[s])
        /\ (amount <= 0 => r.counters = counters) /\ (amount < 0 <=> r.raised # {})

\* Every request that reached a serving process is counted once, as the client saw it; a route
\* that raised counts as 500.
ASSUME RequestsAreCounted ==
  \A answer \in Optional({200, 404}), route \in Optional({"/r"}), serving \in BOOLEAN, supplied \in Optional({"mine"}) :
    LET r == Rd!RequestContext(answer, route, serving, supplied, "fresh")
    IN  /\ (r.counted # {}) <=> serving
        /\ \A c \in r.counted : c.status = r.status /\ (c.route = "__unmatched__" <=> route = {})
        /\ r.raised <=> answer = {}
        /\ r.raised => r.status = 500

\* The migration lock is given back whether the migration succeeded or not, and the connection
\* that held it is let go after it.
ASSUME MigrationLockIsReturned ==
  \A upgraded \in BOOLEAN :
    LET steps == Rd!UpgradeToHead("postgresql", upgraded).steps
    IN  \E a, b, c, d \in DOMAIN steps : /\ steps[a] = "lock" /\ steps[b] = "upgrade" /\ steps[c] = "unlock" /\ steps[d] = "dispose"
                                         /\ a < b /\ b < c /\ c < d

\* No process serves a configuration it refuses or a schema it could not bring up to date; a
\* process closes what it built and nothing it was given, and the first error is the one told.
ASSUME LifespanHolds ==
  \A injected, configured, onBoot, migrated \in BOOLEAN, body \in Optional({"error"}), closed \in Optional({"cleanup"}) :
    LET l == Rd!Lifespan(injected, configured, onBoot, migrated, body, closed)
    IN  /\ l.served => configured /\ (~injected /\ onBoot => migrated)
        /\ l.migrated => ~injected /\ configured
        /\ l.closed <=> l.served /\ ~injected
        /\ body # {} /\ l.served => l.raised = body
        /\ "cleanup" \in l.raised => body = {} /\ l.closed

----------------------------------------------------------------------------
\* What an id opens, and for whom.

OwnedDb(scores) == [QueueDb(scores) EXCEPT !.batches = BatchRows]
\* To every route that takes the id of a batch, another organisation's batch is one that does
\* not exist; a batch its organisation is shown in a list opens, and one deleted between the
\* two looks of a read is absent, not an error.
ASSUME OthersBatchesAreAbsent ==
  \A scores \in [1..2 -> Scores], org \in 1..2, batch \in 1..5, gone \in BOOLEAN :
    LET db == OwnedDb(scores)
        after == IF gone THEN [db EXCEPT !.batches = {}] ELSE db
        opened == Rd!GetBatch(db, after, org, batch, 0, 1)
        answers == {Api!GetScreeningBatch(Api!Returned(opened)),
                    Api!ScreeningBatchSummary(Api!Returned(Rd!Summary(db, after, org, batch, 0, 1))),
                    Api!ScreeningBatchQueue(Api!Returned(Rd!QueuePage(after, org, batch, {}, 2, 0, 1))),
                    Api!ProcessScreeningBatch(Api!Returned(Rd!BatchRow(after.batches, org, batch))),
                    Api!RetryScreeningBatch(Api!Returned(Rd!BatchRow(after.batches, org, batch))),
                    Api!DeleteScreeningBatch(Api!Returned(Rd!BatchRow(after.batches, org, batch)))}
        listed == Rd!ListService(db, after, org, {}, 3, 0, 1).rows
        own == \E b \in BatchRows : b.id = batch /\ b.org = org
    IN  /\ ~own \/ gone => answers = {Api!NotFound}
        /\ own /\ ~gone => answers = {Api!OK} /\ \E k \in DOMAIN listed : listed[k].id = batch
        /\ Api!ListScreeningBatches(Api!Returned({listed})) = Api!OK

CaseReports == [id : {1}, org : Optional({1, 2}), candidate : Optional({"c"}), created : 0..1]
\* An organisation's history of a person is the operators' with what is not its own left
\* out, in the same order; a report it can open is one the operators can, and a report of no
\* candidate is in nobody's history and in no export.
ASSUME HistoriesAgree ==
  \A a \in CaseReports, b \in CaseReports, org \in 1..2 :
    LET reports == {a, [b EXCEPT !.id = 2]}
        theirs(seq) == SelectSeq(seq, LAMBDA r : r.org = {org})
        exported == Rd!AllReportsWithCandidates(reports)
    IN  /\ Rd!ForCandidateAndOrg(reports, org, "c") = {theirs(q) : q \in Rd!ForCandidate(reports, "c")}
        /\ \A id \in 1..3 :
             LET found == Rd!GetReport(reports, id)
                 scoped == Rd!GetForOrg(reports, org, id)
             IN  /\ scoped \subseteq found
                 /\ Api!ScreeningGetReport(Api!Returned(scoped)).status = 200 => Api!GetReport(Api!Returned(found)) = Api!OK
        /\ {exported[k].id : k \in DOMAIN exported} = {r.id : r \in {x \in reports : x.candidate # {}}}
        /\ Api!ScreeningCandidateReports(Api!Returned(Rd!ForCandidateAndOrg(reports, org, "c"))) = Api!OK

\* A person who registers by mailbox is found by it and by no other, the page of ids holds
\* them, and nobody is found by an address that is missing.
ASSUME MailboxFindsItsPerson ==
  \A known \in SUBSET [id : 1..2, email : Optional({"e", "f"}), name : {{"n"}}, created : {0}] :
    (\A p, q \in known : p.id = q.id => p = q) /\ (\A p \in known : p.email # {"e"}) =>
      LET people == Rd!CreateBareCandidate(known, 3, "e", 1)
          page == Rd!ListCandidateIds(people, 3)
      IN  /\ Rd!FindByEmailHash(people, {"e"}) = {3} /\ Rd!EmailHashFor(people, 3) = {"e"}
          /\ Rd!FindByEmailHash(people, {}) = {}
          /\ \A p \in known : Rd!FindByEmailHash(people, p.email) = Rd!FindByEmailHash(known, p.email)
          /\ Len(page) = Cardinality(people) /\ page[Len(page)].id = 3
          /\ \A c \in 1..3 : (Rd!GetCandidate([candidates |-> people, resumes |-> {}], c) # {}) = (\E p \in people : p.id = c)

\* An operator taken off the list by id can no longer sign in by mail, nor be looked up; the
\* others can as before, and the list still names everyone.
ASSUME DisabledOperatorsAreOut ==
  \A a \in UserRows, b \in UserRows, out \in 1..2 :
    LET users == {a, [b EXCEPT !.id = 2]}
        left == Rd!DisableAdminUser(users, out, 5)
        found == Rd!AdminUserByEmail(left, {"e"})
    IN  /\ Rd!AdminUserById(left, out) = {} /\ (found # <<>> => found[1].id # out)
        /\ \A u \in users : u.id # out => Rd!AdminUserById(left, u.id) = Rd!AdminUserById(users, u.id)
        /\ \A list \in Rd!ListAdminUsers(left) : Len(list) = 2
        /\ Api!CreateAdminUser(found # <<>>, Api!Returned({"user"})).status = IF found = <<>> THEN 200 ELSE 409
        /\ Api!DeleteAdminUser(Api!Returned(Rd!AdminUserById(left, out))) = Api!NotFound

\* A request is filed for a person who is there and for nobody else: what the call shows is
\* what the queue then holds, once, and what its number opens names its subject.
ASSUME RequestsAreForSomebody ==
  \A people \in SUBSET {[id |-> 1, name |-> {"n"}], [id |-> 2, name |-> {}]}, c \in 1..2, field \in Optional({"full_name", "email"}) :
    LET request == [id |-> 7, candidate |-> c, status |-> "open", created |-> 0, field |-> field]
        r == Rd!CreateRequest([candidates |-> people, requests |-> {}], request)
        queue == Rd!ListByStatus(r.requests, {"open"}, 5)
    IN  /\ (r.view # {}) = (\E p \in people : p.id = c) /\ r.requests = r.view
        /\ queue = IF r.view = {} THEN <<>> ELSE <<request>>
        /\ \A pair \in Rd!GetRequest(r.requests, 7) : pair[2] = c
        /\ Rd!CurrentValue(people, c, field) # {} => field = {"full_name"}
        /\ Rd!WhyNotAppliable({"email"}) # Rd!WhyNotAppliable({"phone"})

\* A list of a person's consents or rounds, or of a record's events, holds each row once, in
\* the order they were written, and no other person's.
ASSUME RowsListedOnce ==
  \A rows \in SUBSET [id : 1..2, candidate : {"c", "d"}, record : {1}, created : {0, 1}] :
    (\A x, y \in rows : x.id = y.id => x = y) =>
      LET mine == {r \in rows : r.candidate = "c"} IN
      \A list \in {Rd!CodingRoundsForCandidate(rows, "c"), Rd!ConsentsForCandidate(rows, "c"), Rd!EventsForRecord(mine, 1)} :
        /\ {list[k] : k \in DOMAIN list} = mine /\ Len(list) = Cardinality(mine)
        /\ \A k, m \in DOMAIN list : k < m => list[k].created <= list[m].created

\* A decision on consent is given about a known person to a known organisation only, and the
\* one who is refused cannot tell which of the two is missing.
ASSUME ConsentNeedsBoth ==
  \A people \in SUBSET {[id |-> 1]}, orgs \in SUBSET {1}, check \in BOOLEAN :
    LET r == Rd!ConsentStatus([candidates |-> people, orgs |-> orgs], 1, 1, check)
        call == [raised |-> r.raised, value |-> r.decision]
    IN  (Api!ConsentStatus(call) = Api!OK) = (people # {} /\ orgs # {}) /\ Api!ConsentStatus(call) \in {Api!OK, Api!NotFound}

\* The windows told to a person are the operator's, for every class there is, and the date is
\* that of the oldest row there is of it.
ASSUME PolicyTellsEveryWindow ==
  \A resumes, audits \in Optional(0..2), ttl \in {30, 90} :
    LET policy == Rd!BuildRetentionPolicy([resumes |-> ttl, audits |-> 90], [resumes |-> resumes, audits |-> audits])
    IN  /\ DOMAIN policy = {"resumes", "audits"} /\ policy.resumes.ttl = ttl
        /\ policy.audits.until = {a + 90 : a \in audits} /\ (policy.resumes.until = {}) = (resumes = {})

\* What the metrics page shows of a series is what was added to it, and a duration is counted
\* under the route that took it and no other.
ASSUME MetricsShowWhatWasAdded ==
  \A first, second \in {"a", "b"}, n, m \in 0..2 :
    LET counted == Rd!AddCounter(Rd!AddCounter(<<>>, first, n).counters, second, m).counters
        timed == Rd!ObserveDuration(Rd!ObserveDuration(<<>>, first, n), second, m)
    IN  /\ \A line \in Rd!RenderMetrics(counted) :
             line.value = (IF first = line.series THEN n ELSE 0) + (IF second = line.series THEN m ELSE 0)
        /\ \A s \in {"a", "b"} \ {first, second} : s \notin DOMAIN counted /\ s \notin DOMAIN timed
        /\ first # second => timed[first] = [sum |-> n, count |-> 1]
        /\ first = second => timed[first] = [sum |-> n + m, count |-> 2]
=============================================================================
