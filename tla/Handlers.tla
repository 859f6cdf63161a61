------------------------------ MODULE Handlers -----------------------------
(***************************************************************************)
(* The handlers behind the gates: what each route of api/ answers, from    *)
(* its own checks and from how the service call ends (Gateway's records).  *)
(* A handler that reads the same subject twice takes both looks: `before`  *)
(* and `after` say whether the candidate or report was there.              *)
(***************************************************************************)
EXTENDS Gateway

OK == Response(200, {"ok"})
Empty == Response(200, {})
NotFound == Response(404, {"not found"})
Missing(class) == <<<<class, NotFound>>>>
Invalid(class) == <<<<class, Response(422, {"invalid"})>>>>
Bad(class) == <<<<class, Response(400, {"bad"})>>>>
Conflict(class) == <<<<class, Response(409, {"conflict"})>>>>
Forbidden(class) == <<<<class, Response(403, {"forbidden"})>>>>

\* Who may not be told about somebody: the consent refusal of the ledger, and nobody there.
ConsentGated(call) == Handle(call, Forbidden("ConsentError") \o Missing("LookupError"), Empty, OK)

----------------------------------------------------------------------------
\* What a resume upload is read from: the text wins, both are capped first, and an empty
\* one is refused after trimming. A text is [raw, kept] characters; a PDF is [chars, read],
\* `read` the text the bounded parser got out of it, if any.

ValidateResumeText(text, caps) ==
  IF text.raw > caps.resume THEN Raised("ResumeInputError")
  ELSE IF text.kept = 0 THEN Raised("ResumeInputError") ELSE Returned({text})

ReadResumeInput(text, pdf, caps) ==
  LET fromText == {ValidateResumeText(t, caps) : t \in {x \in text : x.raw > 0}}
      parsed(p) == IF p.read = {} THEN Raised("ResumeInputError") ELSE ValidateResumeText(CHOOSE t \in p.read : TRUE, caps)
  IN  IF \E c \in fromText : c.raised # {} THEN Raised("ResumeInputError")
      ELSE IF \E p \in pdf : p.chars > caps.pdf THEN Raised("ResumeInputError")
      ELSE IF fromText # {} THEN CHOOSE c \in fromText : TRUE
      ELSE IF pdf = {} THEN Raised("ResumeInputError") ELSE parsed(CHOOSE p \in pdf : TRUE)

\* Only a parse needs the pool: text, no PDF or an oversize one are answered without it.
ReadResumeInputAsync(text, pdf, caps, admitted) ==
  LET parses == (\A t \in text : t.raw = 0) /\ \E p \in pdf : p.chars <= caps.pdf
  IN  IF parses /\ ~admitted THEN Raised("PdfUnavailable") ELSE ReadResumeInput(text, pdf, caps)

IngestExecutionRefused == Admission("candidate_ingest_pending")

\* One upload: the domain, the input, then the ingest core.
IngestOne(domainKnown, read, call) ==
  IF ~domainKnown THEN Response(422, {"unknown_domain"})
  ELSE IF read.raised # {} THEN Handle(read, Invalid("ResumeInputError"), OK, OK)
  ELSE Handle(call, IngestExecutionRefused \o Invalid("IngestRefused"), OK, OK)
CreateCandidate(domainKnown, read, call) == IngestOne(domainKnown, read, call)

\* The whole registration fails on the first unreadable item, and an over-cap batch before any.
BatchTexts(items, cap) ==
  LET bad == {i \in DOMAIN items : items[i].raised # {}}
  IN  IF Len(items) > cap THEN Raised("ResumeInputError")
      ELSE IF bad = {} THEN Returned({"texts"}) ELSE items[Min(bad)]

----------------------------------------------------------------------------
\* Candidates, on the operator's side.

CandidateSnapshot(before, read, after) == IF before /\ after THEN Returned(read) ELSE Raised("LookupError")
CandidateKey(issued, after) == IF issued.raised # {} THEN issued ELSE IF after THEN issued ELSE Raised("LookupError")
CandidateRecord(call) == Handle(call, Missing("LookupError") \o Admission("candidate_record_pending"), Empty, OK)

GetCandidate(call) == CandidateRecord(call)
ListCandidateResumes(call) == CandidateRecord(call)
ListCandidateReports(call) == CandidateRecord(call)
IssueCandidateKey(call) == CandidateRecord(call)

\* Both doors to erasure take the same path.
DeleteCandidate(present) == IF present THEN OK ELSE NotFound
PortalErase == OK

DeleteCandidateResume(present, owned, id) == IF present /\ id \in owned THEN OK ELSE NotFound

SourceRefusals == Admission("candidate_record_pending") \o Missing("SourceSubjectErasedError") \o Missing("SourceSignalErasedError")
IngestGithubSource(call) == Handle(call, SourceRefusals \o Bad("ValueError"), OK, OK)
LinkedinData(present, chars, cap, decodes) ==
  IF ~present THEN Raised("SourceSubjectErasedError")
  ELSE IF chars > cap \/ ~decodes THEN Raised("HTTP422") ELSE Returned({"bytes"})
IngestLinkedinSource(data, call) ==
  Handle(IF data.raised # {} THEN data ELSE call, SourceRefusals \o Invalid("HTTP422"), OK, OK)

ListSources(before, signals, after) == IF before /\ after THEN Returned(signals) ELSE Raised("SourceSubjectErasedError")
ListCandidateSources(call) == Handle(call, Missing("SourceSubjectErasedError") \o Admission("candidate_record_pending"), Empty, OK)

\* The login a source is read for: the handle given, else the first GitHub link of the profile.
ParseLogin(raw) ==
  IF raw.url THEN IF raw.owner # {} THEN Returned(raw.owner) ELSE Raised("ValueError")
  ELSE IF raw.wellFormed THEN Returned(raw.owner) ELSE Raised("ValueError")
ResolveHandle(handle, links, present) ==
  LET usable == {i \in DOMAIN links : links[i].owner # {}}
  IN  IF handle # {} THEN ParseLogin(CHOOSE h \in handle : TRUE)
      ELSE IF usable # {} THEN Returned(links[Min(usable)].owner)
      ELSE Raised(IF present THEN "ValueError" ELSE "SourceSubjectErasedError")

----------------------------------------------------------------------------
\* Reports and outcomes. A report is [org, claims, near]: who commissioned it, its claims, and
\* the other people's resumes its near-duplicate check names.

\* The one rule both doors to an outcome share.
BuildOutcome(report, claim, notes, cap, by, org, user) ==
  IF ~(claim \subseteq report.claims) \/ notes > cap THEN Raised("OutcomeRefused")
  ELSE Returned({[claim |-> claim, by |-> by, org |-> org, user |-> user]})

\* No organisation learns whose resume came close, only that one did.
StrippedMatches(near) == [i \in DOMAIN near |-> [near[i] EXCEPT !.candidate = {}, !.resume = {}]]
RedactForOrg(report) == [report EXCEPT !.near = StrippedMatches(@)]
RedactIngestResponseForOrg(resp) ==
  [resp EXCEPT !.near = StrippedMatches(@), !.report = {RedactForOrg(r) : r \in @}]

OwnReport(org, found) == {r \in found : r.org = {org}}
ScopedReport(org, found) == Returned({RedactForOrg(r) : r \in OwnReport(org, found)})
ScopedReportsForCandidate(org, reports) == Returned({RedactForOrg(r) : r \in OwnReport(org, reports)})

\* The organisation's judgment: validated on its own report, stamped as its own, refused as
\* not there when the report went away before the write.
ScopedRecordOutcome(org, found, claim, notes, cap, user, stillThere) ==
  IF OwnReport(org, found) = {} THEN Returned({})
  ELSE LET built == BuildOutcome(CHOOSE r \in OwnReport(org, found) : TRUE, claim, notes, cap, "organization", {org}, user)
       IN  IF built.raised = {} /\ ~stillThere THEN Returned({}) ELSE built
ScopedOutcomes(org, found, outcomes, foundAfter) ==
  IF OwnReport(org, found) = {} \/ OwnReport(org, foundAfter) = {} THEN Returned({})
  ELSE Returned({{o \in outcomes : o.org = {org}}})

ReportRecord(call, missing) == Handle(call, Admission("report_record_pending"), missing, OK)
ReportHistory(before, outcomes, after) == IF before /\ after THEN Returned({outcomes}) ELSE Returned({})

GetReport(call) == ReportRecord(call, NotFound)
ListOutcomes(call) == ReportRecord(call, NotFound)
ScreeningGetReport(call) == ReportRecord(call, NotFound)
ScreeningCandidateReports(call) == ReportRecord(call, Empty)
ScreeningListOutcomes(call) == ReportRecord(call, NotFound)

RecordOutcome(found, claim, notes, cap, stillThere) ==
  IF found = {} THEN NotFound
  ELSE LET built == BuildOutcome(CHOOSE r \in found : TRUE, claim, notes, cap, "operator", {}, {})
       IN  Handle(IF built.raised = {} /\ ~stillThere THEN Returned({}) ELSE built, Invalid("OutcomeRefused"), NotFound, OK)
ScreeningRecordOutcome(call) == Handle(call, Invalid("OutcomeRefused"), NotFound, OK)

\* A report evaluated without a candidate, erased before its own response.
Evaluate(domainKnown, call, saved) ==
  IF ~domainKnown THEN Response(422, {"unknown_domain"})
  ELSE Handle(call, Invalid("ResumeInputError") \o Invalid("KeyError"), OK, IF saved THEN OK ELSE Response(422, {"report_erased"}))

----------------------------------------------------------------------------
\* Screening batches.

ScreeningCreateCandidate(domainKnown, read, call) == IngestOne(domainKnown, read, call)
CreateScreeningBatch(texts, call) == Handle(IF texts.raised # {} THEN texts ELSE call, Invalid("ValueError"), OK, OK)
ListScreeningBatches(call) == Handle(call, Invalid("ValueError"), Empty, OK)
GetScreeningBatch(call) == Handle(call, <<>>, NotFound, OK)
ProcessScreeningBatch(call) == Handle(call, IngestExecutionRefused \o RateLimited, NotFound, OK)
RetryScreeningBatch(call) == Handle(call, <<>>, NotFound, OK)
ScreeningBatchQueue(call) == Handle(call, Invalid("ValueError"), NotFound, OK)
ScreeningBatchSummary(call) == Handle(call, <<>>, NotFound, OK)
DeleteScreeningBatch(call) == Handle(call, <<>>, NotFound, OK)

\* A cursor is the sort key of the last row of a page: decoded whole, or refused.
DecodeCursor(cursor, arity, types) ==
  IF ~cursor.parses \/ Len(cursor.values) # arity \/ \E i \in 1..arity : cursor.values[i].type \notin types[i]
  THEN Raised("InvalidCursor") ELSE Returned({cursor.values})
ClampLimit(limit, default, max) ==
  IF limit = {} THEN Returned({default})
  ELSE IF \E n \in limit : n < 1 THEN Raised("ValueError") ELSE Returned({Min({max} \cup limit)})

----------------------------------------------------------------------------
\* The employer's side: jobs, pay, the dashboard, the shared ledger.

CreateJob(call) == Handle(call, Bad("ValueError"), OK, OK)
GetJob(call) == Handle(call, <<>>, NotFound, OK)
UpdateJob(call) == Handle(call, Bad("ValueError"), NotFound, OK)
\* An empty pool is an answer, and says why.
MatchJob(call, pool) ==
  Handle(call, Bad("ValueError") \o Bad("KeyError") \o Bad("TypeError"), NotFound,
         IF pool = 0 THEN Response(200, {"ok", "no_materialized_candidates"}) ELSE OK)
JobBoard(call, pool) == Handle(call, <<>>, NotFound, IF pool = 0 THEN Response(200, {"ok", "no_materialized_candidates"}) ELSE OK)
SubmitOffer(vocabulary, call) == IF ~vocabulary THEN Response(400, {"invalid role_family or city_tier"}) ELSE ConsentGated(call)
CompEstimate(call) == Handle(call, Bad("ValueError"), OK, OK)
JobComp(call) == Handle(call, <<>>, NotFound, OK)

\* A card is three reads, each refused on its own; nobody there ends it at the first.
Section(call) ==
  IF call.raised = {"ConsentError"} THEN {"consent_required"}
  ELSE IF call.raised # {} THEN {} ELSE IF call.value = {} THEN {"no_data"} ELSE {"available"}
Card(sections) ==
  IF \E i \in DOMAIN sections : Section(sections[i]) = {} THEN Raised("LookupError")
  ELSE Returned({[i \in DOMAIN sections |-> Section(sections[i])]})
CandidateCard(call) == Handle(call, Missing("LookupError"), OK, OK)

Overview(reqs) ==
  LET statuses == {r.status : r \in reqs}
  IN  [total |-> Cardinality(reqs), byStatus |-> [s \in statuses |-> Cardinality({r \in reqs : r.status = s})]]
Board(owned, comp, match) == IF owned = {} \/ match = {} THEN Returned({}) ELSE Returned({<<owned, comp, match>>})

CreateOrg(call) == Handle(call, Conflict("ValueError"), OK, OK)
RotateOrgKey(call) == Handle(call, Missing("LookupError"), OK, OK)
DeleteOrg(call) == Handle(call, <<>>, NotFound, OK)
SetOrgReliability(call) == Handle(call, Missing("LookupError"), OK, OK)
GrantConsent(call) == Handle(call, Missing("LookupError"), OK, OK)
RevokeConsent(call) == Handle(call, <<>>, Response(200, {"revoked_false"}), Response(200, {"revoked"}))
ConsentStatus(call) == Handle(call, Missing("LookupError"), OK, OK)
SubmitRecord(call) == ConsentGated(call)
\* The record is looked at for its owner before it is written to.
AppendEvent(org, record, call) == IF {r \in record : r.org = org} = {} THEN NotFound ELSE Handle(call, <<>>, OK, OK)
QueryRecords(call) == ConsentGated(call)
SubmitCodingRound(call) == ConsentGated(call)
QueryCodingRounds(call) == ConsentGated(call)
CandidateReputation(call) == ConsentGated(call)
OrgCandidateAssurance(call) == ConsentGated(call)
OrgCandidateClaims(call) == ConsentGated(call)
OrgCandidateInterviews(call) == ConsentGated(call)

----------------------------------------------------------------------------
\* The candidate's side: verification, interviews, data requests.

StartVerification(call, config) ==
  LET echoed == config.env = "local" /\ config.echo /\ "code" \in call.value
  IN  Handle(call,
        <<<<"ExecutionUnavailable", Busy("capacity_exhausted")>>, <<"ExecutionPending", Response(504, {"contact_code_pending"})>>,
          <<"DeliveryUnavailable", Response(503, {"delivery_unavailable"})>>, <<"EmailSendFailed", Response(503, {"email_send_failed"})>>>>
        \o Bad("DestinationError") \o Forbidden("MethodNotPermittedError") \o Forbidden("ConsentError")
        \o <<<<"ChallengeError", Response(429, {"challenge"})>>>> \o Missing("LookupError") \o Invalid("NotImplementedError"),
        OK, IF echoed THEN Response(200, {"ok", "debug_code"}) ELSE OK)
ConfirmVerification(call) == Handle(call, Missing("LookupError") \o Bad("ChallengeError"), OK, OK)
SubmitDocument(call) ==
  Handle(call, Invalid("DocumentTooLargeError") \o Bad("DocumentParseError") \o Forbidden("MethodNotPermittedError")
               \o Forbidden("ConsentError") \o Invalid("NotImplementedError") \o Missing("LookupError"), OK, OK)
RecordManualReview(call) == Handle(call, Missing("LookupError"), OK, OK)

StartInterview(call) ==
  Handle(call, Invalid("NothingToAskError") \o Conflict("SessionConflictError") \o Invalid("KeyError") \o Missing("LookupError"), OK, OK)
GetInterview(call) == Handle(call, Missing("LookupError"), OK, OK)
SubmitAnswer(call) ==
  Handle(call, RateLimited \o Conflict("SessionConflictError") \o Invalid("AnswerTooLargeError") \o Invalid("SpeechUnavailable")
               \o Invalid("SpeechFailed") \o Missing("LookupError") \o Bad("ValueError"), OK, OK)
FinishInterview(call) == Handle(call, Conflict("SessionConflictError") \o Missing("LookupError"), OK, OK)

PortalRead(call) == Handle(call, Missing("PortalSubjectErasedError") \o Missing("SourceSubjectErasedError"), Empty, OK)
PortalAccessLog(call) == Handle(call, Missing("PortalSubjectErasedError"), Empty, OK)
PortalGrantConsent(call) == Handle(call, Missing("LookupError"), OK, OK)
PortalRevoke(candidate, grant, revoked) ==
  IF {g \in grant : g.candidate = candidate} = {} THEN Raised("LookupError") ELSE Returned(revoked)
PortalRevokeConsent(call) == Handle(call, Missing("LookupError"), Response(200, {"revoked_false"}), Response(200, {"revoked"}))
SubmitRequest(call) == Handle(call, RateLimited \o Invalid("RequestRefused") \o Missing("LookupError"), OK, OK)

ListDataPrincipalRequests(limit, call) == IF limit.raised # {} THEN Handle(limit, Invalid("ValueError"), OK, OK) ELSE Handle(call, <<>>, Empty, OK)
\* The narrower refusal comes first, or it could never answer.
ResolveDataPrincipalRequest(call) ==
  Handle(call, Conflict("RequestAlreadyResolved") \o Invalid("RequestRefused") \o Missing("LookupError"), OK, OK)

----------------------------------------------------------------------------
\* The operator's side.

RetentionSweep(dryRun, enabled, call) ==
  IF ~dryRun /\ ~enabled THEN Response(409, {"retention_sweep_disabled"}) ELSE Handle(call, <<>>, OK, OK)
CreateAdminUser(known, call) == IF known THEN Response(409, {"operator already exists"}) ELSE Handle(call, <<>>, OK, OK)
DeleteAdminUser(call) == Handle(call, <<>>, NotFound, OK)
ListUnmappedTerms(call) == Handle(call, Invalid("ValueError"), Empty, OK)
ResolveUnmappedTerm(call) ==
  Handle(call, Conflict("StaleReviewError") \o Conflict("AliasConflictError") \o Missing("LookupError") \o Invalid("ValueError"), OK, OK)

\* A search names features of the registry (Features and Ranking model the masking and the
\* scores); a value that cannot be compared is the caller's error.
TalentSearch(referenced, known, ranked) ==
  IF ~(referenced \subseteq known) THEN Response(400, {"unknown feature"})
  ELSE IF ranked.raised # {} THEN Handle(ranked, Bad("ValueError") \o Bad("KeyError") \o Bad("TypeError"), OK, OK)
  ELSE Response(200, {"ok"})

\* Materialisation counts everyone it was asked for, once.
MaterializeFeatures(view, default, ids, computed, stored) ==
  IF ~(view \subseteq {default}) THEN Response(422, {"unknown view"})
  ELSE [materialized |-> Cardinality({i \in DOMAIN ids : ids[i] \in computed \cap stored}),
        skipped |-> Cardinality({i \in DOMAIN ids : ids[i] \notin computed \cap stored})]
=============================================================================
