----------------------------- MODULE Migrations -----------------------------
(***************************************************************************)
(* The ladder of schema revisions (alembic/versions): what each adds, what *)
(* taking it back removes, and what it does to rows that are there.        *)
(*                                                                         *)
(* A database maps its tables to what is known of them: the columns that   *)
(* refer to rows, that are unique or that a revision reads, adds or        *)
(* writes; the references with what the loss of a row does to them; the    *)
(* unique keys; whether deletions are counted; the rows.  A value is the   *)
(* set of what a column holds, {} for NULL.  Columns that only carry data, *)
(* widths, and indexes that are not unique are left out.                   *)
(***************************************************************************)
EXTENDS Integers, Sequences, FiniteSets, SequencesExt

Null == {}
Cascade(column, to) == [column |-> column, to |-> to, on |-> "cascade", required |-> TRUE]
OptionalCascade(column, to) == [Cascade(column, to) EXCEPT !.required = FALSE]
SetNull(column, to) == [column |-> column, to |-> to, on |-> "set_null", required |-> FALSE]

Create(table, refs, keys, columns) ==
  [kind |-> "create", table |-> table,
   def |-> [refs |-> refs, keys |-> keys, columns |-> columns \cup {r.column : r \in refs}, counted |-> FALSE, rows |-> <<>>]]
Drop(table) == [kind |-> "drop", table |-> table]
AddColumn(table, column, value) == [kind |-> "add_column", table |-> table, column |-> column, value |-> value]
DropColumn(table, column) == [kind |-> "drop_column", table |-> table, column |-> column]
AddRef(table, ref) == [kind |-> "add_ref", table |-> table, ref |-> ref]
DropRef(table, column) == [kind |-> "drop_ref", table |-> table, column |-> column]
AddKey(table, key) == [kind |-> "add_key", table |-> table, key |-> key]
DropKey(table, key) == [kind |-> "drop_key", table |-> table, key |-> key]
Check(condition) == [kind |-> "check", condition |-> condition]
Rewrite(what) == [kind |-> "rewrite", what |-> what]
Revision(up, down) == [up |-> up, down |-> down]

----------------------------------------------------------------------------
\* What the revisions do to rows.

Rows(db, table) == db[table].rows
\* A unique index on an expression has the expression's name.
Indexed(column) == IF column = "lower(name)" THEN "name" ELSE column

\* Names that differ by case only.
CollidingNames(db) ==
  LET names == Rows(db, "organizations")
      lower(o) == {n.lower : n \in names[o].name}
  IN  \E o, p \in DOMAIN names : o # p /\ lower(o) = lower(p)

Referenced(db, item) == item \in DOMAIN Rows(db, "screening_item_inputs")

\* The code before this revision reads the text of an item from the item.
RestoreInput(db) ==
  LET inputs == Rows(db, "screening_item_inputs")
      resumes == Rows(db, "resumes")
      back(i, item) == item.status # {"done"} /\ item.raw_text = {""} /\ Referenced(db, i)
      of(i, column) == UNION {resumes[r][column] : r \in inputs[i].resume_id}
  IN  [db EXCEPT !["batch_items"].rows =
         [i \in DOMAIN @ |-> IF back(i, @[i])
                             THEN [@[i] EXCEPT !.raw_text = of(i, "raw_text"), !.text_sha256 = of(i, "text_sha256")]
                             ELSE @[i]]]

\* Unfinished items with text of their own, or with input whose report is not known, wait
\* for a fresh upload; their text and their input are kept.
Quarantine(db) ==
  LET inputs == Rows(db, "screening_item_inputs")
      unsure(i, item) == item.status # {"done"} /\ (item.raw_text # {""} \/ (Referenced(db, i) /\ inputs[i].report_id = Null))
  IN  [db EXCEPT !["batch_items"].rows =
         [i \in DOMAIN @ |-> IF unsure(i, @[i])
                             THEN [@[i] EXCEPT !.status = {"failed"}, !.error = {"fresh_upload_required"}, !.claimed_at = Null]
                             ELSE @[i]]]

\* What the code before the guard would retry: text under quarantine or from before an erasure.
QuarantinedInput(db) ==
  \E i \in DOMAIN Rows(db, "batch_items") :
    LET item == Rows(db, "batch_items")[i]
        text == item.raw_text # {""}
    IN  /\ item.status # {"done"}
        /\ \/ item.error = {"fresh_upload_required"} /\ (text \/ Referenced(db, i))
           \/ text /\ item.input_generation # Rows(db, "screening_erasure_state")["1"].generation

Counted == {"candidates", "resumes", "reports"}
Install(db) ==
  [t \in DOMAIN db |-> CASE t = "screening_erasure_state" -> [db[t] EXCEPT !.rows = [i \in {"1"} |-> [generation |-> {0}]]]
                         [] t \in Counted -> [db[t] EXCEPT !.counted = TRUE]
                         [] OTHER -> db[t]]
Uninstall(db) == [t \in DOMAIN db |-> [db[t] EXCEPT !.counted = FALSE]]

\* Whoever has, or was recorded to have, logged in: which mailbox was proved is not known.
ReviewLogins(db) ==
  LET sessions == Rows(db, "auth_sessions")
      audits == Rows(db, "audit_log")
      proved(c) == \/ \E s \in DOMAIN sessions : sessions[s].candidate_id = {c}
                   \/ \E a \in DOMAIN audits : audits[a].candidate_id = {c} /\ audits[a].action = {"auth.session.create"}
  IN  [db EXCEPT !["candidates"].rows =
         [c \in DOMAIN @ |-> IF proved(c) THEN [@[c] EXCEPT !.login_binding_review_required = {TRUE}] ELSE @[c]]]

----------------------------------------------------------------------------
\* The ladder.

CandidateStore == Revision(
  <<Create("candidates", {}, {}, {"email_hash", "phone_hash", "full_name"}),
    Create("resumes", {Cascade("candidate_id", "candidates")}, {{"candidate_id", "version"}}, {"version", "raw_text", "text_sha256"}),
    Create("extractions", {Cascade("resume_id", "resumes"), Cascade("candidate_id", "candidates")}, {}, {})>>,
  <<Drop("extractions"), Drop("resumes"), Drop("candidates")>>)

ResumeFingerprints == Revision(
  <<Create("resume_fingerprints", {Cascade("resume_id", "resumes"), Cascade("candidate_id", "candidates")},
           {{"resume_id", "algo"}}, {"algo"})>>,
  <<Drop("resume_fingerprints")>>)

Witnessed == {Cascade("org_id", "organizations"), Cascade("candidate_id", "candidates"), Cascade("consent_id", "consent_grants")}
EvaluationLedger == Revision(
  <<Create("organizations", {}, {{"name"}}, {"name"}),
    Create("consent_grants", {Cascade("candidate_id", "candidates"), OptionalCascade("org_id", "organizations")}, {}, {}),
    Create("interview_records", Witnessed, {}, {}),
    Create("evaluation_events", {Cascade("record_id", "interview_records"), Cascade("candidate_id", "candidates")}, {}, {}),
    Create("audit_log", {OptionalCascade("candidate_id", "candidates")}, {}, {"action", "entity_id"})>>,
  <<Drop("audit_log"), Drop("evaluation_events"), Drop("interview_records"), Drop("consent_grants"), Drop("organizations")>>)

OrgApiKeys == Revision(
  <<AddColumn("organizations", "api_key_hash", Null), AddKey("organizations", {"api_key_hash"})>>,
  <<DropKey("organizations", {"api_key_hash"}), DropColumn("organizations", "api_key_hash")>>)

CodingRoundResults == Revision(<<Create("coding_round_results", Witnessed, {}, {})>>, <<Drop("coding_round_results")>>)

OrgReliabilityWeight == Revision(
  <<AddColumn("organizations", "reliability_weight", Null)>>, <<DropColumn("organizations", "reliability_weight")>>)

Cut == {"as_of", "view_name", "view_version"}
MlFeatureVectors == Revision(
  <<Create("ml_feature_vectors", {Cascade("candidate_id", "candidates")}, {Cut \cup {"candidate_id"}}, Cut)>>,
  <<Drop("ml_feature_vectors")>>)

JobRequisitions == Revision(
  <<Create("job_requisitions", {Cascade("org_id", "organizations")}, {}, {})>>, <<Drop("job_requisitions")>>)

ObservedOffers == Revision(<<Create("observed_offers", Witnessed, {}, {})>>, <<Drop("observed_offers")>>)

ProfileSources == Revision(
  <<Create("profile_sources", {Cascade("candidate_id", "candidates")}, {}, {})>>, <<Drop("profile_sources")>>)

SkillCuration == Revision(<<Create("unmapped_terms", {}, {{"norm_key"}}, {"norm_key"})>>, <<Drop("unmapped_terms")>>)

CandidateCredentials == Revision(
  <<Create("candidate_credentials", {Cascade("candidate_id", "candidates")}, {{"candidate_id"}}, {})>>,
  <<Drop("candidate_credentials")>>)

\* The consent a verification names is not a reference.
IdentityVerification == Revision(
  <<Create("verifications", {Cascade("candidate_id", "candidates")}, {}, {"consent_id"}),
    Create("verification_challenges", {Cascade("verification_id", "verifications")}, {}, {})>>,
  <<Drop("verification_challenges"), Drop("verifications")>>)

VerificationSubject == Revision(
  <<AddColumn("verifications", "subject", {"identity"}), AddColumn("verifications", "claim_ref", Null)>>,
  <<DropColumn("verifications", "claim_ref"), DropColumn("verifications", "subject")>>)

\* Nor is the report an interview is about.
AiInterviews == Revision(
  <<Create("interview_sessions", {Cascade("candidate_id", "candidates")}, {}, {"report_id"}),
    Create("interview_turns", {Cascade("session_id", "interview_sessions")}, {}, {})>>,
  <<Drop("interview_turns"), Drop("interview_sessions")>>)

ReportsOutcomes == Revision(
  <<Create("reports", {OptionalCascade("candidate_id", "candidates")}, {}, {}),
    Create("outcomes", {Cascade("report_id", "reports")}, {}, {})>>,
  <<Drop("outcomes"), Drop("reports")>>)

Scope == {"email_hash", "purpose", "plane"}
AuthIdentity == Revision(
  <<Create("org_users", {Cascade("organization_id", "organizations")}, {{"organization_id", "email_hash"}}, {"email_hash"}),
    Create("admin_users", {}, {{"email_hash"}}, {"email_hash"}),
    Create("auth_sessions", {OptionalCascade("candidate_id", "candidates"), OptionalCascade("org_user_id", "org_users"),
                             OptionalCascade("admin_user_id", "admin_users")}, {{"token_hash"}}, {"token_hash"}),
    Create("login_challenges", {}, {Scope}, Scope)>>,
  <<Drop("login_challenges"), Drop("auth_sessions"), Drop("admin_users"), Drop("org_users")>>)

UploadOwnership == Revision(
  <<AddColumn("resumes", "org_id", Null), AddRef("resumes", SetNull("org_id", "organizations")),
    AddColumn("reports", "org_id", Null), AddRef("reports", SetNull("org_id", "organizations"))>>,
  <<DropRef("reports", "org_id"), DropColumn("reports", "org_id"), DropRef("resumes", "org_id"), DropColumn("resumes", "org_id")>>)

ScreeningBatches == Revision(
  <<Check("colliding_names"),
    Create("screening_batches", {Cascade("org_id", "organizations"), SetNull("created_by_org_user_id", "org_users")}, {}, {}),
    Create("batch_items", {Cascade("batch_id", "screening_batches"), SetNull("candidate_id", "candidates"),
                           SetNull("resume_id", "resumes"), SetNull("report_id", "reports")}, {},
           {"status", "raw_text", "text_sha256", "error", "claimed_at"}),
    AddKey("organizations", {"lower(name)"})>>,
  <<DropKey("organizations", {"lower(name)"}), Drop("batch_items"), Drop("screening_batches")>>)

OutcomeAuthorship == Revision(
  <<AddColumn("outcomes", "recorded_by", {"operator"}), AddColumn("outcomes", "org_id", Null),
    AddColumn("outcomes", "recorded_by_org_user_id", Null), AddRef("outcomes", SetNull("org_id", "organizations")),
    AddRef("outcomes", SetNull("recorded_by_org_user_id", "org_users"))>>,
  <<DropRef("outcomes", "recorded_by_org_user_id"), DropRef("outcomes", "org_id"),
    DropColumn("outcomes", "recorded_by_org_user_id"), DropColumn("outcomes", "org_id"), DropColumn("outcomes", "recorded_by")>>)

Window == {"bucket_key", "window_start"}
RateLimitCounters == Revision(<<Create("rate_limit_counters", {}, {Window}, Window)>>, <<Drop("rate_limit_counters")>>)

DataPrincipalRequests == Revision(
  <<Create("data_principal_requests", {Cascade("candidate_id", "candidates"), SetNull("resolved_by_admin_user_id", "admin_users")},
           {}, {"resolved_by"})>>,
  <<Drop("data_principal_requests")>>)

CorrectionPinsTheName == Revision(
  <<AddColumn("candidates", "full_name_corrected_at", Null)>>, <<DropColumn("candidates", "full_name_corrected_at")>>)

\* The input of an item has the id of the item.
ScreeningRetryInput == Revision(
  <<Create("screening_item_inputs", {Cascade("id", "batch_items"), Cascade("resume_id", "resumes")}, {}, {})>>,
  <<Rewrite("restore_input"), Drop("screening_item_inputs")>>)

ScreeningInputReport == Revision(
  <<AddColumn("screening_item_inputs", "report_id", Null), AddRef("screening_item_inputs", OptionalCascade("report_id", "reports"))>>,
  <<DropRef("screening_item_inputs", "report_id"), DropColumn("screening_item_inputs", "report_id")>>)

ScreeningErasureGuard == Revision(
  <<Create("screening_erasure_state", {}, {}, {"generation"}), AddColumn("batch_items", "input_generation", Null),
    Rewrite("quarantine"), Rewrite("install")>>,
  <<Check("quarantined_input"), Rewrite("uninstall"), DropColumn("batch_items", "input_generation"), Drop("screening_erasure_state")>>)

LoginIssuances == Revision(<<Create("login_issuances", {}, {}, Scope)>>, <<Drop("login_issuances")>>)

OwnedCuration == Revision(
  <<AddColumn("unmapped_terms", "provenance", {"legacy_unattributed"}),
    Create("curation_observations", {Cascade("source_id", "profile_sources")}, {}, {"norm_key"}),
    Create("curation_aliases", {SetNull("admin_user_id", "admin_users")}, {{"norm_key"}}, {"norm_key"})>>,
  <<Drop("curation_aliases"), Drop("curation_observations"), DropColumn("unmapped_terms", "provenance")>>)

CandidateLoginBinding == Revision(
  <<AddColumn("candidates", "login_email_hash", Null), AddColumn("candidates", "login_email_verified_at", Null),
    AddColumn("candidates", "login_binding_review_required", {FALSE}), Rewrite("review_logins"),
    AddKey("candidates", {"login_email_hash"})>>,
  <<DropKey("candidates", {"login_email_hash"}), DropColumn("candidates", "login_binding_review_required"),
    DropColumn("candidates", "login_email_verified_at"), DropColumn("candidates", "login_email_hash")>>)

ScreeningIngestFacts == Revision(
  <<AddColumn("screening_item_inputs", "ingest_facts", Null)>>, <<DropColumn("screening_item_inputs", "ingest_facts")>>)

Ladder ==
  <<CandidateStore, ResumeFingerprints, EvaluationLedger, OrgApiKeys, CodingRoundResults, OrgReliabilityWeight,
    MlFeatureVectors, JobRequisitions, ObservedOffers, ProfileSources, SkillCuration, CandidateCredentials,
    IdentityVerification, VerificationSubject, AiInterviews, ReportsOutcomes, AuthIdentity, UploadOwnership,
    ScreeningBatches, OutcomeAuthorship, RateLimitCounters, DataPrincipalRequests, CorrectionPinsTheName,
    ScreeningRetryInput, ScreeningInputReport, ScreeningErasureGuard, LoginIssuances, OwnedCuration,
    CandidateLoginBinding, ScreeningIngestFacts>>

----------------------------------------------------------------------------
\* Running them.

\* What the database itself refuses of a statement.
Fits(db, op) ==
  CASE op.kind = "create" -> /\ op.table \notin DOMAIN db
                             /\ \A r \in op.def.refs : r.to \in DOMAIN db
                             /\ \A k \in op.def.keys : k \subseteq op.def.columns
    [] op.kind = "drop" -> op.table \in DOMAIN db /\ \A t \in DOMAIN db \ {op.table} : \A r \in db[t].refs : r.to # op.table
    [] op.kind = "add_column" -> op.table \in DOMAIN db /\ op.column \notin db[op.table].columns
    [] op.kind = "drop_column" -> /\ op.column \in db[op.table].columns
                                  /\ \A r \in db[op.table].refs : r.column # op.column
                                  /\ \A k \in db[op.table].keys : op.column \notin {Indexed(c) : c \in k}
    [] op.kind = "add_ref" -> op.ref.column \in db[op.table].columns /\ op.ref.to \in DOMAIN db
    [] op.kind = "drop_ref" -> \E r \in db[op.table].refs : r.column = op.column
    [] op.kind = "add_key" -> {Indexed(c) : c \in op.key} \subseteq db[op.table].columns /\ op.key \notin db[op.table].keys
    [] op.kind = "drop_key" -> op.key \in db[op.table].keys
    [] OTHER -> TRUE

Rewritten(db, what) ==
  CASE what = "restore_input" -> RestoreInput(db)
    [] what = "quarantine" -> Quarantine(db)
    [] what = "install" -> Install(db)
    [] what = "uninstall" -> Uninstall(db)
    [] what = "review_logins" -> ReviewLogins(db)

Done(db, op) ==
  CASE op.kind = "create" -> [t \in DOMAIN db \cup {op.table} |-> IF t = op.table THEN op.def ELSE db[t]]
    [] op.kind = "drop" -> [t \in DOMAIN db \ {op.table} |-> db[t]]
    [] op.kind = "add_column" ->
         LET wide(row) == [c \in DOMAIN row \cup {op.column} |-> IF c = op.column THEN op.value ELSE row[c]]
         IN  [db EXCEPT ![op.table].columns = @ \cup {op.column}, ![op.table].rows = [i \in DOMAIN @ |-> wide(@[i])]]
    [] op.kind = "drop_column" ->
         LET slim(row) == [c \in DOMAIN row \ {op.column} |-> row[c]]
         IN  [db EXCEPT ![op.table].columns = @ \ {op.column}, ![op.table].rows = [i \in DOMAIN @ |-> slim(@[i])]]
    [] op.kind = "add_ref" -> [db EXCEPT ![op.table].refs = @ \cup {op.ref}]
    [] op.kind = "drop_ref" -> [db EXCEPT ![op.table].refs = {r \in @ : r.column # op.column}]
    [] op.kind = "add_key" -> [db EXCEPT ![op.table].keys = @ \cup {op.key}]
    [] op.kind = "drop_key" -> [db EXCEPT ![op.table].keys = @ \ {op.key}]
    [] op.kind = "check" -> db
    [] op.kind = "rewrite" -> Rewritten(db, op.what)

Refuses(db, op) ==
  /\ op.kind = "check"
  /\ CASE op.condition = "colliding_names" -> CollidingNames(db)
       [] op.condition = "quarantined_input" -> QuarantinedInput(db)

\* One statement after the other; what was done before a refusal may stay done (SQLite
\* commits around every change of the schema).
Migrated(db, steps) ==
  LET next(acc, op) == IF acc.refused THEN acc
                       ELSE [db |-> Done(acc.db, op), fits |-> acc.fits /\ Fits(acc.db, op), refused |-> Refuses(acc.db, op)]
  IN  FoldLeft(next, [db |-> db, fits |-> TRUE, refused |-> FALSE], steps)

Upgrade(db, k) == Migrated(db, Ladder[k].up)
Downgrade(db, k) == Migrated(db, Ladder[k].down)

\* From one revision to another, one at a time, until one refuses.
Climb(db, from, to) ==
  FoldLeft(LAMBDA acc, k : IF acc.refused THEN acc ELSE Upgrade(acc.db, k),
           [db |-> db, fits |-> TRUE, refused |-> FALSE], [i \in 1..(to - from) |-> from + i])
Descend(db, from, to) ==
  FoldLeft(LAMBDA acc, k : IF acc.refused THEN acc ELSE Downgrade(acc.db, k),
           [db |-> db, fits |-> TRUE, refused |-> FALSE], [i \in 1..(from - to) |-> from + 1 - i])
Empty == <<>>
LastRevision == Len(Ladder)

----------------------------------------------------------------------------
\* The loss of a row.

Insert(db, table, id, values) ==
  LET value(c) == IF c \in DOMAIN values THEN values[c] ELSE Null
      row == [c \in db[table].columns |-> value(c)]
  IN  [db EXCEPT ![table].rows = [i \in DOMAIN @ \cup {id} |-> IF i = id THEN row ELSE @[i]]]

Pointing(db, rows, on) ==
  UNION {UNION {{<<t, i, r.column>> : i \in {j \in DOMAIN db[t].rows : \E v \in db[t].rows[j][r.column] : <<r.to, v>> \in rows}} :
                r \in {q \in db[t].refs : q.on = on}} : t \in DOMAIN db}

RECURSIVE Lost(_, _)
Lost(db, rows) ==
  LET more == rows \cup {<<p[1], p[2]>> : p \in Pointing(db, rows, "cascade")}
  IN  IF more = rows THEN rows ELSE Lost(db, more)

\* A row goes with all that cascades; other references to what goes are nulled; the rows of
\* the counted tables that go advance the generation.
Delete(db, table, id) ==
  LET lost == Lost(db, {<<table, id>>})
      nulled == Pointing(db, lost, "set_null")
      n == Cardinality({x \in lost : db[x[1]].counted})
      kept(t) == {i \in DOMAIN db[t].rows : <<t, i>> \notin lost}
      left(t, i) == [c \in DOMAIN db[t].rows[i] |->
                       IF <<t, i, c>> \in nulled THEN Null
                       ELSE IF t = "screening_erasure_state" /\ c = "generation" THEN {g + n : g \in db[t].rows[i][c]}
                       ELSE db[t].rows[i][c]]
  IN  [t \in DOMAIN db |-> [db[t] EXCEPT !.rows = [i \in kept(t) |-> left(t, i)]]]

=============================================================================
