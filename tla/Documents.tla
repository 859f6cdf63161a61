------------------------------ MODULE Documents ------------------------------
(***************************************************************************)
(* Documents offered as proof of a job: which may be offered, what is read *)
(* of them, what the reading finds, and what the outcomes add up to, for   *)
(* the candidate and for an organization that asks.                        *)
(***************************************************************************)
EXTENDS Fabrication, Normalize

----------------------------------------------------------------------------
\* Methods.  Two ladders share one table of outcomes: who somebody is, and what they did.

Identity == {"self_attested", "otp_email", "otp_phone", "manual_review", "government_id"}
METHOD_SUBJECT == [m \in Identity \cup {"experience_letter", "payslip", "epfo_employment"} |->
                     IF m \in Identity THEN "identity" ELSE "employment_claim"]
METHOD_LEVEL == [self_attested |-> 1, otp_email |-> 2, otp_phone |-> 2, manual_review |-> 3, government_id |-> 4]
METHOD_CLAIM_STRENGTH == [experience_letter |-> 2, payslip |-> 2, epfo_employment |-> 4]

\* What a method has said of itself; what it has not said is refused.
Adapter(m) ==
  [selfService |-> m # "manual_review", implemented |-> m \notin {"government_id", "epfo_employment"},
   thirdParty |-> m \in {"government_id", "epfo_employment"}, document |-> m \in {"experience_letter", "payslip"}]

\* The gates of a submission, asked before the document is read and again after; `request`
\* tells what is true when they are asked.
PrepareDocument(request, method) ==
  LET a == Adapter(method) IN
  CASE ~request.known -> "lookup_error"
    [] request.known /\ (request.tooBig \/ request.longLabel) -> "too_large"
    [] request.known /\ ~(request.tooBig \/ request.longLabel) /\ ~a.selfService -> "not_permitted"
    [] request.known /\ ~(request.tooBig \/ request.longLabel) /\ a.selfService /\ ~a.implemented -> "not_implemented"
    [] request.known /\ ~(request.tooBig \/ request.longLabel) /\ a.selfService /\ a.implemented ->
         IF ~a.document THEN "not_permitted" ELSE IF a.thirdParty /\ ~request.consent THEN "consent_error" ELSE "ok"

\* An outcome is written only after the gates held twice and the text was read and judged.
SubmitDocument(before, after, method, parsed, assessment) ==
  IF PrepareDocument(before, method) # "ok" THEN [result |-> PrepareDocument(before, method), row |-> {}]
  ELSE IF parsed = {} THEN [result |-> "parse_error", row |-> {}]
  ELSE IF PrepareDocument(after, method) # "ok" THEN [result |-> PrepareDocument(after, method), row |-> {}]
  ELSE [result |-> "ok", row |-> {[method |-> method, subject |-> METHOD_SUBJECT[method], status |-> assessment.status,
                                   findings |-> assessment.findings, expires |-> {}]}]

\* A code is sent only to the contact on file, compared by its hash.
BindDestination(channel, destination, onFile) ==
  LET normal == IF channel = "email" THEN destination ELSE UNION {NormalizePhone(p) : p \in destination}
  IN  CASE destination = {} -> "destination_required"
        [] destination # {} /\ normal = {} -> "not_a_contact"
        [] normal # {} /\ onFile = {} -> "none_on_file"
        [] normal # {} /\ onFile # {} -> IF normal = onFile THEN "ok" ELSE "mismatch"

----------------------------------------------------------------------------
\* Reading.  What is not a PDF is a text.

ParseDocument(doc, maxPages) ==
  CASE doc.tooBig \/ ~doc.base64 \/ doc.empty -> {}
    [] ~(doc.tooBig \/ ~doc.base64 \/ doc.empty) /\ doc.pdf -> IF doc.readable /\ doc.pages <= maxPages THEN {doc.text} ELSE {}
    [] ~(doc.tooBig \/ ~doc.base64 \/ doc.empty) /\ ~doc.pdf -> IF doc.blank THEN {} ELSE {doc.text}

----------------------------------------------------------------------------
\* Forensics.  A text has the spellings of employers and the titles found in it, its months,
\* what is stated of an issuer, the first amount of each label, and a file's dates.

Noted(id, severity) == [id |-> id, severity |-> severity]
Note(holds, id, severity) == IF holds THEN {Noted(id, severity)} ELSE {}

MetadataFindings(text, skew) ==
  Note(text.created # {} /\ text.modified # {} /\ \A c \in text.created, m \in text.modified : m - c > skew,
       "metadata_modified_after_creation", "soft")
    \cup Note(text.producer, "metadata_producer_present", "info")

\* One employer's spellings worth comparing.
EmployerKeys(legal, name) == {name, StripLegalSuffix(legal, name)} \ {<<>>}

\* That a profile of the candidate's own says the same is worth a word and no strength.
CorroborationFindings(legal, matched, others) ==
  LET known == UNION {EmployerKeys(legal, n) : n \in others}
      agrees == EmployerKeys(legal, matched) \cap known # {}
  IN  IF others = {} THEN {}
      ELSE {Noted(IF agrees THEN "employer_corroborated_by_profile_source" ELSE "employer_absent_from_profile_source", "info")}

\* The first role whose employer, in any of its spellings, is found in the text.
MatchEmployer(tables, roles, text) ==
  LET spellings(r) ==
        (EmployerKeys(tables.legal, r.employer)
           \cup (IF r.canonical # {} THEN r.canonical ELSE CanonicalizeEmployer(tables.employers, tables.legal, r.employer))) \ {<<>>}
      named == {i \in DOMAIN roles : spellings(roles[i]) \cap text.names # {}}
  IN  {i \in named : \A j \in named : i <= j}

\* The span of the months the text mentions against the claimed role; an unclear role or no
\* month at all decides nothing.
OutsideRole(role, text, today) ==
  /\ text.months # {} /\ NarrowInterval(role.dates, today) # {}
  /\ OverlapMonths(<<Min(text.months), Max(text.months)>>, The(NarrowInterval(role.dates, today))) = 0

Assessed(status, findings) == [status |-> status, strength |-> IF status = "verified" THEN 2 ELSE 0, findings |-> findings]

\* The end of both kinds: who the employer is, and then when.
AgainstProfile(tables, roles, text, others, today, outside, extra(_), found) ==
  LET matched == MatchEmployer(tables, roles, text)
      role == roles[CHOOSE i \in matched : TRUE]
  IN  IF roles = <<>> THEN Assessed("verified", found \cup {Noted("no_profile_to_compare", "info")})
      ELSE IF matched = {} THEN Assessed("failed", found \cup {Noted("employer_not_claimed", "hard")})
      ELSE IF OutsideRole(role, text, today) THEN Assessed("failed", found \cup {Noted(outside, "hard")})
      ELSE Assessed("verified", found \cup extra(role) \cup CorroborationFindings(tables.legal, role.employer, others))

AssessExperienceLetter(tables, roles, text, others, today, skew) ==
  AgainstProfile(tables, roles, text, others, today, "letter_dates_mismatch",
    LAMBDA role : Note(role.name # {} /\ role.name \cap text.titles = {}, "designation_mismatch", "soft"),
    Note(~text.email, "issuer_domain_unknown", "soft") \cup Note(~text.employeeId, "no_employee_id", "soft")
      \cup Note(~text.signatory, "no_signatory", "soft") \cup MetadataFindings(text, skew))

\* Amounts are good for one subtraction, within a rupee, and for nothing else.
AmountsReadable(text) == {"gross", "deductions", "net"} \subseteq DOMAIN text.amounts
AmountsDisagree(text) ==
  LET gap == text.amounts.gross - text.amounts.deductions - text.amounts.net IN gap > 1 \/ gap < -1
AssessPayslip(tables, roles, text, others, today, skew) ==
  LET found == Note(text.uan, "uan_present", "info") \cup MetadataFindings(text, skew)
  IN  IF AmountsReadable(text) /\ AmountsDisagree(text)
      THEN Assessed("failed", found \cup {Noted("payslip_arithmetic_mismatch", "hard")})
      ELSE AgainstProfile(tables, roles, text, others, today, "payslip_period_outside_role", LAMBDA role : {},
             found \cup Note(~AmountsReadable(text), "payslip_amounts_unreadable", "soft"))

Assess(method, tables, roles, text, others, today, skew) ==
  IF method = "payslip" THEN AssessPayslip(tables, roles, text, others, today, skew)
  ELSE AssessExperienceLetter(tables, roles, text, others, today, skew)

----------------------------------------------------------------------------
\* Outcomes.  A row is valid until its expiry, which is only ever computed when it is read.

EffectiveStatus(row, at) == IF row.status = "verified" /\ \E e \in row.expires : e <= at THEN "expired" ELSE row.status
Highest0(S) == Max(S \cup {0})

\* Rows of the other ladder, and methods of none, contribute nothing.
ComputeAssurance(rows, at) ==
  LET own == {r \in rows : r.subject = "identity" /\ r.method \in DOMAIN METHOD_LEVEL}
      held == {r.method : r \in {x \in own : EffectiveStatus(x, at) = "verified"}}
  IN  [level |-> Highest0({METHOD_LEVEL[m] : m \in held}), methods |-> held,
       expired |-> {r.method : r \in {x \in own : EffectiveStatus(x, at) = "expired"}} \ held]

\* Findings of failed documents are shown too: they are why.
ComputeClaimEvidence(rows, at, concurrent) ==
  LET own == {r \in rows : r.subject = "employment_claim"}
      held == {r.method : r \in {x \in own : EffectiveStatus(x, at) = "verified"}}
  IN  [strength |-> Highest0({METHOD_CLAIM_STRENGTH[m] : m \in held \cap DOMAIN METHOD_CLAIM_STRENGTH}),
       documents |-> held \cap {"experience_letter", "payslip"},
       findings |-> UNION {r.findings : r \in own}, concurrent |-> concurrent]

\* An organization's look, under the candidate's consent and always on the record: both
\* when it is allowed and when it is not, and in the transaction that answers.
AssuranceForOrg(orgKnown, candidateKnown, consent, rows, at) ==
  IF ~(orgKnown /\ candidateKnown) THEN [answer |-> {}, audit |-> <<>>]
  ELSE IF ~consent THEN [answer |-> {}, audit |-> <<[action |-> "verification.query", allowed |-> FALSE]>>]
  ELSE [answer |-> {ComputeAssurance(rows, at)}, audit |-> <<[action |-> "verification.query", allowed |-> TRUE]>>]
ClaimsForOrg(orgKnown, candidateKnown, consent, rows, at, concurrent) ==
  IF ~(orgKnown /\ candidateKnown) THEN [answer |-> {}, audit |-> <<>>]
  ELSE IF ~consent THEN [answer |-> {}, audit |-> <<[action |-> "claim.query", allowed |-> FALSE]>>]
  ELSE [answer |-> {ComputeClaimEvidence(rows, at, concurrent)}, audit |-> <<[action |-> "claim.query", allowed |-> TRUE]>>]

=============================================================================
