------------------------------- MODULE Ledger -------------------------------
(***************************************************************************)
(* The consent ledger: organizations, the grants a person gives, the       *)
(* evidence organizations file under them, and the log of everything that  *)
(* was read.  The store takes no locks: a call reads the grants in one     *)
(* step and writes, or answers, in a later one (READ COMMITTED), and only  *)
(* foreign keys order it with erasure.  A call takes the time before it    *)
(* reads; the serving of feature vectors takes it after.                   *)
(***************************************************************************)
EXTENDS Integers, FiniteSets

CONSTANTS
  Persons, Orgs, Grants, Evidence,   \* row ids, each used once
  Asks,          \* calls in flight or answered
  Nobody,        \* no person, organization, grant or row
  ConsentTTL,    \* ledger_consent_default_ttl_days
  Weights,       \* reliability weights an operator may set
  Horizon        \* bound on the environment's clock

ASSUME LedgerConstantsOK ==
  /\ Nobody \notin Persons \cup Orgs \cup Grants \cup Evidence
  /\ ConsentTTL \in Nat /\ Horizon \in Nat /\ 1 \in Weights

VARIABLES
  today,      \* the clock, in ticks
  people,     \* candidates: "new", "here" or "erased"
  orgs,       \* organizations
  grants,     \* consent_grants
  evidence,   \* interview records, coding rounds, observed offers and events
  accessLog,  \* audit_log rows about a person
  revoking,   \* per grant, the times of the revocations that have read it, not yet written
  asks        \* one record per other call

ledgerVars == <<today, people, orgs, grants, evidence, accessLog, revoking, asks>>

Write == "ledger_write"
Read == "ledger_read"
Never == Horizon + 1         \* a grant not revoked

EvidenceOps == {"record", "coding", "offer"}
QueryOps == {"records", "codings", "reputation"}

NoGrant == [st |-> "free", person |-> Nobody, org |-> Nobody, purpose |-> Read,
            from |-> 0, until |-> 0, revoked |-> Never]
NoOrg == [st |-> "free", key |-> FALSE, weight |-> 1]
NoRow == [st |-> "free", kind |-> "record", org |-> Nobody, person |-> Nobody,
          grant |-> Nobody, parent |-> Nobody]
\* `dead` (history): the grants whose revocation was committed when the call began.
\* `partial` (history): a part of the answer was read after the person was erased.
NoAsk == [st |-> "free", op |-> "record", org |-> Nobody, person |-> Nobody, moment |-> 0,
          under |-> {}, dead |-> {}, partial |-> FALSE, answer |-> "none"]

LedgerInit ==
  /\ today = 0
  /\ people = [p \in Persons |-> "new"]
  /\ orgs = [o \in Orgs |-> NoOrg]
  /\ grants = [g \in Grants |-> NoGrant]
  /\ evidence = [e \in Evidence |-> NoRow]
  /\ accessLog = {}
  /\ revoking = [g \in Grants |-> {}]
  /\ asks = [a \in Asks |-> NoAsk]

Here(p) == p \in Persons /\ people[p] = "here"
Member(o) == o \in Orgs /\ orgs[o].st = "active"
Held(g) == g \in Grants /\ grants[g].st = "held"
LogEntry(p, actor, action, ref) == [person |-> p, actor |-> actor, action |-> action, ref |-> ref]

----------------------------------------------------------------------------
\* Which grants are in force, and which one a decision names.

\* A wrong InWindow: a grant still counts in the second it is revoked.
InWindowAndSecond(g, at) == g.from <= at /\ at < g.until /\ g.revoked >= at

InWindow(g, at) == g.from <= at /\ at < g.until /\ g.revoked > at

IsActive(g, o, purpose, at) ==
  g.st = "held" /\ g.purpose = purpose /\ g.org \in {Nobody, o} /\ InWindow(g, at)

\* _grants_for
GrantsFor(p, purpose) ==
  {g \in Grants : grants[g].st = "held" /\ grants[g].person = p /\ grants[g].purpose = purpose}

\* Grants for one organization before those for any, the latest first; ties by id.
Preferred(S) ==
  {g \in S : \A h \in S :
     \/ grants[g].org # Nobody /\ grants[h].org = Nobody
     \/ (grants[g].org = Nobody) = (grants[h].org = Nobody) /\ grants[g].from >= grants[h].from}

CheckConsent(p, o, purpose, at) ==
  Preferred({g \in GrantsFor(p, purpose) : IsActive(grants[g], o, purpose, at)})

HasAnyActive(p, purpose, at) ==
  Preferred({g \in GrantsFor(p, purpose) : InWindow(grants[g], at)})

\* What the portal shows of a grant.
ConsentState(g, at) ==
  IF g.revoked # Never THEN "revoked" ELSE IF g.until <= at THEN "expired" ELSE "active"

AuditForCandidate(p) == {l \in accessLog : l.person = p}

----------------------------------------------------------------------------
\* Organizations.

CreateOrganization(o) ==
  /\ orgs[o].st = "free"
  /\ orgs' = [orgs EXCEPT ![o].st = "active"]
  /\ UNCHANGED <<today, people, grants, evidence, accessLog, asks, revoking>>

IssueApiKey(o) ==
  /\ Member(o)
  /\ orgs' = [orgs EXCEPT ![o].key = TRUE]
  /\ UNCHANGED <<today, people, grants, evidence, accessLog, asks, revoking>>

AuthenticateOrg(o) == Member(o) /\ orgs[o].key

SetOrgReliability(o, w) ==
  /\ Member(o)
  /\ orgs' = [orgs EXCEPT ![o].weight = w]
  /\ UNCHANGED <<today, people, grants, evidence, accessLog, asks, revoking>>

\* A wrong GoneWith: an organization's grants outlive it.
GoneWithoutGrants(os, ps) ==
  [grants |-> {g \in Grants : Held(g) /\ grants[g].person \in ps},
   evidence |-> {e \in Evidence : /\ evidence[e].st = "held"
                                  /\ evidence[e].org \in os \/ evidence[e].person \in ps}]

\* Foreign keys take away the grants and rows of the organizations or people deleted,
\* the rows under those grants and the events of those rows.
GoneWith(os, ps) ==
  LET gs == {g \in Grants : Held(g) /\ (grants[g].org \in os \/ grants[g].person \in ps)}
      rs == {e \in Evidence : /\ evidence[e].st = "held"
                              /\ \/ evidence[e].org \in os
                                 \/ evidence[e].person \in ps
                                 \/ evidence[e].grant \in gs}
  IN  [grants |-> gs,
       evidence |-> rs \cup {e \in Evidence : evidence[e].st = "held" /\ evidence[e].parent \in rs}]

Cascade(gone) ==
  /\ grants' = [g \in Grants |-> IF g \in gone.grants THEN [NoGrant EXCEPT !.st = "gone"] ELSE grants[g]]
  /\ evidence' = [e \in Evidence |->
                    IF e \in gone.evidence THEN [NoRow EXCEPT !.st = "gone"] ELSE evidence[e]]

DeleteOrganization(o) ==
  /\ Member(o)
  /\ orgs' = [orgs EXCEPT ![o] = [NoOrg EXCEPT !.st = "gone"]]
  /\ Cascade(GoneWith({o}, {}))
  /\ UNCHANGED <<today, people, accessLog, asks, revoking>>

----------------------------------------------------------------------------
\* People and their consent.

Appear(p) ==
  /\ people[p] = "new"
  /\ people' = [people EXCEPT ![p] = "here"]
  /\ UNCHANGED <<today, orgs, grants, evidence, accessLog, asks, revoking>>

\* The portal and the operator erase through one call; the log of a person goes too.
ErasePerson(p) ==
  /\ Here(p)
  /\ people' = [people EXCEPT ![p] = "erased"]
  /\ Cascade(GoneWith({}, {p}))
  /\ accessLog' = {l \in accessLog : l.person # p}
  /\ UNCHANGED <<today, orgs, asks, revoking>>

GrantConsent(g, p, o, purpose, until) ==
  /\ grants[g].st = "free" /\ Here(p) /\ (o = Nobody \/ Member(o))
  /\ grants' = [grants EXCEPT ![g] =
                  [st |-> "held", person |-> p, org |-> o, purpose |-> purpose,
                   from |-> today, until |-> until, revoked |-> Never]]
  /\ accessLog' = accessLog \cup {LogEntry(p, p, "grant", g)}
  /\ UNCHANGED <<today, people, orgs, evidence, asks, revoking>>

\* The operator's call is for any grant, the portal's for one of the person's own.
RevokeCall(g) == Held(g)
PortalRevokeCall(p, g) == Held(g) /\ grants[g].person = p

\* A revocation reads the row, and writes it by its key without a lock.
RevokeRead(g) ==
  /\ RevokeCall(g) \/ \E p \in Persons : PortalRevokeCall(p, g)
  /\ grants[g].revoked = Never
  /\ revoking' = [revoking EXCEPT ![g] = @ \cup {today}]
  /\ UNCHANGED <<today, people, orgs, grants, evidence, accessLog, asks>>

RevokeConsent(g) ==
  /\ \E moment \in revoking[g] :
       /\ revoking' = [revoking EXCEPT ![g] = @ \ {moment}]
       /\ grants' = IF Held(g) THEN [grants EXCEPT ![g].revoked = moment] ELSE grants
  /\ accessLog' = IF Held(g) THEN accessLog \cup {LogEntry(grants[g].person, grants[g].person, "revoke", g)}
                  ELSE accessLog
  /\ UNCHANGED <<today, people, orgs, evidence, asks>>

----------------------------------------------------------------------------
\* Calls.  Each is opened at its route, decides on what it reads, and then commits.

OpenAsk(a, op, o, p, under) ==
  /\ asks[a].st = "free"
  /\ asks' = [asks EXCEPT ![a] =
                [NoAsk EXCEPT !.st = "open", !.op = op, !.org = o, !.person = p, !.moment = today,
                              !.under = under,
                              !.dead = {g \in Grants : Held(g) /\ grants[g].revoked # Never}]]
  /\ UNCHANGED <<today, people, orgs, grants, evidence, accessLog, revoking>>

OrgCall(a, op) ==
  \E o \in Orgs, p \in Persons : AuthenticateOrg(o) /\ people[p] # "new" /\ OpenAsk(a, op, o, p, {})

SubmitRecordCall(a) == OrgCall(a, "record")
SubmitCodingRoundCall(a) == OrgCall(a, "coding")
SubmitOfferCall(a) == OrgCall(a, "offer")
QueryRecordsCall(a) == OrgCall(a, "records")
QueryCodingRoundsCall(a) == OrgCall(a, "codings")
ReputationCall(a) == OrgCall(a, "reputation")

CompCall(a) == \E o \in Orgs : AuthenticateOrg(o) /\ OpenAsk(a, "comp", o, Nobody, {})

\* Only the organization that filed a record may append an event to it.
EventCall(a) ==
  \E o \in Orgs, e \in Evidence :
    /\ AuthenticateOrg(o)
    /\ evidence[e].st = "held" /\ evidence[e].kind = "record" /\ evidence[e].org = o
    /\ OpenAsk(a, "event", o, evidence[e].person, {e})

\* A materialization, an export that labels, and the serving of vectors to an operator.
PlatformCall(a) ==
  \E p \in Persons, op \in {"materialize", "label", "serve"} :
    people[p] # "new" /\ OpenAsk(a, op, Nobody, p, {})

\* An employer is served the vectors of its matches: only grants to it count.
EmployerServe(a) ==
  \E o \in Orgs, p \in Persons : AuthenticateOrg(o) /\ people[p] # "new" /\ OpenAsk(a, "serve", o, p, {})

\* The portal's views of oneself: all the data, the access log, the consents.
PortalViewCall(a) == \E p \in Persons : Here(p) /\ OpenAsk(a, "view", Nobody, p, {})

Close(a, answer, under) ==
  asks' = [asks EXCEPT ![a] = [NoAsk EXCEPT !.st = "done", !.op = asks[a].op, !.person = asks[a].person,
                                            !.dead = asks[a].dead, !.partial = asks[a].partial,
                                            !.under = under, !.answer = answer]]
Checked(a, under) == asks' = [asks EXCEPT ![a].st = "checked", ![a].under = under]
AtStage(a, st, ops) == asks[a].st = st /\ asks[a].op \in ops

\* Evidence is filed under a grant to write, found before the row is inserted.
SubmitCheck(a) ==
  LET c == asks[a]
      best == CheckConsent(c.person, c.org, Write, c.moment)
  IN  /\ AtStage(a, "open", EvidenceOps)
      /\ IF ~Member(c.org) \/ ~Here(c.person) THEN Close(a, "404", {})
         ELSE IF best = {} THEN Close(a, "403", {})
         ELSE \E g \in best : Checked(a, {g})
      /\ UNCHANGED <<today, people, orgs, grants, evidence, accessLog, revoking>>

\* The insert fails when a row it refers to has gone.
SubmitCommit(a, kind) ==
  LET c == asks[a] IN
  /\ AtStage(a, "checked", {kind})
  /\ \E g \in c.under :
       \/ /\ Member(c.org) /\ Here(c.person) /\ Held(g)
          /\ \E e \in Evidence :
               /\ evidence[e].st = "free"
               /\ evidence' = [evidence EXCEPT ![e] =
                     [NoRow EXCEPT !.st = "held", !.kind = kind, !.org = c.org,
                                   !.person = c.person, !.grant = g]]
               /\ accessLog' = accessLog \cup {LogEntry(c.person, c.org, kind, a)}
          /\ Close(a, "ok", {g})
       \/ /\ ~(Member(c.org) /\ Here(c.person) /\ Held(g))
          /\ Close(a, "500", {})
          /\ UNCHANGED <<evidence, accessLog>>
  /\ UNCHANGED <<today, people, orgs, grants, revoking>>

SubmitInterviewRecord(a) == SubmitCommit(a, "record")
SubmitCodingRound(a) == SubmitCommit(a, "coding")
SubmitObservedOffer(a) == SubmitCommit(a, "offer")

AppendEvent(a) ==
  LET c == asks[a] IN
  /\ AtStage(a, "open", {"event"})
  /\ \E r \in c.under :
       \/ /\ evidence[r].st = "held"
          /\ \E e \in Evidence :
               /\ evidence[e].st = "free"
               /\ evidence' = [evidence EXCEPT ![e] =
                     [NoRow EXCEPT !.st = "held", !.kind = "event", !.org = c.org,
                                   !.person = evidence[r].person, !.parent = r]]
          /\ accessLog' = accessLog \cup {LogEntry(evidence[r].person, c.org, "event", a)}
          /\ Close(a, "ok", {})
       \/ /\ evidence[r].st = "gone"
          /\ Close(a, "404", {})
          /\ UNCHANGED <<evidence, accessLog>>
  /\ UNCHANGED <<today, people, orgs, grants, revoking>>

\* A read is decided on the grants, and what was decided is logged either way.
QueryCheck(a) ==
  LET c == asks[a]
      best == CheckConsent(c.person, c.org, Read, c.moment)
  IN  /\ AtStage(a, "open", QueryOps)
      /\ IF ~Member(c.org) \/ ~Here(c.person) THEN Close(a, "404", {})
         ELSE IF best = {} THEN Checked(a, {})
         ELSE \E g \in best : Checked(a, {g})
      /\ UNCHANGED <<today, people, orgs, grants, evidence, accessLog, revoking>>

\* The log row refers to the person, and nothing is answered unless it is kept.
QueryCommit(a, op) ==
  LET c == asks[a] IN
  /\ AtStage(a, "checked", {op})
  /\ \/ /\ Here(c.person)
        /\ accessLog' = accessLog \cup {LogEntry(c.person, c.org, op, a)}
        /\ Close(a, IF c.under = {} THEN "403" ELSE "ok", c.under)
     \/ /\ ~Here(c.person)
        /\ Close(a, "500", {})
        /\ UNCHANGED accessLog
  /\ UNCHANGED <<today, people, orgs, grants, evidence, revoking>>

QueryRecordsForOrg(a) == QueryCommit(a, "records")
QueryCodingRoundsForOrg(a) == QueryCommit(a, "codings")
ReputationForOrg(a) == QueryCommit(a, "reputation")

\* Offers whose own grant no longer holds are left out of the figures.
ObservedOffersForComp(a) ==
  LET c == asks[a]
      offers == {e \in Evidence : evidence[e].st = "held" /\ evidence[e].kind = "offer"}
      counted == {e \in offers : IsActive(grants[evidence[e].grant], evidence[e].org, Write, c.moment)}
  IN  /\ AtStage(a, "open", {"comp"})
      /\ Close(a, "ok", {evidence[e].grant : e \in counted})
      /\ UNCHANGED <<today, people, orgs, grants, evidence, accessLog, revoking>>

\* Materialization may use what the person opened to anyone.
MaterializationCheck(a) ==
  LET c == asks[a]
      best == HasAnyActive(c.person, Read, c.moment)
  IN  /\ AtStage(a, "open", {"materialize"})
      /\ IF ~Here(c.person) THEN Close(a, "missing", {})
         ELSE IF best = {} THEN Checked(a, {})
         ELSE \E g \in best : Checked(a, {g})
      /\ UNCHANGED <<today, people, orgs, grants, evidence, accessLog, revoking>>

PlatformAudit(a, answer) ==
  LET c == asks[a] IN
  /\ \/ /\ Here(c.person)
        /\ accessLog' = accessLog \cup {LogEntry(c.person, Nobody, c.op, a)}
        /\ Close(a, answer, c.under)
     \/ /\ ~Here(c.person)
        /\ Close(a, "missing", {})
        /\ UNCHANGED accessLog
  /\ UNCHANGED <<today, people, orgs, grants, evidence, revoking>>

MaterializationConsent(a) ==
  AtStage(a, "checked", {"materialize"}) /\ PlatformAudit(a, IF asks[a].under = {} THEN "withheld" ELSE "ok")

AuditTrainingLabel(a) == AtStage(a, "open", {"label"}) /\ PlatformAudit(a, "labelled")

\* Consent for present use is read afresh, and the time taken after it was read.
CurrentConsent(a) ==
  LET c == asks[a]
      best == IF c.org = Nobody THEN HasAnyActive(c.person, Read, today)
              ELSE CheckConsent(c.person, c.org, Read, today)
  IN  /\ AtStage(a, "open", {"serve"})
      /\ IF best = {} THEN Close(a, "masked", {}) ELSE \E g \in best : Close(a, "ok", {g})
      /\ UNCHANGED <<today, people, orgs, grants, evidence, accessLog, revoking>>

\* A view of oneself is read part by part, and answered when the person is still there
\* after the last part.
ReadPart(a) ==
  /\ AtStage(a, "open", {"view"})
  /\ asks' = [asks EXCEPT ![a].st = "checked", ![a].partial = ~Here(asks[a].person)]
  /\ UNCHANGED <<today, people, orgs, grants, evidence, accessLog, revoking>>

\* A wrong RequireCandidate: the parts that were read are shown without a last look.
ShowsWhatWasRead(a) == Close(a, "ok", {})

RequireCandidate(a) == Close(a, IF Here(asks[a].person) THEN "ok" ELSE "404", {})

ShowView(a) ==
  /\ AtStage(a, "checked", {"view"})
  /\ RequireCandidate(a)
  /\ UNCHANGED <<today, people, orgs, grants, evidence, accessLog, revoking>>

LedgerTick ==
  /\ today < Horizon
  /\ today' = today + 1
  /\ UNCHANGED <<people, orgs, grants, evidence, accessLog, asks, revoking>>

----------------------------------------------------------------------------
LedgerAdmin ==
  \E o \in Orgs :
    \/ CreateOrganization(o)
    \/ IssueApiKey(o)
    \/ DeleteOrganization(o)
    \/ \E w \in Weights : SetOrgReliability(o, w)

LedgerPeople ==
  \E p \in Persons :
    \/ Appear(p)
    \/ ErasePerson(p)
    \/ \E g \in Grants : RevokeRead(g) \/ RevokeConsent(g)
    \/ \E g \in Grants, o \in Orgs \cup {Nobody}, purpose \in {Read, Write},
          until \in {today + ConsentTTL, today + 1} : GrantConsent(g, p, o, purpose, until)

AskStart(a) ==
  \/ SubmitRecordCall(a) \/ SubmitCodingRoundCall(a) \/ SubmitOfferCall(a)
  \/ QueryRecordsCall(a) \/ QueryCodingRoundsCall(a) \/ ReputationCall(a)
  \/ CompCall(a) \/ EventCall(a) \/ PlatformCall(a) \/ EmployerServe(a)
  \/ PortalViewCall(a)

AskStep(a) ==
  \/ SubmitCheck(a)
  \/ SubmitInterviewRecord(a)
  \/ SubmitCodingRound(a)
  \/ SubmitObservedOffer(a)
  \/ AppendEvent(a)
  \/ QueryCheck(a)
  \/ QueryRecordsForOrg(a)
  \/ QueryCodingRoundsForOrg(a)
  \/ ReputationForOrg(a)
  \/ ObservedOffersForComp(a)
  \/ MaterializationCheck(a)
  \/ MaterializationConsent(a)
  \/ AuditTrainingLabel(a)
  \/ CurrentConsent(a)
  \/ ReadPart(a)
  \/ ShowView(a)

LedgerNext ==
  \/ LedgerTick
  \/ LedgerAdmin
  \/ LedgerPeople
  \/ \E a \in Asks : AskStart(a) \/ AskStep(a)

LedgerSpec == LedgerInit /\ [][LedgerNext]_ledgerVars

----------------------------------------------------------------------------
\* A call that began after a revocation was answered neither writes, reads, counts,
\* materializes nor serves under that grant: the checks read without a lock, a
\* second revocation overwrites the first one's time, and the clock may not have
\* moved in between (`is_grant_active`, `revoke_consent`).
RevocationHonoured ==
  \A a \in Asks : asks[a].answer = "ok" => asks[a].under \cap asks[a].dead = {}

\* Nothing is kept of an erased person or a deleted organization, whichever of a
\* call's two steps the erasure fell between; and every row stands under a grant
\* of the same person that covered the organization that filed it.  What the portal
\* shows as an active grant is what the checks would use.
LedgerHolds ==
  /\ \A g \in Grants : Held(g) =>
       /\ Here(grants[g].person) /\ (grants[g].org = Nobody \/ Member(grants[g].org))
       /\ (ConsentState(grants[g], today) = "active") = InWindow(grants[g], today)
  /\ \A l \in accessLog : Here(l.person)
  /\ \A e \in Evidence : evidence[e].st = "held" =>
       /\ Here(evidence[e].person) /\ Member(evidence[e].org)
       /\ IF evidence[e].kind = "event"
          THEN evidence[evidence[e].parent].st = "held"
          ELSE /\ Held(evidence[e].grant)
               /\ grants[evidence[e].grant].person = evidence[e].person
               /\ grants[evidence[e].grant].org \in {Nobody, evidence[e].org}
               /\ grants[evidence[e].grant].purpose = Write

\* A query, a materialization or a label that was answered about a person, with data or
\* with a refusal, stands in that person's log for as long as the person does; and a
\* person is never shown a view of themselves of which a part was read after their
\* erasure.
AnswersAreWitnessed ==
  \A a \in Asks : asks[a].answer \in {"ok", "403", "withheld", "labelled"} =>
    /\ asks[a].op \in QueryOps \cup {"materialize", "label"} /\ Here(asks[a].person) =>
         \E l \in AuditForCandidate(asks[a].person) : l.ref = a
    /\ ~asks[a].partial

=============================================================================
