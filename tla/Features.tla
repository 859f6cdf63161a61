------------------------------ MODULE Features ------------------------------
(***************************************************************************)
(* Feature vectors: computed for a person at a cut in time, stored one per *)
(* cut, and used by searches, view exports and training exports.  Values   *)
(* drawn from the consent ledger are gated: stored only under a grant that *)
(* covered the cut, and used only under one that holds now.  A label comes *)
(* from outcomes after the cut, and is built from several reads between    *)
(* which consent is revoked, outcomes arrive and people are erased.        *)
(***************************************************************************)
EXTENDS Integers, FiniteSets

CONSTANTS
  Talents,       \* candidates
  Outcomes,      \* row ids of interview records
  Builds,        \* materializations, each made once
  Uses,          \* searches and exports, each made once
  Unknown,       \* no value
  LastCut        \* bound on the clock

ASSUME FeatureConstantsOK ==
  /\ LastCut \in Nat /\ IsFiniteSet(Outcomes)
  /\ Unknown \notin Talents /\ Unknown \notin Int

VARIABLES
  moment,     \* the clock
  talents,    \* candidates that are still there
  permits,    \* ledger_read grants: when each was granted, ends and was revoked, or
              \* Unknown, and whether it covers the organization that exports ask for
  outcomes,   \* interview_records: person, day and result
  vectors,    \* ml_feature_vectors, by person and cut
  builds,
  uses

featureVars == <<moment, talents, permits, outcomes, vectors, builds, uses>>

Cuts == 0..LastCut
Ends == 0..LastCut + 1    \* a grant may end at once, or after all that happens
Results == {"hired", "rejected", "withdrawn"}
NoPermit == [granted |-> Unknown, ends |-> 0, covers |-> FALSE, revoked |-> Unknown]
NoOutcome == [who |-> Unknown, on |-> 0, result |-> "rejected"]
NoVector == [st |-> "none", allowed |-> FALSE, plain |-> 0, gated |-> Unknown, seen |-> {}]
NoBuild == [st |-> "free", who |-> Unknown, cut |-> 0, vector |-> NoVector, update |-> FALSE]
\* `scoped` is a call for one organization, not for the platform; `label` are the
\* outcomes fetched, then those the label rests on; `dead` and `gone` (history): the
\* grant was spent for this call, the person erased, before the last call began.
NoUse == [st |-> "free", kind |-> "search", scoped |-> FALSE, who |-> Unknown, cut |-> 0, vector |-> NoVector,
          allowed |-> FALSE, label |-> Unknown, dead |-> FALSE, gone |-> FALSE]

FeatureInit ==
  /\ moment = 0
  /\ talents = Talents
  /\ permits = [p \in Talents |-> NoPermit]
  /\ outcomes = [e \in Outcomes |-> NoOutcome]
  /\ vectors = [p \in Talents |-> [c \in Cuts |-> NoVector]]
  /\ builds = [m \in Builds |-> NoBuild]
  /\ uses = [u \in Uses |-> NoUse]

\* has_any_active, or check_consent for an organization, over the one grant a person
\* gives here; erasure takes it away.
Permitted(p, at, scoped) ==
  /\ permits[p].granted # Unknown /\ permits[p].granted <= at
  /\ at < permits[p].ends
  /\ scoped => permits[p].covers
  /\ permits[p].revoked = Unknown \/ permits[p].revoked > at

Revoked(p) == permits[p].revoked # Unknown

\* The grant was revoked, has ended, or is for somebody else: it permits no more.
Spent(p, scoped) ==
  \/ Revoked(p)
  \/ permits[p].granted # Unknown /\ (permits[p].ends <= moment \/ (scoped /\ ~permits[p].covers))

RecordsOf(p) == {e \in Outcomes : outcomes[e].who = p}

----------------------------------------------------------------------------
\* The world: grants, outcomes (which may be dated back), erasure.

\* An end that is already past is as good as one that is now.
Permit(p, ends, covers) ==
  /\ p \in talents /\ permits[p] = NoPermit /\ ends >= moment
  /\ permits' = [permits EXCEPT ![p] = [granted |-> moment, ends |-> ends, covers |-> covers, revoked |-> Unknown]]
  /\ UNCHANGED <<moment, talents, outcomes, vectors, builds, uses>>

Withdraw(p) ==
  /\ permits[p].granted # Unknown /\ ~Revoked(p)
  /\ permits' = [permits EXCEPT ![p].revoked = moment]
  /\ UNCHANGED <<moment, talents, outcomes, vectors, builds, uses>>

FileOutcome(e, p, on, result) ==
  /\ outcomes[e].who = Unknown /\ p \in talents /\ on <= moment
  /\ outcomes' = [outcomes EXCEPT ![e] = [who |-> p, on |-> on, result |-> result]]
  /\ UNCHANGED <<moment, talents, permits, vectors, builds, uses>>

EraseTalent(p) ==
  /\ p \in talents
  /\ talents' = talents \ {p}
  /\ permits' = [permits EXCEPT ![p] = [NoPermit EXCEPT !.revoked = moment]]
  /\ outcomes' = [e \in Outcomes |-> IF outcomes[e].who = p THEN NoOutcome ELSE outcomes[e]]
  /\ vectors' = [vectors EXCEPT ![p] = [c \in Cuts |-> NoVector]]
  /\ UNCHANGED <<moment, builds, uses>>

----------------------------------------------------------------------------
\* materialize_candidate: context, values, consent, upsert.

\* A cut may lie ahead.
BeginBuild(m, p, cut) ==
  /\ builds[m].st = "free"
  /\ builds' = [builds EXCEPT ![m] =
       [NoBuild EXCEPT !.st = IF p \in talents THEN "context" ELSE "skipped", !.who = p, !.cut = cut]]
  /\ UNCHANGED <<moment, talents, permits, outcomes, vectors, uses>>

\* Only what was visible at the cut: plain features, and a gated count of records.
BuildContext(m) ==
  LET b == builds[m]
      seen == {e \in RecordsOf(b.who) : outcomes[e].on <= b.cut}
  IN  /\ b.st = "context"
      /\ builds' = [builds EXCEPT ![m].st = "computed",
                      ![m].vector = [st |-> "computed", allowed |-> FALSE, plain |-> 1,
                                     gated |-> Cardinality(seen), seen |-> seen]]
      /\ UNCHANGED <<moment, talents, permits, outcomes, vectors, uses>>

Masked(v) == [v EXCEPT !.gated = Unknown, !.seen = {}]
MaskUnless(allowed, v) == IF allowed THEN v ELSE Masked(v)

\* A wrong ApplyConsent: consent as of today for a vector as of the cut.
ConsentOfToday(m) ==
  LET b == builds[m]
      allowed == Permitted(b.who, moment, FALSE)
  IN  /\ b.st = "computed"
      /\ builds' = [builds EXCEPT
           ![m].st = IF b.who \in talents THEN "decided" ELSE "skipped",
           ![m].vector = MaskUnless(allowed, [@ EXCEPT !.st = "stored", !.allowed = allowed])]
      /\ UNCHANGED <<moment, talents, permits, outcomes, vectors, uses>>

\* Consent as of the cut; an erased subject is skipped, never merely denied.
ApplyConsent(m) ==
  LET b == builds[m]
      allowed == Permitted(b.who, b.cut, FALSE)
  IN  /\ b.st = "computed"
      /\ builds' = [builds EXCEPT
           ![m].st = IF b.who \in talents THEN "decided" ELSE "skipped",
           ![m].vector = MaskUnless(allowed, [@ EXCEPT !.st = "stored", !.allowed = allowed])]
      /\ UNCHANGED <<moment, talents, permits, outcomes, vectors, uses>>

LookUpVector(m) ==
  /\ builds[m].st = "decided"
  /\ builds' = [builds EXCEPT ![m].st = "saving",
                              ![m].update = vectors[builds[m].who][builds[m].cut].st = "stored"]
  /\ UNCHANGED <<moment, talents, permits, outcomes, vectors, uses>>

\* Insert or update: one row per cut, none for an erased person.
UpsertVector(m) ==
  LET b == builds[m]
      stored == vectors[b.who][b.cut].st = "stored"
  IN  /\ b.st = "saving"
      /\ \/ /\ b.who \notin talents
            /\ builds' = [builds EXCEPT ![m] = [NoBuild EXCEPT !.st = "skipped"]]
            /\ UNCHANGED vectors
         \/ /\ b.who \in talents /\ b.update = stored
            /\ vectors' = [vectors EXCEPT ![b.who][b.cut] = b.vector]
            /\ builds' = [builds EXCEPT ![m] = [NoBuild EXCEPT !.st = "saved"]]
         \/ /\ b.who \in talents /\ b.update # stored
            /\ builds' = [builds EXCEPT ![m] = [NoBuild EXCEPT !.st = "failed"]]
            /\ UNCHANGED vectors
      /\ UNCHANGED <<moment, talents, permits, outcomes, uses>>

----------------------------------------------------------------------------
\* Uses.  Each reads a vector first, and is answered some reads later.

\* The latest vector at or before the cut asked for.
LatestAt(p, cut) ==
  {c \in Cuts : /\ c <= cut /\ vectors[p][c].st = "stored"
                /\ \A d \in Cuts : d <= cut /\ vectors[p][d].st = "stored" => d <= c}

\* What is true of a person when a call that answers begins.
Called(x) == [x EXCEPT !.dead = Spent(x.who, x.scoped), !.gone = x.who \notin talents]

\* The row of a cut, for a search that begins or kept for exports to come.
TakeVector(u, kind, p, cut) ==
  LET row == [NoUse EXCEPT !.kind = kind, !.who = p, !.cut = cut, !.vector = vectors[p][cut]] IN
  /\ uses[u].st = "free" /\ vectors[p][cut].st = "stored"
  /\ uses' = [uses EXCEPT ![u] = IF kind = "search" THEN Called([row EXCEPT !.st = "mask"])
                                                     ELSE [row EXCEPT !.st = "kept"]]
  /\ UNCHANGED <<moment, talents, permits, outcomes, vectors, builds>>

Search(u) == \E p \in Talents, asked \in Cuts : \E cut \in LatestAt(p, asked) : TakeVector(u, "search", p, cut)
KeepRow(u) == \E p \in Talents, cut \in Cuts, kind \in {"view", "training"} : TakeVector(u, kind, p, cut)

SetUse(u, use) == uses' = [uses EXCEPT ![u] = use] /\ UNCHANGED <<moment, talents, permits, outcomes, vectors, builds>>

\* An export is handed rows that were read before, and may be for one organization.
ExportView(u) ==
  /\ uses[u].st = "kept" /\ uses[u].kind = "view"
  /\ \E scoped \in BOOLEAN : SetUse(u, Called([uses[u] EXCEPT !.st = "mask", !.scoped = scoped]))

BuildTrainingSet(u) ==
  /\ uses[u].st = "kept" /\ uses[u].kind = "training"
  /\ \E scoped \in BOOLEAN : SetUse(u, [uses[u] EXCEPT !.st = "join", !.scoped = scoped])

\* current_consent_vectors: the gated values are masked before anything uses them.
CurrentConsentVectors(u) ==
  LET x == uses[u] IN
  /\ x.st = "mask"
  /\ SetUse(u, [x EXCEPT !.vector = MaskUnless(Permitted(x.who, moment, x.scoped), @),
                         !.st = IF x.kind = "search" THEN "used" ELSE "exists"])

\* Outcomes are fetched only under the stored permission and a present one.
CheckBeforeJoin(u) ==
  LET x == uses[u] IN
  /\ x.st = "join"
  /\ SetUse(u, [x EXCEPT !.allowed = x.vector.allowed /\ Permitted(x.who, moment, x.scoped), !.st = "fetch"])

FetchOutcomes(u) ==
  LET x == uses[u] IN
  /\ x.st = "fetch"
  /\ SetUse(u, [x EXCEPT !.st = "fetched",
                         !.label = IF x.allowed THEN {[e |-> e, on |-> outcomes[e].on, result |-> outcomes[e].result]
                                                        : e \in RecordsOf(x.who)} ELSE {}])

\* The best outcome after the cut; a withdrawal is no outcome.
Rank(result) == CASE result = "hired" -> 5 [] result = "rejected" -> 2
\* A wrong BuildLabel: an outcome of the very day of the cut is a label, too.
LabelFromCut(records, cut) == {r \in records : r.on >= cut /\ r.result # "withdrawn"}

BuildLabel(records, cut) ==
  LET post == {r \in records : r.on > cut /\ r.result # "withdrawn"}
  IN  {r \in post : \A s \in post : Rank(s.result) <= Rank(r.result)}

\* The check after the reads, the audit an erased person has no place in, the example.
JoinLabel(u) ==
  LET x == uses[u]
      allowed == x.allowed /\ Permitted(x.who, moment, x.scoped)
  IN  /\ x.st = "fetched"
      /\ SetUse(u, [x EXCEPT !.st = IF x.who \in talents THEN "example" ELSE "omitted",
                             !.allowed = allowed,
                             !.vector = MaskUnless(allowed, @),
                             !.label = IF allowed THEN BuildLabel(@, x.cut) ELSE Unknown])

\* A wrong ExportTraining: examples are written as they were built.
ExportsAsBuilt(u) ==
  /\ uses[u].st = "example"
  /\ \E scoped \in BOOLEAN : SetUse(u, Called([uses[u] EXCEPT !.st = "exists", !.scoped = scoped]))

\* An example may be kept for long before it is exported.
ExportTraining(u) ==
  /\ uses[u].st = "example"
  /\ \E scoped \in BOOLEAN : SetUse(u, Called([uses[u] EXCEPT !.st = "recheck", !.scoped = scoped]))

\* current_training_example, run for the set and again for each row written.
CurrentTrainingExample(u) ==
  LET x == uses[u]
      allowed == Permitted(x.who, moment, x.scoped)
  IN  /\ x.st = "recheck"
      /\ SetUse(u, [x EXCEPT !.st = "exists", !.vector = MaskUnless(allowed, @),
                             !.label = IF allowed THEN @ ELSE Unknown])

CandidateExists(u) ==
  LET x == uses[u] IN
  /\ x.st = "exists"
  /\ SetUse(u, [x EXCEPT !.st = IF x.who \in talents THEN "used" ELSE "omitted"])

FeatureTick ==
  /\ moment < LastCut
  /\ moment' = moment + 1
  /\ UNCHANGED <<talents, permits, outcomes, vectors, builds, uses>>

FeatureNext ==
  \/ FeatureTick
  \/ \E p \in Talents :
       \/ \E ends \in Ends, covers \in BOOLEAN : Permit(p, ends, covers)
       \/ Withdraw(p) \/ EraseTalent(p)
       \/ \E e \in Outcomes, on \in Cuts, result \in Results : FileOutcome(e, p, on, result)
       \/ \E m \in Builds, cut \in Cuts : BeginBuild(m, p, cut)
  \/ \E m \in Builds : BuildContext(m) \/ ApplyConsent(m) \/ LookUpVector(m) \/ UpsertVector(m)
  \/ \E u \in Uses :
       \/ Search(u) \/ KeepRow(u) \/ ExportView(u) \/ BuildTrainingSet(u)
       \/ CurrentConsentVectors(u) \/ CheckBeforeJoin(u) \/ FetchOutcomes(u) \/ JoinLabel(u)
       \/ ExportTraining(u) \/ CurrentTrainingExample(u) \/ CandidateExists(u)

FeatureSpec == FeatureInit /\ [][FeatureNext]_featureVars

----------------------------------------------------------------------------
\* What was withdrawn, had ended or was granted to others only before a call began is
\* in nothing the call answers: neither a gated value nor a label, however long ago the
\* vector or the example was built and whatever is revoked between a call's reads; and
\* no export, of a view or of examples, writes a row of a person erased before it began.
UsesHonourConsent ==
  \A u \in Uses : uses[u].st = "used" =>
    /\ uses[u].dead => uses[u].vector.gated = Unknown /\ uses[u].label = Unknown
    /\ uses[u].gone => uses[u].kind = "search"

\* No outcome is in both a vector and its label: a record dated back between the two
\* reads, or dated at the very cut, never leaks from the one into the other.
NoLeakage ==
  \A u \in Uses : uses[u].st = "used" /\ uses[u].label # Unknown =>
    {r.e : r \in uses[u].label} \cap uses[u].vector.seen = {}

\* A stored vector is of a person who is there, and holds gated values only when a
\* grant was given by its cut and ended after it, whichever of two builds wrote last.
VectorsHold ==
  \A p \in Talents, c \in Cuts : vectors[p][c].st = "stored" =>
    /\ p \in talents
    /\ vectors[p][c].gated # Unknown => vectors[p][c].allowed /\ permits[p].granted <= c /\ c < permits[p].ends

=============================================================================
