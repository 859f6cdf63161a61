----------------------- MODULE CurationMatchingProofs -----------------------
(***************************************************************************)
(* Theorems about the curation of the vocabulary and about the matching of *)
(* requisitions, for any number of people, terms and calls: erasure runs   *)
(* between any two of their transactions.                                  *)
(***************************************************************************)
EXTENDS Curation, Matching, FiniteSetTheorems, SequenceTheorems, WellFoundedInduction, TLAPS

-----------------------------------------------------------------------------
(* Curation: ingestions that queue observations, and reviews of them.          *)

ObservationRows == [st: {"free", "queued", "gone"}, source: Sources \cup {Unmapped},
                    term: Terms \cup {NoObservation.term}, on: Nat]
FetchRecs == [st: {"free", "fetching", "refused", "saved", "answered"}, subject: Subjects \cup {NoFetch.subject},
              source: Sources \cup {Unmapped}, left: SUBSET Terms]
ReviewRecs == [st: {"free", "shown", "claimed", "decided", "ended"}, term: Terms \cup {NoReview.term},
               shown: SUBSET Observations, claimed: SUBSET Observations,
               process: Processes \cup {Unmapped}, decision: Decisions]

CurationTypeOK ==
  /\ day \in Nat
  /\ sources \in [Sources -> subjects \cup {Unmapped}]
  /\ observations \in [Observations -> ObservationRows]
  /\ fetches \in [Fetches -> FetchRecs]
  /\ reviews \in [Reviews -> ReviewRecs]

\* An ingestion that queues observations has a row; an observation, one that is owned.
CurationInv ==
  /\ CurationTypeOK
  /\ \A f \in Fetches : fetches[f].st = "saved" => fetches[f].source \in Sources
  /\ \A o \in Observations : Queued(o) =>
       observations[o].source \in Sources /\ sources[observations[o].source] # Unmapped

LEMMA CurationInitSound == ASSUME CurationInit PROVE CurationInv
<1>1. NoObservation \in ObservationRows /\ NoObservation.st = "free"
  BY DEF NoObservation, ObservationRows
<1>2. NoFetch \in FetchRecs /\ NoFetch.st = "free"
  BY DEF NoFetch, FetchRecs
<1>3. NoReview \in ReviewRecs
  BY DEF NoReview, ReviewRecs, Decisions
<1> QED
  BY <1>1, <1>2, <1>3 DEF CurationInit, CurationInv, CurationTypeOK, Queued

\* What the steps of an ingestion note of it.
LEMMA FetchSet ==
  ASSUME CurationInv, NEW f \in Fetches, NEW st \in {"refused", "saved", "answered"},
         NEW source \in Sources \cup {Unmapped}, NEW left \in SUBSET Terms,
         SetFetch(f, st, source, left), st = "saved" => source \in Sources
  PROVE  /\ fetches' \in [Fetches -> FetchRecs]
         /\ \A g \in Fetches : fetches'[g].st = "saved" => fetches'[g].source \in Sources
<1> DEFINE row == [fetches[f] EXCEPT !.st = st, !.source = source, !.left = left]
<1>1. fetches \in [Fetches -> FetchRecs] /\ fetches[f] \in FetchRecs
  BY DEF CurationInv, CurationTypeOK
<1>2. row \in FetchRecs /\ row.st = st /\ row.source = source
  BY <1>1 DEF FetchRecs
<1>3. fetches' = [fetches EXCEPT ![f] = row]
  BY <1>1 DEF SetFetch
<1> HIDE DEF row
<1> QED
  BY <1>1, <1>2, <1>3 DEF CurationInv

LEMMA FetchesKeepInv ==
  ASSUME CurationInv, NEW f \in Fetches,
         \/ \E s \in Subjects : BeginIngest(f, s)
         \/ \E pr \in Processes, r \in Sources, found \in SUBSET Terms : SaveSignal(f, pr, r, found)
         \/ \E t \in Terms : CaptureFails(f, t)
         \/ RequireSavedSignal(f)
  PROVE  CurationInv'
<1>t. /\ sources \in [Sources -> subjects \cup {Unmapped}] /\ fetches \in [Fetches -> FetchRecs]
      /\ fetches[f].left \in SUBSET Terms
  BY DEF CurationInv, CurationTypeOK, FetchRecs
<1>1. UNCHANGED <<day, subjects, observations, reviews>>
  BY DEF BeginIngest, SaveSignal, CaptureFails, RequireSavedSignal
<1>2. ASSUME NEW st \in {"refused", "saved", "answered"}, NEW source \in Sources \cup {Unmapped}, NEW left \in SUBSET Terms,
             SetFetch(f, st, source, left), st = "saved" => source \in Sources, UNCHANGED sources
      PROVE  CurationInv'
  BY <1>1, <1>2, FetchSet DEF CurationInv, CurationTypeOK, Queued
<1>3. ASSUME NEW s \in Subjects, BeginIngest(f, s) PROVE CurationInv'
  <2> DEFINE st == IF s \in subjects THEN "fetching" ELSE "refused"
             row == [fetches[f] EXCEPT !.st = st, !.subject = s]
  <2>1. row \in FetchRecs /\ row.st = st /\ row.st # "saved"
    BY <1>t DEF FetchRecs
  <2>2. fetches' = [fetches EXCEPT ![f] = row] /\ UNCHANGED sources
    BY <1>3, <1>t DEF BeginIngest
  <2> HIDE DEF row
  <2> QED
    BY <1>1, <2>1, <2>2 DEF CurationInv, CurationTypeOK, Queued
<1>4. ASSUME NEW pr \in Processes, NEW r \in Sources, NEW found \in SUBSET Terms, SaveSignal(f, pr, r, found) PROVE CurationInv'
  <2>1. CASE fetches[f].subject \in subjects
    <3> DEFINE left == {t \in found : ~Normalized(pr, t)}
    <3>1. /\ sources[r] = Unmapped /\ sources' = [sources EXCEPT ![r] = fetches[f].subject]
          /\ SetFetch(f, "saved", r, left) /\ left \in SUBSET Terms
      BY <1>4, <2>1 DEF SaveSignal
    <3> HIDE DEF left
    <3>2. sources' \in [Sources -> subjects' \cup {Unmapped}] /\ \A q \in Sources : q # r => sources'[q] = sources[q]
      BY <1>1, <1>t, <2>1, <3>1
    <3>3. /\ fetches' \in [Fetches -> FetchRecs]
          /\ \A g \in Fetches : fetches'[g].st = "saved" => fetches'[g].source \in Sources
      BY <3>1, FetchSet
    <3> QED
      BY <1>1, <3>1, <3>2, <3>3 DEF CurationInv, CurationTypeOK, Queued
  <2>2. CASE fetches[f].subject \notin subjects
    BY <1>2, <1>4, <2>2 DEF SaveSignal
  <2> QED
    BY <2>1, <2>2
<1>5. ASSUME NEW t \in Terms, CaptureFails(f, t) PROVE CurationInv'
  BY <1>2, <1>5, <1>t DEF CaptureFails, CurationInv
<1>6. ASSUME RequireSavedSignal(f) PROVE CurationInv'
  BY <1>2, <1>6 DEF RequireSavedSignal, CurationInv
<1> QED
  BY <1>3, <1>4, <1>5, <1>6

\* An observation is queued only under a row that is there when it is written.
LEMMA RecordKeepsInv ==
  ASSUME CurationInv, NEW f \in Fetches, NEW t \in Terms, NEW o \in Observations, RecordObservation(f, t, o)
  PROVE  CurationInv'
<1> DEFINE row == [st |-> "queued", source |-> fetches[f].source, term |-> t, on |-> day]
<1>1. /\ fetches[f].source \in Sources /\ UNCHANGED <<day, subjects, sources, reviews>>
      /\ SetFetch(f, "saved", fetches[f].source, fetches[f].left \ {t})
      /\ \/ sources[fetches[f].source] # Unmapped /\ observations' = [observations EXCEPT ![o] = row]
         \/ observations' = observations
  BY DEF RecordObservation, CurationInv
<1>2. /\ fetches' \in [Fetches -> FetchRecs]
      /\ \A g \in Fetches : fetches'[g].st = "saved" => fetches'[g].source \in Sources
  <2>1. fetches[f].left \ {t} \in SUBSET Terms
    BY DEF CurationInv, CurationTypeOK, FetchRecs
  <2> QED
    BY <1>1, <2>1, FetchSet
<1>3. row \in ObservationRows /\ row.source = fetches[f].source
  BY <1>1 DEF ObservationRows, CurationInv, CurationTypeOK
<1> HIDE DEF row
<1>4. observations' \in [Observations -> ObservationRows]
  BY <1>1, <1>3 DEF CurationInv, CurationTypeOK
<1>5. ASSUME NEW q \in Observations, Queued(q)'
      PROVE  observations'[q].source \in Sources /\ sources[observations'[q].source] # Unmapped
  <2>1. \/ observations'[q] = observations[q]
        \/ observations'[q] = row /\ sources[fetches[f].source] # Unmapped
    BY <1>1 DEF CurationInv, CurationTypeOK
  <2> QED
    BY <1>1, <1>3, <1>5, <2>1 DEF CurationInv, Queued
<1> QED
  BY <1>1, <1>2, <1>4, <1>5 DEF CurationInv, CurationTypeOK

\* Rows that leave the queue, and people who leave with their rows.
LEMMA LeavingKeepsInv ==
  ASSUME CurationInv, reviews' \in [Reviews -> ReviewRecs], UNCHANGED <<day, fetches>>,
         observations' \in [Observations -> ObservationRows], sources' \in [Sources -> subjects' \cup {Unmapped}],
         \A o \in Observations : Queued(o)' => /\ observations'[o] = observations[o]
                                               /\ sources'[observations[o].source] = sources[observations[o].source]
  PROVE  CurationInv'
BY DEF CurationInv, CurationTypeOK, Queued

LEMMA GoneRow == GoneObservation \in ObservationRows /\ GoneObservation.st = "gone"
BY DEF GoneObservation, NoObservation, ObservationRows

LEMMA EraseKeepsInv ==
  ASSUME CurationInv, NEW s \in Subjects, EraseSubject(s)
  PROVE  CurationInv'
<1>1. /\ subjects' = subjects \ {s} /\ UNCHANGED <<day, fetches, reviews>>
      /\ sources' = [r \in Sources |-> IF sources[r] = s THEN Unmapped ELSE sources[r]]
      /\ observations' = [o \in Observations |->
           IF Queued(o) /\ sources[observations[o].source] = s THEN GoneObservation
           ELSE observations[o]]
  BY DEF EraseSubject
<1>2. GoneObservation \in ObservationRows /\ GoneObservation.st = "gone"
  BY GoneRow
<1>3. observations' \in [Observations -> ObservationRows] /\ sources' \in [Sources -> subjects' \cup {Unmapped}]
  BY <1>1, <1>2 DEF CurationInv, CurationTypeOK
<1>4. ASSUME NEW o \in Observations, Queued(o)'
      PROVE  /\ observations'[o] = observations[o]
             /\ sources'[observations[o].source] = sources[observations[o].source]
  <2>1. observations'[o] = observations[o] /\ Queued(o) /\ sources[observations[o].source] # s
    BY <1>1, <1>2, <1>4 DEF Queued
  <2> QED
    BY <1>1, <2>1 DEF CurationInv
<1> QED
  BY <1>1, <1>3, <1>4, LeavingKeepsInv DEF CurationInv, CurationTypeOK

LEMMA RowsTaken ==
  ASSUME CurationInv, NEW S,
         observations' = [o \in Observations |-> IF o \in S THEN GoneObservation ELSE observations[o]]
  PROVE  /\ observations' \in [Observations -> ObservationRows]
         /\ \A o \in Observations : Queued(o)' => observations'[o] = observations[o]
BY GoneRow DEF CurationInv, CurationTypeOK, Queued

LEMMA ReviewsKeepInv ==
  ASSUME CurationInv, NEW v \in Reviews,
         \/ \E t \in Terms : ListObservations(v, t)
         \/ \E pr \in Processes, action \in {"map", "create", "ignore"}, decision \in Decisions :
              ClaimObservations(v, pr, action, decision)
         \/ ResolveObservations(v)
         \/ RefreshOverlay(v)
  PROVE  CurationInv'
<1>0. UNCHANGED <<day, subjects, sources, fetches>>
  BY DEF ListObservations, ClaimObservations, ResolveObservations, RefreshOverlay
<1>1. reviews' \in [Reviews -> ReviewRecs]
  <2>1. reviews \in [Reviews -> ReviewRecs] /\ reviews[v] \in ReviewRecs
    BY DEF CurationInv, CurationTypeOK
  <2>2. ASSUME NEW t \in Terms, ListObservations(v, t) PROVE reviews' \in [Reviews -> ReviewRecs]
    <3> DEFINE live == {o \in Observations : Queued(o) /\ observations[o].term = t /\ LiveOn(o, day)}
               row == [NoReview EXCEPT !.st = "shown", !.term = t, !.shown = live]
    <3>1. row \in ReviewRecs
      BY DEF NoReview, ReviewRecs, Decisions
    <3> HIDE DEF row
    <3>2. reviews' = [reviews EXCEPT ![v] = row]
      BY <2>2 DEF ListObservations, row
    <3> QED
      BY <2>1, <3>1, <3>2
  <2>3. ASSUME NEW pr \in Processes, NEW action, NEW decision \in Decisions, ClaimObservations(v, pr, action, decision)
        PROVE  reviews' \in [Reviews -> ReviewRecs]
    <3> DEFINE rows == {o \in Observations : Queued(o) /\ observations[o].term = reviews[v].term}
               row == [reviews[v] EXCEPT !.st = "claimed", !.claimed = rows, !.process = pr, !.decision = decision]
    <3>1. row \in ReviewRecs
      BY <2>1 DEF ReviewRecs
    <3>2. reviews' = [reviews EXCEPT ![v] = row]
      BY <2>1, <2>3 DEF ClaimObservations
    <3> HIDE DEF row
    <3> QED
      BY <2>1, <3>1, <3>2
  <2>4. ASSUME NEW st \in {"decided", "ended"}, NEW pr \in Processes \cup {Unmapped},
               reviews' = [reviews EXCEPT ![v] = [NoReview EXCEPT !.st = st, !.process = pr]]
        PROVE  reviews' \in [Reviews -> ReviewRecs]
    <3>1. [NoReview EXCEPT !.st = st, !.process = pr] \in ReviewRecs
      BY DEF NoReview, ReviewRecs, Decisions
    <3> QED
      BY <2>1, <2>4, <3>1
  <2>5. ASSUME EndReview(v) PROVE reviews' \in [Reviews -> ReviewRecs]
    <3>1. EndedReview \in ReviewRecs
      BY DEF EndedReview, NoReview, ReviewRecs, Decisions
    <3> QED
      BY <2>1, <2>5, <3>1 DEF EndReview
  <2>6. ASSUME ResolveObservations(v) PROVE reviews' \in [Reviews -> ReviewRecs]
    <3>1. CASE EndReview(v)
      BY <2>5, <3>1
    <3>2. CASE reviews' = [reviews EXCEPT ![v] = [NoReview EXCEPT !.st = "decided", !.process = reviews[v].process]]
      <4>1. reviews[v].process \in Processes \cup {Unmapped}
        BY <2>1 DEF ReviewRecs
      <4> QED
        BY <2>4, <3>2, <4>1
    <3> QED
      BY <2>6, <3>1, <3>2 DEF ResolveObservations
  <2> QED
    BY <2>2, <2>3, <2>5, <2>6 DEF RefreshOverlay
<1>2. \/ UNCHANGED observations
      \/ observations' = [o \in Observations |-> IF o \in reviews[v].claimed THEN GoneObservation ELSE observations[o]]
  BY DEF ListObservations, ClaimObservations, ResolveObservations, RefreshOverlay, Taken
<1>3. /\ observations' \in [Observations -> ObservationRows]
      /\ \A o \in Observations : Queued(o)' => observations'[o] = observations[o]
  <2>1. CASE observations' = observations
    BY <2>1 DEF CurationInv, CurationTypeOK
  <2>2. CASE observations' = [o \in Observations |-> IF o \in reviews[v].claimed THEN GoneObservation ELSE observations[o]]
    BY <2>2, RowsTaken
  <2> QED
    BY <1>2, <2>1, <2>2
<1> QED
  BY <1>0, <1>1, <1>3, LeavingKeepsInv DEF CurationInv, CurationTypeOK

\* A process that stops loses its decisions, and nothing else.
LEMMA RestartKeepsInv ==
  ASSUME CurationInv, NEW pr \in Processes, Restart(pr)
  PROVE  CurationInv'
<1>1. EndedReview \in ReviewRecs
  BY DEF EndedReview, NoReview, ReviewRecs, Decisions
<1>2. /\ reviews' = [v \in Reviews |-> IF v \in Deciding(pr) THEN EndedReview ELSE reviews[v]]
      /\ UNCHANGED <<day, subjects, sources, observations, fetches>>
  BY DEF Restart
<1> QED
  BY <1>1, <1>2 DEF CurationInv, CurationTypeOK, Queued

LEMMA CurationStepSound == ASSUME CurationInv, [CurationNext]_curationVars PROVE CurationInv'
<1>1. CASE UNCHANGED curationVars
  BY <1>1 DEF curationVars, CurationInv, CurationTypeOK, Queued
<1>2. CASE NextDay
  BY <1>2 DEF NextDay, CurationInv, CurationTypeOK, Queued
<1>3. CASE PurgeExpired
  <2> DEFINE old == {o \in Observations : Queued(o) /\ ~LiveOn(o, day)}
  <2>1. /\ observations' = [o \in Observations |-> IF o \in old THEN GoneObservation ELSE observations[o]]
        /\ UNCHANGED <<day, subjects, sources, fetches, reviews>>
    BY <1>3 DEF PurgeExpired
  <2> HIDE DEF old
  <2> QED
    BY <2>1, RowsTaken, LeavingKeepsInv DEF CurationInv, CurationTypeOK
<1>4. ASSUME NEW batch, NEW alias, NEW skill, DisposeLegacy(batch, alias, skill) PROVE CurationInv'
  <2>1. UNCHANGED <<day, subjects, sources, observations, fetches, reviews>>
    BY <1>4 DEF DisposeLegacy
  <2> QED
    BY <2>1 DEF CurationInv, CurationTypeOK, Queued
<1> QED
  BY <1>1, <1>2, <1>3, <1>4, FetchesKeepInv, RecordKeepsInv, EraseKeepsInv, ReviewsKeepInv,
     RestartKeepsInv DEF CurationNext

\* An ingestion that queues observations has a row, and an observation one that is owned,
\* for any number of people, terms and reviews (`sources/store.py`).
THEOREM CurationInvariance == CurationSpec => []CurationInv
BY CurationInitSound, CurationStepSound, PTL DEF CurationSpec

\* Every observation belongs to a source of a person who is there, at every step of
\* any number of ingestions and erasures (`record_observation`, `erase_candidate`).
THEOREM ObservationsHaveOwners == CurationSpec => []ObservationsAreOwned
<1>1. CurationInv => ObservationsAreOwned
  BY DEF CurationInv, CurationTypeOK, ObservationsAreOwned
<1> QED
  BY <1>1, CurationInvariance, PTL

\* No observation leaves the queue but with its source, by expiry, or by a decision
\* that was shown it, whatever happened between the look and the claim
\* (`resolve_observations` and the revision it compares).
THEOREM DecisionsAreInformed == CurationSpec => NoTermDecidedUnseen
<1> DEFINE Left(o) == \/ sources'[observations[o].source] = Unmapped
                      \/ ~LiveOn(o, day)
                      \/ \E v \in Reviews : o \in reviews[v].shown /\ reviews'[v].st = "decided"
<1>1. ASSUME CurationInv, CurationNext, NEW o \in Observations, Queued(o), observations'[o].st # "queued" PROVE Left(o)
  <2>1. CASE \E s \in Subjects : EraseSubject(s)
    BY <1>1, <2>1 DEF EraseSubject, CurationInv, Queued
  <2>2. CASE PurgeExpired
    BY <1>1, <2>2 DEF PurgeExpired, Queued
  <2>3. ASSUME NEW f \in Fetches, NEW t \in Terms, NEW q \in Observations, RecordObservation(f, t, q) PROVE FALSE
    <3>1. o # q
      BY <1>1, <2>3 DEF RecordObservation, Queued
    <3> QED
      BY <1>1, <2>3, <3>1 DEF RecordObservation, CurationInv, CurationTypeOK, Queued
  <2>4. ASSUME NEW v \in Reviews, ResolveObservations(v) PROVE Left(o)
    <3> DEFINE live == {q \in reviews[v].claimed : LiveOn(q, day)}
               decided == [NoReview EXCEPT !.st = "decided", !.process = reviews[v].process]
    <3>1. observations' # observations
      BY <1>1 DEF Queued
    <3>2. /\ Taken(v)
          /\ \/ live = {}
             \/ SameRevision(v, live) /\ reviews' = [reviews EXCEPT ![v] = decided]
      BY <2>4, <3>1 DEF ResolveObservations
    <3>3. o \in reviews[v].claimed
      BY <1>1, <3>2 DEF Taken, Queued
    <3>4. CASE LiveOn(o, day)
      <4>1. o \in reviews[v].shown /\ reviews' = [reviews EXCEPT ![v] = decided]
        BY <3>2, <3>3, <3>4 DEF SameRevision
      <4>2. decided.st = "decided"
        BY DEF NoReview
      <4> HIDE DEF decided
      <4>3. reviews'[v].st = "decided"
        BY <1>1, <4>1, <4>2 DEF CurationInv, CurationTypeOK
      <4> QED
        BY <4>1, <4>3
    <3> QED
      BY <3>4
  <2>5. \/ observations' = observations
        \/ \E s \in Subjects : EraseSubject(s)
        \/ PurgeExpired
        \/ \E f \in Fetches, t \in Terms, q \in Observations : RecordObservation(f, t, q)
        \/ \E v \in Reviews : ResolveObservations(v)
    BY <1>1 DEF CurationNext, NextDay, Restart, BeginIngest, SaveSignal, CaptureFails, RequireSavedSignal,
                ListObservations, ClaimObservations, RefreshOverlay, DisposeLegacy
  <2> QED
    BY <1>1, <2>1, <2>2, <2>3, <2>4, <2>5 DEF Queued
<1> DEFINE A == \A o \in Observations : Queued(o) /\ observations'[o].st # "queued" => Left(o)
<1>2. ASSUME CurationInv, [CurationNext]_curationVars PROVE [A]_curationVars
  BY <1>1, <1>2
<1> QED
  BY <1>2, CurationInvariance, PTL DEF CurationSpec, NoTermDecidedUnseen

-----------------------------------------------------------------------------
(* The inductive invariant.                                                    *)

Once(s) == \A i, j \in DOMAIN s : i # j => s[i] # s[j]

PostingRecs == [org : Employers \cup {Nothing}, status : {"open", "closed", "gone"}, floor : BOOLEAN]
MatchRecs == [st : {"free", "pool", "not found", "rank", "audit", "committed", "rolled back", "failed", "answered"},
              org : Employers \cup {Nothing}, req : Postings \cup {Nothing}, floor : BOOLEAN,
              vectors : SUBSET Seekers, ranked : Seq(Seekers), batch : Seq(Seekers),
              answer : Seq(Seekers), pool : Nat, filtered : Nat]
SurfaceRows == [match : Matches, who : Seekers, rank : Nat]

\* The rows a shortlist left, of those who are still there.
RowsOf(m, batch, left) ==
  {[match |-> m, who |-> batch[i], rank |-> i] : i \in {j \in DOMAIN batch : batch[j] \in left}}

\* What is so of a call x, its rows in the log and the people who are left.
MatchFits(m, x, audits, left) ==
  /\ Once(x.ranked) /\ ToSet(x.ranked) \subseteq x.vectors
  /\ x.st \in {"free", "pool", "rank"} => x.ranked = <<>>
  /\ audits = IF x.st \in {"committed", "answered"} THEN RowsOf(m, x.batch, left) ELSE {}
  /\ x.st \in {"committed", "answered", "rolled back"} => x.batch = Top(x.ranked)
  /\ x.st # "answered" => x.answer = <<>>
  /\ x.st = "answered" => /\ ToSet(x.answer) \subseteq ToSet(x.batch)
                          /\ Len(x.answer) <= x.filtered /\ x.filtered <= x.pool

MatchingInv ==
  /\ seekers \subseteq Seekers /\ pooled \subseteq seekers
  /\ postings \in [Postings -> PostingRecs]
  /\ surfaced \subseteq SurfaceRows /\ \A row \in surfaced : row.who \in seekers
  /\ matches \in [Matches -> MatchRecs]
  /\ \A m \in Matches : MatchFits(m, matches[m], AuditsOf(m), seekers)

-----------------------------------------------------------------------------
(* Rankings.                                                                   *)

LEMMA LeastNatural ==
  ASSUME NEW T, T \subseteq Nat, T # {}
  PROVE  \E x \in T : \A y \in T : x <= y
<1>1. PICK x \in T : \A y \in T : ~ (<<y, x>> \in OpToRel(<, Nat))
  BY WFMin, NatLessThanWellFounded
<1>2. \A y \in T : ~(y < x)
  BY <1>1 DEF OpToRel
<1> QED
  BY <1>2

\* Of a finite set of places there is a k-th one.
LEMMA KthPlace ==
  ASSUME NEW n \in Nat, NEW I, I \subseteq 1..n, NEW k \in 1..Cardinality(I)
  PROVE  \E i \in I : Cardinality({j \in I : j <= i}) = k
<1> DEFINE UpTo(i) == {j \in I : j <= i}
           T == {m \in 0..n : Cardinality(UpTo(m)) >= k}
<1>1. IsFiniteSet(I) /\ Cardinality(I) \in Nat /\ k \in Nat /\ k >= 1 /\ k <= Cardinality(I)
  <2>1. IsFiniteSet(1..n)
    BY FS_Interval
  <2>2. IsFiniteSet(I)
    BY <2>1, FS_Subset
  <2>3. Cardinality(I) \in Nat
    BY <2>2, FS_CardinalityType
  <2> QED
    BY <2>2, <2>3
<1>2. ASSUME NEW m PROVE IsFiniteSet(UpTo(m)) /\ Cardinality(UpTo(m)) \in Nat
  <2>1. UpTo(m) \subseteq I
    OBVIOUS
  <2>2. IsFiniteSet(UpTo(m))
    BY <1>1, <2>1, FS_Subset
  <2> QED
    BY <2>2, FS_CardinalityType
<1>3. n \in T
  <2>1. UpTo(n) = I
    <3>1. \A j \in I : j <= n
      OBVIOUS
    <3> QED
      BY <3>1
  <2>2. n \in 0..n
    OBVIOUS
  <2> HIDE DEF UpTo
  <2> QED
    BY <1>1, <2>1, <2>2
<1>4. PICK m \in T : \A l \in T : m <= l
  <2> HIDE DEF UpTo
  <2>1. T \subseteq Nat
    OBVIOUS
  <2>2. T # {}
    BY <1>3
  <2> HIDE DEF T
  <2> QED
    BY <2>1, <2>2, LeastNatural
<1>5. m \in 0..n /\ m \in Nat /\ Cardinality(UpTo(m)) >= k
  BY <1>4
<1>6. m # 0
  <2>1. UpTo(0) = {}
    <3>1. \A j \in I : ~(j <= 0)
      OBVIOUS
    <3> QED
      BY <3>1
  <2>2. Cardinality(UpTo(0)) = 0
    BY <2>1, FS_EmptySet
  <2> QED
    BY <1>1, <1>5, <2>2
<1>7. m - 1 \in 0..n /\ m - 1 \in Nat /\ ~(Cardinality(UpTo(m - 1)) >= k)
  <2>1. m - 1 \in 0..n /\ m - 1 < m
    BY <1>5, <1>6
  <2>2. m - 1 \notin T
    <3> HIDE DEF T
    <3> QED
      BY <1>4, <1>5, <2>1
  <2> HIDE DEF UpTo
  <2> QED
    BY <1>5, <1>6, <2>1, <2>2
<1>8. m \in I
  <2>1. ASSUME m \notin I PROVE UpTo(m) = UpTo(m - 1)
    <3>1. \A j \in I : j <= m <=> j <= m - 1
      BY <1>5, <2>1
    <3> QED
      BY <3>1
  <2> HIDE DEF UpTo
  <2> QED
    BY <1>5, <1>7, <2>1
<1>9. Cardinality(UpTo(m)) = Cardinality(UpTo(m - 1)) + 1
  <2>1. UpTo(m) = UpTo(m - 1) \cup {m} /\ m \notin UpTo(m - 1)
    <3>1. \A j \in I : j <= m <=> (j <= m - 1 \/ j = m)
      BY <1>5
    <3>2. m <= m /\ ~(m <= m - 1)
      BY <1>5
    <3> QED
      BY <1>8, <3>1, <3>2
  <2> HIDE DEF UpTo
  <2> QED
    BY <1>2, <2>1, FS_AddElement
<1>10. Cardinality(UpTo(m)) = k
  <2>1. Cardinality(UpTo(m)) \in Nat /\ Cardinality(UpTo(m - 1)) \in Nat
    BY <1>2
  <2> HIDE DEF UpTo
  <2> QED
    BY <1>1, <1>5, <1>7, <1>9, <2>1
<1> QED
  BY <1>8, <1>10

Places(s, S) == {i \in DOMAIN s : s[i] \in S}

LEMMA PlacesAreFinite ==
  ASSUME NEW A, NEW s \in Seq(A), NEW S
  PROVE  /\ Places(s, S) \subseteq 1..Len(s) /\ DOMAIN s = 1..Len(s) /\ Len(s) \in Nat
         /\ IsFiniteSet(Places(s, S)) /\ Cardinality(Places(s, S)) \in Nat
<1>1. DOMAIN s = 1..Len(s) /\ Len(s) \in Nat
  BY LenProperties
<1>2. Places(s, S) \subseteq 1..Len(s)
  BY <1>1 DEF Places
<1>3. IsFiniteSet(1..Len(s))
  BY <1>1, FS_Interval
<1>4. IsFiniteSet(Places(s, S))
  BY <1>2, <1>3, FS_Subset
<1> QED
  BY <1>1, <1>2, <1>4, FS_CardinalityType

\* What is kept of a ranking is those of it who stay, each as often.
LEMMA KeepingKeeps ==
  ASSUME NEW A, NEW s \in Seq(A), NEW S
  PROVE  /\ Keeping(s, S) \in Seq(A)
         /\ Len(Keeping(s, S)) = Cardinality(Places(s, S))
         /\ ToSet(Keeping(s, S)) = ToSet(s) \cap S
         /\ Once(s) => Once(Keeping(s, S))
<1> DEFINE I == Places(s, S)
           K == Cardinality(I)
           At(k) == CHOOSE i \in I : Cardinality({j \in I : j <= i}) = k
           f == [k \in 1..K |-> s[At(k)]]
<1>1. /\ I \subseteq 1..Len(s) /\ DOMAIN s = 1..Len(s) /\ Len(s) \in Nat /\ K \in Nat
  BY PlacesAreFinite
<1>2. ASSUME NEW k \in 1..K PROVE At(k) \in I /\ Cardinality({j \in I : j <= At(k)}) = k
  <2>1. \E i \in I : Cardinality({j \in I : j <= i}) = k
    BY <1>1, KthPlace
  <2> QED
    BY <2>1
<1>3. \A i \in I : i \in DOMAIN s /\ s[i] \in S /\ s[i] \in A
  BY ElementOfSeq, <1>1 DEF Places
<1>4. Keeping(s, S) = f
  BY DEF Keeping, Places
<1>5. \A i, j \in I : i # j => (Once(s) => s[i] # s[j])
  BY <1>3 DEF Once
<1> DEFINE UpTo(i) == Cardinality({j \in I : j <= i})
<1>5a. \A k, l \in 1..K : At(k) = At(l) => k = l
  <2>1. \A k \in 1..K : UpTo(At(k)) = k
    BY <1>2
  <2> HIDE DEF At, UpTo, I
  <2> QED
    BY <2>1
<1>5b. ASSUME NEW i \in I PROVE \E k \in 1..K : At(k) = i
  <2> DEFINE low(m) == {j \in I : j <= m}
  <2>1. \A m \in I : /\ low(m) \subseteq I /\ IsFiniteSet(low(m)) /\ Cardinality(low(m)) \in Nat
                     /\ Cardinality(low(m)) <= K
    BY PlacesAreFinite, FS_Subset, FS_CardinalityType
  <2>2. \A m \in I : m \in Int /\ m \in low(m)
    BY <1>1
  <2>3. ASSUME NEW m \in I, NEW n \in I, m < n PROVE Cardinality(low(m)) # Cardinality(low(n))
    <3>1. low(m) \subseteq low(n) /\ n \notin low(m) /\ n \in low(n)
      BY <1>1, <2>2, <2>3
    <3> HIDE DEF low
    <3> QED
      BY <2>1, <3>1, FS_Subset
  <2>4. Cardinality(low(i)) # 0
    <3>1. IsFiniteSet(low(i)) /\ low(i) # {}
      BY <2>1, <2>2
    <3> HIDE DEF low
    <3> QED
      BY <3>1, FS_EmptySet
  <2>5. PICK k \in 1..K : k = Cardinality(low(i))
    <3>1. Cardinality(low(i)) \in Nat /\ Cardinality(low(i)) <= K /\ K \in Nat
      BY <1>1, <2>1
    <3> HIDE DEF low, K
    <3>2. Cardinality(low(i)) \in 1..K
      BY <2>4, <3>1
    <3> QED
      BY <3>2
  <2>6. At(k) \in I /\ Cardinality(low(At(k))) = k
    BY <1>2
  <2> HIDE DEF At, low, I
  <2> QED
    BY <2>2, <2>3, <2>5, <2>6
<1> HIDE DEF At, I
<1>6. f \in [1..K -> A]
  BY <1>2, <1>3
<1>7. f \in Seq(A) /\ Len(f) = K
  BY <1>1, <1>6, SeqDef
<1>8. \A k \in DOMAIN f : f[k] \in ToSet(s) \cap S
  BY <1>2, <1>3 DEF ToSet
<1>9. Once(s) => Once(f)
  BY <1>2, <1>5, <1>5a DEF Once
<1>10. ASSUME NEW a \in ToSet(s) \cap S PROVE a \in ToSet(f)
  <2>1. PICK i \in DOMAIN s : s[i] = a
    BY DEF ToSet
  <2>2. i \in I
    BY <2>1 DEF I, Places
  <2>3. PICK k \in 1..K : At(k) = i
    BY <1>5b, <2>2
  <2>4. k \in DOMAIN f /\ f[k] = a
    BY <2>1, <2>3
  <2> QED
    BY <2>4 DEF ToSet
<1>11. ToSet(f) = ToSet(s) \cap S
  <2>1. ToSet(f) \subseteq ToSet(s) \cap S
    BY <1>8 DEF ToSet
  <2> QED
    BY <1>10, <2>1
<1> QED
  BY <1>4, <1>7, <1>9, <1>11 DEF I

\* Fewer are left of a ranking when somebody of it goes.
LEMMA KeepingShortens ==
  ASSUME NEW A, NEW s \in Seq(A), NEW S, ~(ToSet(s) \subseteq S)
  PROVE  Len(Keeping(s, S)) < Len(s)
<1>1. /\ Places(s, S) \subseteq 1..Len(s) /\ DOMAIN s = 1..Len(s) /\ Len(s) \in Nat
      /\ Cardinality(Places(s, S)) \in Nat
  BY PlacesAreFinite
<1>2. PICK i \in DOMAIN s : s[i] \notin S
  BY DEF ToSet
<1>3. Places(s, S) # 1..Len(s)
  BY <1>1, <1>2 DEF Places
<1>4. IsFiniteSet(1..Len(s)) /\ Cardinality(1..Len(s)) = Len(s)
  <2>1. PICK n \in Nat : n = Len(s)
    BY <1>1
  <2>2. IsFiniteSet(1..n) /\ Cardinality(1..n) = IF 1 > n THEN 0 ELSE n - 1 + 1
    BY FS_Interval
  <2>3. Cardinality(1..n) = n
    BY <2>2
  <2> QED
    BY <2>1, <2>2, <2>3
<1>5. Cardinality(Places(s, S)) <= Len(s) /\ Cardinality(Places(s, S)) # Len(s)
  BY <1>1, <1>3, <1>4, FS_Subset
<1>6. Len(Keeping(s, S)) = Cardinality(Places(s, S))
  BY KeepingKeeps
<1> QED
  BY <1>1, <1>5, <1>6

\* Nobody is ranked twice, so no more places are kept than people.
LEMMA KeptAreCounted ==
  ASSUME NEW A, NEW s \in Seq(A), NEW S, NEW T, Once(s), IsFiniteSet(T), ToSet(s) \cap S \subseteq T
  PROVE  Len(Keeping(s, S)) <= Cardinality(T)
<1> DEFINE I == Places(s, S)
           f == [i \in I |-> s[i]]
<1>1. \A i \in I : i \in DOMAIN s /\ s[i] \in T
  BY DEF Places, ToSet
<1>2. f \in [I -> T]
  BY <1>1
<1>3. \A i, j \in I : f[i] = f[j] => i = j
  BY <1>1 DEF Once
<1>4. f \in Injection(I, T)
  BY <1>2, <1>3 DEF Injection, IsInjective
<1>5. Cardinality(I) <= Cardinality(T)
  BY <1>4, FS_Injection
<1> QED
  BY <1>5, KeepingKeeps

LEMMA TopOfRanking ==
  ASSUME NEW A, NEW s \in Seq(A)
  PROVE  /\ Top(s) \in Seq(A) /\ ToSet(Top(s)) \subseteq ToSet(s)
         /\ Once(s) => Once(Top(s))
<1> DEFINE k == IF Len(s) < Shortlist THEN Len(s) ELSE Shortlist
<1>1. Len(s) \in Nat /\ DOMAIN s = 1..Len(s) /\ Shortlist \in Nat
  BY LenProperties, MatchingConstantsOK
<1>2. k \in 0..Len(s)
  BY <1>1
<1>3. \A i \in 1..k : i \in DOMAIN s /\ s[i] \in A
  BY <1>1, <1>2, ElementOfSeq
<1> DEFINE t == SubSeq(s, 1, k)
<1>4. Top(s) = t /\ k \in Nat
  BY <1>1 DEF Top
<1> HIDE DEF k
<1>5. t \in Seq(A) /\ Len(t) = k /\ \A i \in 1..k : t[i] = s[i]
  <2>1. \A i \in 1..k : s[i] \in A
    BY <1>3
  <2>2. /\ t \in Seq(A) /\ Len(t) = IF 1 <= k THEN k - 1 + 1 ELSE 0
        /\ \A i \in 1..(k - 1 + 1) : t[i] = s[1 + i - 1]
    BY <1>4, <2>1, SubSeqProperties
  <2>3. k - 1 + 1 = k /\ \A i \in 1..k : 1 + i - 1 = i
    BY <1>4
  <2> HIDE DEF t
  <2>4. Len(t) = k
    BY <1>4, <2>2, <2>3
  <2> QED
    BY <2>2, <2>3, <2>4
<1> HIDE DEF t
<1>6. DOMAIN t = 1..k
  BY <1>4, <1>5, LenProperties
<1> QED
  BY <1>3, <1>4, <1>5, <1>6 DEF ToSet, Once

LEMMA EmptyRanking ==
  /\ <<>> \in Seq(Seekers) /\ ToSet(<<>>) = {} /\ Once(<<>>) /\ Len(<<>>) = 0
<1>1. DOMAIN <<>> = {}
  OBVIOUS
<1> QED
  BY <1>1, EmptySeq DEF ToSet, Once


-----------------------------------------------------------------------------
(* Every step keeps the invariant.                                             *)

LEMMA MatchingStarts ==
  MatchingInit => MatchingInv
<1> SUFFICES ASSUME MatchingInit PROVE MatchingInv
  OBVIOUS
<1> USE DEF MatchingInit
<1>1. NoPosting \in PostingRecs
  BY DEF NoPosting, PostingRecs
<1>2. NoMatch \in MatchRecs
  BY EmptyRanking DEF NoMatch, MatchRecs
<1>3. ASSUME NEW m \in Matches PROVE MatchFits(m, matches[m], AuditsOf(m), seekers)
  <2>1. AuditsOf(m) = {} /\ matches[m] = NoMatch
    BY DEF AuditsOf
  <2> QED
    BY <2>1, EmptyRanking DEF MatchFits, NoMatch
<1> QED
  BY <1>1, <1>2, <1>3 DEF MatchingInv

\* One call goes on; the log and the world stand still.
LEMMA OneCallGoesOn ==
  ASSUME MatchingInv, NEW m \in Matches, NEW x \in MatchRecs, SetMatch(m, x),
         MatchFits(m, x, AuditsOf(m), seekers)
  PROVE  MatchingInv'
<1>1. /\ UNCHANGED <<seekers, employers, pooled, postings, surfaced>>
      /\ matches' = [matches EXCEPT ![m] = x] /\ matches \in [Matches -> MatchRecs]
  BY DEF SetMatch, MatchingInv
<1>2. matches' \in [Matches -> MatchRecs]
  BY <1>1
<1>3. ASSUME NEW n \in Matches PROVE MatchFits(n, matches'[n], AuditsOf(n)', seekers')
  <2>1. AuditsOf(n)' = AuditsOf(n)
    BY <1>1 DEF AuditsOf
  <2>2. CASE n = m
    BY <1>1, <2>1, <2>2
  <2>3. CASE n # m
    BY <1>1, <2>1, <2>3 DEF MatchingInv
  <2> QED
    BY <2>2, <2>3
<1> QED
  BY <1>1, <1>2, <1>3 DEF MatchingInv

LEMMA WhatMatchesAre ==
  ASSUME MatchingInv, NEW m \in Matches
  PROVE  matches[m] \in MatchRecs /\ MatchFits(m, matches[m], AuditsOf(m), seekers)
BY DEF MatchingInv

LEMMA BeginMatchKeeps ==
  ASSUME MatchingInv, NEW m \in Matches, NEW o \in Employers, NEW r \in Postings, BeginMatch(m, o, r)
  PROVE  MatchingInv'
<1> DEFINE x == [NoMatch EXCEPT !.st = IF GetRequisition(o, r) THEN "pool" ELSE "not found",
                                !.org = o, !.req = r, !.floor = postings[r].floor]
<1>1. SetMatch(m, x) /\ matches[m].st = "free"
  BY DEF BeginMatch
<1>2. postings[r].floor \in BOOLEAN
  BY DEF MatchingInv, PostingRecs
<1>3. /\ x \in MatchRecs /\ x.st \in {"pool", "not found"} /\ x.vectors = {}
      /\ x.ranked = <<>> /\ x.batch = <<>> /\ x.answer = <<>>
  BY <1>2, EmptyRanking DEF NoMatch, MatchRecs
<1>4. AuditsOf(m) = {}
  BY <1>1, WhatMatchesAre DEF MatchFits
<1> HIDE DEF x
<1>5. MatchFits(m, x, AuditsOf(m), seekers)
  BY <1>3, <1>4, EmptyRanking DEF MatchFits
<1> QED
  BY <1>1, <1>3, <1>5, OneCallGoesOn

LEMMA ReadPoolKeeps ==
  ASSUME MatchingInv, NEW m \in Matches, ReadPool(m)
  PROVE  MatchingInv'
<1> DEFINE x == [matches[m] EXCEPT !.st = "rank", !.vectors = pooled]
<1>0. matches[m] \in MatchRecs /\ MatchFits(m, matches[m], AuditsOf(m), seekers)
  BY WhatMatchesAre
<1>1. SetMatch(m, x) /\ matches[m].st = "pool"
  BY DEF ReadPool
<1>2. pooled \subseteq Seekers
  BY DEF MatchingInv
<1>3. /\ x \in MatchRecs /\ x.st = "rank" /\ x.vectors = pooled /\ x.ranked = matches[m].ranked
      /\ x.batch = matches[m].batch /\ x.answer = matches[m].answer
  BY <1>0, <1>2 DEF MatchRecs
<1> HIDE DEF x
<1>4. MatchFits(m, x, AuditsOf(m), seekers)
  BY <1>0, <1>1, <1>3, EmptyRanking DEF MatchFits
<1> QED
  BY <1>1, <1>3, <1>4, OneCallGoesOn

LEMMA SetsInSequence ==
  ASSUME NEW S \in SUBSET Seekers, NEW ranked \in SetToSeqs(S)
  PROVE  ranked \in Seq(Seekers) /\ Once(ranked) /\ ToSet(ranked) \subseteq S
<1>1. /\ ranked \in [1..Cardinality(S) -> S]
      /\ \A i, j \in 1..Cardinality(S) : i # j => ranked[i] # ranked[j]
  BY DEF SetToSeqs
<1>2. Cardinality(S) \in Nat
  BY MatchingConstantsOK, FS_Subset, FS_CardinalityType
<1>3. DOMAIN ranked = 1..Cardinality(S)
  BY <1>1
<1>4. ranked \in [1..Cardinality(S) -> Seekers]
  BY <1>1
<1>5. ranked \in Seq(Seekers)
  BY <1>2, <1>4, SeqDef
<1> QED
  BY <1>1, <1>3, <1>5 DEF Once, ToSet

LEMMA RankPoolKeeps ==
  ASSUME MatchingInv, NEW m \in Matches, NEW S \in SUBSET Seekers, NEW ranked \in SetToSeqs(S),
         RankPool(m, ranked)
  PROVE  MatchingInv'
<1> DEFINE x == [matches[m] EXCEPT !.st = "audit", !.ranked = ranked]
<1>0. matches[m] \in MatchRecs /\ MatchFits(m, matches[m], AuditsOf(m), seekers)
  BY WhatMatchesAre
<1>1. SetMatch(m, x) /\ matches[m].st = "rank" /\ ToSet(ranked) \subseteq matches[m].vectors
  BY DEF RankPool
<1>2. ranked \in Seq(Seekers) /\ Once(ranked)
  BY SetsInSequence
<1>3. /\ x \in MatchRecs /\ x.st = "audit" /\ x.vectors = matches[m].vectors /\ x.ranked = ranked
      /\ x.batch = matches[m].batch /\ x.answer = matches[m].answer
  BY <1>0, <1>2 DEF MatchRecs
<1> HIDE DEF x
<1>4. MatchFits(m, x, AuditsOf(m), seekers)
  BY <1>0, <1>1, <1>2, <1>3 DEF MatchFits
<1> QED
  BY <1>1, <1>3, <1>4, OneCallGoesOn

LEMMA RollBackKeeps ==
  ASSUME MatchingInv, NEW m \in Matches, RollBackAudits(m)
  PROVE  MatchingInv'
<1> DEFINE batch == Top(matches[m].ranked)
           x == [matches[m] EXCEPT !.st = "rolled back", !.batch = batch]
<1>0. matches[m] \in MatchRecs /\ MatchFits(m, matches[m], AuditsOf(m), seekers)
  BY WhatMatchesAre
<1>1. SetMatch(m, x) /\ matches[m].st = "audit"
  BY DEF RollBackAudits
<1>2. batch \in Seq(Seekers)
  BY <1>0, TopOfRanking DEF MatchRecs
<1>3. /\ x \in MatchRecs /\ x.st = "rolled back" /\ x.vectors = matches[m].vectors
      /\ x.ranked = matches[m].ranked /\ x.batch = batch /\ x.answer = matches[m].answer
  BY <1>0, <1>2 DEF MatchRecs
<1> HIDE DEF x
<1>4. MatchFits(m, x, AuditsOf(m), seekers)
  BY <1>0, <1>1, <1>3 DEF MatchFits
<1> QED
  BY <1>1, <1>3, <1>4, OneCallGoesOn

LEMMA RemoveMissingKeeps ==
  ASSUME MatchingInv, NEW m \in Matches, RemoveMissing(m)
  PROVE  MatchingInv'
<1> DEFINE missing == ToSet(matches[m].batch) \ seekers
           kept == Keeping(matches[m].ranked, Seekers \ missing)
           x == [matches[m] EXCEPT !.st = IF missing = {} THEN "failed" ELSE "audit",
                                   !.ranked = Keeping(@, Seekers \ missing), !.batch = <<>>]
<1>0. matches[m] \in MatchRecs /\ MatchFits(m, matches[m], AuditsOf(m), seekers)
  BY WhatMatchesAre
<1>1. SetMatch(m, x) /\ matches[m].st = "rolled back"
  BY DEF RemoveMissing
<1>2. matches[m].ranked \in Seq(Seekers) /\ Once(matches[m].ranked)
  BY <1>0 DEF MatchRecs, MatchFits
<1>3. kept \in Seq(Seekers) /\ Once(kept) /\ ToSet(kept) \subseteq ToSet(matches[m].ranked)
  BY <1>2, KeepingKeeps
<1> HIDE DEF missing
<1>4. /\ x \in MatchRecs /\ x.st \in {"failed", "audit"} /\ x.vectors = matches[m].vectors
      /\ x.ranked = kept /\ x.batch = <<>> /\ x.answer = matches[m].answer
  BY <1>0, <1>3, EmptyRanking DEF MatchRecs
<1> HIDE DEF x, kept
<1>5. MatchFits(m, x, AuditsOf(m), seekers)
  BY <1>0, <1>1, <1>3, <1>4 DEF MatchFits
<1> QED
  BY <1>1, <1>4, <1>5, OneCallGoesOn

LEMMA AnswerMatchKeeps ==
  ASSUME MatchingInv, NEW m \in Matches, AnswerMatch(m)
  PROVE  MatchingInv'
<1> DEFINE y == matches[m]
           answer == Keeping(y.batch, seekers)
           pool == Cardinality(y.vectors \cap seekers)
           filtered == Cardinality(ToSet(y.ranked) \cap seekers)
           x == [y EXCEPT !.st = "answered", !.answer = answer, !.pool = pool, !.filtered = filtered]
<1>0. y \in MatchRecs /\ MatchFits(m, y, AuditsOf(m), seekers)
  BY WhatMatchesAre
<1>1. SetMatch(m, x) /\ y.st = "committed"
  BY DEF AnswerMatch
<1>2. /\ y.ranked \in Seq(Seekers) /\ y.batch = Top(y.ranked) /\ Once(y.ranked)
      /\ y.vectors \in SUBSET Seekers /\ ToSet(y.ranked) \subseteq y.vectors
  BY <1>0, <1>1 DEF MatchRecs, MatchFits
<1>3. /\ y.batch \in Seq(Seekers) /\ Once(y.batch) /\ ToSet(y.batch) \subseteq ToSet(y.ranked)
  BY <1>2, TopOfRanking
<1>4. answer \in Seq(Seekers) /\ ToSet(answer) \subseteq ToSet(y.batch)
  BY <1>3, KeepingKeeps
<1>5. IsFiniteSet(y.vectors \cap seekers) /\ pool \in Nat
  <2>1. IsFiniteSet(y.vectors)
    BY <1>2, MatchingConstantsOK, FS_Subset
  <2>2. IsFiniteSet(y.vectors \cap seekers)
    BY <2>1, FS_Subset
  <2> QED
    BY <2>2, FS_CardinalityType
<1>6. IsFiniteSet(ToSet(y.ranked) \cap seekers) /\ filtered \in Nat /\ filtered <= pool
  <2>1. ToSet(y.ranked) \cap seekers \in SUBSET (y.vectors \cap seekers)
    BY <1>2
  <2>2. IsFiniteSet(ToSet(y.ranked) \cap seekers) /\ filtered <= pool
    BY <1>5, <2>1, FS_Subset
  <2> QED
    BY <2>2, FS_CardinalityType
<1>7. Len(answer) <= filtered
  <2>1. ToSet(y.batch) \cap seekers \subseteq ToSet(y.ranked) \cap seekers
    BY <1>3
  <2> QED
    BY <1>3, <1>6, <2>1, KeptAreCounted
<1> HIDE DEF answer, pool, filtered
<1>8. /\ x \in MatchRecs /\ x.st = "answered" /\ x.vectors = y.vectors /\ x.ranked = y.ranked
      /\ x.batch = y.batch /\ x.answer = answer /\ x.pool = pool /\ x.filtered = filtered
  BY <1>0, <1>4, <1>5, <1>6 DEF MatchRecs
<1> HIDE DEF x, y
<1>9. MatchFits(m, x, AuditsOf(m), seekers)
  BY <1>0, <1>1, <1>4, <1>6, <1>7, <1>8 DEF MatchFits
<1> QED
  BY <1>1, <1>8, <1>9, OneCallGoesOn

LEMMA CommitKeeps ==
  ASSUME MatchingInv, NEW m \in Matches, CommitSurfaceAudits(m)
  PROVE  MatchingInv'
<1> DEFINE batch == Top(matches[m].ranked)
           x == [matches[m] EXCEPT !.st = "committed", !.batch = batch]
           rows == {[match |-> m, who |-> batch[i], rank |-> i] : i \in DOMAIN batch}
<1>0. matches[m] \in MatchRecs /\ MatchFits(m, matches[m], AuditsOf(m), seekers)
  BY WhatMatchesAre
<1>1. /\ matches[m].st = "audit" /\ ToSet(batch) \subseteq seekers
      /\ surfaced' = surfaced \cup rows
      /\ UNCHANGED <<seekers, employers, pooled, postings>>
  BY DEF CommitSurfaceAudits
<1>2. matches' = [matches EXCEPT ![m] = x] /\ matches \in [Matches -> MatchRecs]
  <2>1. matches' = [matches EXCEPT ![m].st = "committed", ![m].batch = batch]
    BY DEF CommitSurfaceAudits
  <2>2. matches \in [Matches -> MatchRecs]
    BY DEF MatchingInv
  <2> HIDE DEF batch
  <2> QED
    BY <2>1, <2>2 DEF MatchRecs
<1>3. batch \in Seq(Seekers) /\ \A i \in DOMAIN batch : i \in Nat /\ batch[i] \in Seekers /\ batch[i] \in seekers
  <2>1. batch \in Seq(Seekers)
    BY <1>0, TopOfRanking DEF MatchRecs
  <2>2. \A i \in DOMAIN batch : i \in Nat /\ batch[i] \in Seekers
    <3> HIDE DEF batch
    <3> QED
      BY <2>1, ElementOfSeq, LenProperties
  <2>3. \A i \in DOMAIN batch : batch[i] \in seekers
    BY <1>1 DEF ToSet
  <2> QED
    BY <2>1, <2>2, <2>3
<1> HIDE DEF batch
<1>4. /\ x \in MatchRecs /\ x.st = "committed" /\ x.vectors = matches[m].vectors
      /\ x.ranked = matches[m].ranked /\ x.batch = batch /\ x.answer = matches[m].answer
  BY <1>0, <1>3 DEF MatchRecs
<1> HIDE DEF x
<1>5. matches' \in [Matches -> MatchRecs]
  BY <1>2, <1>4
<1>6. rows \subseteq SurfaceRows /\ \A row \in rows : row.who \in seekers /\ row.match = m
  BY <1>3 DEF SurfaceRows
<1>7. AuditsOf(m) = {}
  BY <1>0, <1>1 DEF MatchFits
<1>8. rows = RowsOf(m, batch, seekers)
  <2>1. {j \in DOMAIN batch : batch[j] \in seekers} = DOMAIN batch
    BY <1>3
  <2> QED
    BY <2>1 DEF RowsOf
<1> HIDE DEF rows
<1>9. AuditsOf(m)' = rows
  BY <1>1, <1>6, <1>7 DEF AuditsOf
<1>10. ASSUME NEW n \in Matches PROVE MatchFits(n, matches'[n], AuditsOf(n)', seekers')
  <2>1. CASE n = m
    <3>1. MatchFits(m, x, rows, seekers)
      BY <1>0, <1>1, <1>4, <1>8 DEF MatchFits, batch
    <3> QED
      BY <1>1, <1>2, <1>9, <2>1, <3>1
  <2>2. CASE n # m
    <3>1. AuditsOf(n)' = AuditsOf(n) /\ matches'[n] = matches[n]
      BY <1>1, <1>2, <1>6, <2>2 DEF AuditsOf
    <3> QED
      BY <1>1, <3>1 DEF MatchingInv
  <2> QED
    BY <2>1, <2>2
<1> QED
  BY <1>1, <1>5, <1>6, <1>10 DEF MatchingInv

LEMMA EraseSeekerKeeps ==
  ASSUME MatchingInv, NEW p \in Seekers, EraseSeeker(p)
  PROVE  MatchingInv'
<1>1. /\ seekers' = seekers \ {p} /\ pooled' = pooled \ {p}
      /\ surfaced' = {row \in surfaced : row.who # p}
      /\ UNCHANGED <<employers, postings, matches>>
  BY DEF EraseSeeker
<1>2. ASSUME NEW n \in Matches PROVE MatchFits(n, matches[n], AuditsOf(n)', seekers')
  <2> DEFINE x == matches[n]
  <2>1. x \in MatchRecs /\ MatchFits(n, x, AuditsOf(n), seekers)
    BY WhatMatchesAre
  <2>2. AuditsOf(n)' = {row \in AuditsOf(n) : row.who # p}
    BY <1>1 DEF AuditsOf
  <2>3. {row \in RowsOf(n, x.batch, seekers) : row.who # p} = RowsOf(n, x.batch, seekers')
    BY <1>1 DEF RowsOf
  <2>4. AuditsOf(n)' = IF x.st \in {"committed", "answered"} THEN RowsOf(n, x.batch, seekers') ELSE {}
    BY <2>1, <2>2, <2>3 DEF MatchFits
  <2> QED
    BY <2>1, <2>4 DEF MatchFits
<1> QED
  BY <1>1, <1>2 DEF MatchingInv

\* Vectors and requisitions come and go without the calls.
LEMMA TheWorldKeeps ==
  ASSUME MatchingInv, UNCHANGED <<seekers, surfaced, matches>>,
         pooled' \subseteq seekers, postings' \in [Postings -> PostingRecs]
  PROVE  MatchingInv'
<1>1. ASSUME NEW n \in Matches PROVE AuditsOf(n)' = AuditsOf(n)
  BY DEF AuditsOf
<1> QED
  BY <1>1 DEF MatchingInv

LEMMA PostingsKeep ==
  ASSUME MatchingInv, NEW o \in Employers, NEW r \in Postings
  PROVE  /\ \A floor \in BOOLEAN : CreateRequisition(o, r, floor) => MatchingInv'
         /\ \A floor \in BOOLEAN, status \in {"open", "closed"} :
              UpdateRequisition(o, r, status, floor) => MatchingInv'
<1>1. /\ postings \in [Postings -> PostingRecs] /\ pooled \subseteq seekers
  BY DEF MatchingInv
<1>2. ASSUME NEW floor \in BOOLEAN, CreateRequisition(o, r, floor) PROVE MatchingInv'
  <2>1. [org |-> o, status |-> "open", floor |-> floor] \in PostingRecs
    BY DEF PostingRecs
  <2>2. postings' \in [Postings -> PostingRecs]
    BY <1>1, <1>2, <2>1 DEF CreateRequisition
  <2> QED
    BY <1>1, <1>2, <2>2, TheWorldKeeps DEF CreateRequisition
<1>3. ASSUME NEW floor \in BOOLEAN, NEW status \in {"open", "closed"},
             UpdateRequisition(o, r, status, floor)
      PROVE  MatchingInv'
  <2> DEFINE e == [postings[r] EXCEPT !.status = status, !.floor = floor]
  <2>1. e \in PostingRecs
    BY <1>1 DEF PostingRecs
  <2>2. postings' = [postings EXCEPT ![r] = e]
    BY <1>1, <1>3 DEF UpdateRequisition, PostingRecs
  <2> HIDE DEF e
  <2>3. postings' \in [Postings -> PostingRecs]
    BY <1>1, <2>1, <2>2
  <2> QED
    BY <1>1, <1>3, <2>3, TheWorldKeeps DEF UpdateRequisition
<1> QED
  BY <1>2, <1>3

LEMMA MatchingStep ==
  MatchingInv /\ [MatchingNext]_matchingVars => MatchingInv'
<1> SUFFICES ASSUME MatchingInv, [MatchingNext]_matchingVars PROVE MatchingInv'
  OBVIOUS
<1>0. postings \in [Postings -> PostingRecs] /\ pooled \subseteq seekers
  BY DEF MatchingInv
<1>1. CASE UNCHANGED matchingVars
  BY <1>0, <1>1, TheWorldKeeps DEF matchingVars
<1>2. ASSUME NEW p \in Seekers, Pool(p) PROVE MatchingInv'
  BY <1>0, <1>2, TheWorldKeeps DEF Pool
<1>3. ASSUME NEW p \in Seekers, EraseSeeker(p) PROVE MatchingInv'
  BY <1>3, EraseSeekerKeeps
<1>4. ASSUME NEW o \in Employers, EmployerLeaves(o) PROVE MatchingInv'
  <2>1. [NoPosting EXCEPT !.status = "gone"] \in PostingRecs
    BY DEF NoPosting, PostingRecs
  <2>2. postings' \in [Postings -> PostingRecs]
    BY <1>0, <1>4, <2>1 DEF EmployerLeaves
  <2> QED
    BY <1>0, <1>4, <2>2, TheWorldKeeps DEF EmployerLeaves
<1>5. ASSUME NEW o \in Employers, NEW r \in Postings,
             \/ \E floor \in BOOLEAN : CreateRequisition(o, r, floor)
             \/ \E floor \in BOOLEAN, status \in {"open", "closed"} : UpdateRequisition(o, r, status, floor)
      PROVE  MatchingInv'
  BY <1>5, PostingsKeep
<1>6. ASSUME NEW o \in Employers, NEW r \in Postings, NEW m \in Matches, BeginMatch(m, o, r)
      PROVE  MatchingInv'
  BY <1>6, BeginMatchKeeps
<1>7. ASSUME NEW m \in Matches,
             ReadPool(m) \/ CommitSurfaceAudits(m) \/ RollBackAudits(m) \/ RemoveMissing(m) \/ AnswerMatch(m)
      PROVE  MatchingInv'
  BY <1>7, ReadPoolKeeps, CommitKeeps, RollBackKeeps, RemoveMissingKeeps, AnswerMatchKeeps
<1>8. ASSUME NEW m \in Matches, NEW S \in SUBSET Seekers, NEW ranked \in SetToSeqs(S), RankPool(m, ranked)
      PROVE  MatchingInv'
  BY <1>8, RankPoolKeeps
<1> QED
  BY <1>1, <1>2, <1>3, <1>4, <1>5, <1>6, <1>7, <1>8 DEF MatchingNext

-----------------------------------------------------------------------------
(* What is so of every match.                                                  *)

\* The rankings, shortlists and audit rows of every call of run_match fit together, whoever
\* is erased between its transactions.
THEOREM MatchingInvariance ==
  MatchingSpec => []MatchingInv
BY MatchingStarts, MatchingStep, PTL DEF MatchingSpec

\* Everyone an organization was shown has a row in the log at the place shown, a batch rolled
\* back has none, nobody erased has any, and no more are answered than were counted.
THEOREM DisclosuresAreInTheLog ==
  MatchingSpec => []DisclosuresAreAudited
<1>1. ASSUME MatchingInv PROVE DisclosuresAreAudited
  <2>1. \A row \in surfaced : row.who \in seekers
    BY <1>1 DEF MatchingInv
  <2>2. ASSUME NEW m \in Matches, matches[m].st \in {"committed", "answered"}
        PROVE  /\ AuditsOf(m) = RowsOf(m, matches[m].batch, seekers)
               /\ ToSet(matches[m].answer) \subseteq ToSet(matches[m].batch)
               /\ matches[m].st = "answered" => /\ Len(matches[m].answer) <= matches[m].filtered
                                                /\ matches[m].filtered <= matches[m].pool
    BY <1>1, <2>2, WhatMatchesAre, EmptyRanking DEF MatchFits
  <2>3. ASSUME NEW m \in Matches, matches[m].st \notin {"committed", "answered"}
        PROVE  AuditsOf(m) = {}
    BY <1>1, <2>3, WhatMatchesAre DEF MatchFits
  <2> QED
    BY <2>1, <2>2, <2>3 DEF DisclosuresAreAudited, RowsOf
<1> QED
  BY <1>1, MatchingInvariance, PTL

\* A batch that was rolled back is tried again with fewer people, nobody who is still there
\* losing the place, and the call fails only with its whole batch still there.
THEOREM RetriesShrink ==
  MatchingSpec => RetriesRemoveSomeone
<1> DEFINE GoesOn(m) == \/ /\ matches'[m].st = "audit"
                           /\ Len(matches'[m].ranked) < Len(matches[m].ranked)
                           /\ ToSet(matches[m].ranked) \cap seekers \subseteq ToSet(matches'[m].ranked)
                        \/ /\ matches'[m].st = "failed"
                           /\ ToSet(matches[m].batch) \subseteq seekers
           A == \A m \in Matches : matches[m].st = "rolled back" /\ matches'[m].st # "rolled back" => GoesOn(m)
<1>1. ASSUME MatchingInv, [MatchingNext]_matchingVars PROVE [A]_matchingVars
  <2>1. SUFFICES ASSUME NEW m \in Matches, matches[m].st = "rolled back", matches'[m].st # "rolled back"
                 PROVE  GoesOn(m)
    OBVIOUS
  <2>2. /\ matches[m] \in MatchRecs /\ MatchFits(m, matches[m], AuditsOf(m), seekers)
        /\ matches \in [Matches -> MatchRecs]
    BY <1>1, WhatMatchesAre DEF MatchingInv
  <2>3. RemoveMissing(m)
    <3>1. ASSUME NEW n \in Matches, NEW x, SetMatch(n, x), n # m \/ matches[n].st # "rolled back" PROVE FALSE
      BY <2>1, <2>2, <3>1 DEF SetMatch
    <3>2. matches' # matches
      BY <2>1
    <3>3. ASSUME NEW n \in Matches, CommitSurfaceAudits(n) PROVE FALSE
      BY <2>1, <2>2, <3>3 DEF CommitSurfaceAudits
    <3>4. ASSUME NEW n \in Matches, RemoveMissing(n) PROVE n = m
      BY <2>1, <2>2, <3>4 DEF RemoveMissing, SetMatch
    <3>5. ASSUME NEW n \in Matches, ReadPool(n) \/ RollBackAudits(n) \/ AnswerMatch(n) PROVE FALSE
      BY <3>1, <3>5 DEF ReadPool, RollBackAudits, AnswerMatch
    <3>6. ASSUME NEW n \in Matches, NEW o \in Employers, NEW r \in Postings, BeginMatch(n, o, r) PROVE FALSE
      BY <3>1, <3>6 DEF BeginMatch
    <3>7. ASSUME NEW n \in Matches, NEW ranked, RankPool(n, ranked) PROVE FALSE
      BY <3>1, <3>7 DEF RankPool
    <3>8. ~ UNCHANGED matchingVars
      BY <3>2 DEF matchingVars
    <3>9. MatchingNext
      BY <1>1, <3>8
    <3> QED
      BY <3>2, <3>3, <3>4, <3>5, <3>6, <3>7, <3>9
      DEF MatchingNext, Pool, EraseSeeker, EmployerLeaves, CreateRequisition, UpdateRequisition
  <2> DEFINE missing == ToSet(matches[m].batch) \ seekers
           kept == Keeping(matches[m].ranked, Seekers \ missing)
  <2>4. matches[m].batch = Top(matches[m].ranked) /\ matches[m].ranked \in Seq(Seekers)
    BY <2>1, <2>2 DEF MatchFits, MatchRecs
  <2>5. /\ matches'[m].st = IF missing = {} THEN "failed" ELSE "audit"
        /\ matches'[m].ranked = kept
    <3> HIDE DEF missing
    <3>1. matches' = [matches EXCEPT ![m] =
                        [matches[m] EXCEPT !.st = IF missing = {} THEN "failed" ELSE "audit",
                                           !.ranked = Keeping(@, Seekers \ missing),
                                           !.batch = <<>>]]
      BY <2>3 DEF RemoveMissing, SetMatch, missing
    <3> QED
      BY <2>2, <3>1 DEF MatchRecs
  <2>6. CASE missing = {}
    <3>1. matches'[m].st = "failed" /\ ToSet(matches[m].batch) \subseteq seekers
      BY <2>5, <2>6
    <3> QED
      BY <3>1
  <2>7. CASE missing # {}
    <3>1. ToSet(Top(matches[m].ranked)) \subseteq ToSet(matches[m].ranked)
      BY <2>4, TopOfRanking
    <3>2. ~(ToSet(matches[m].ranked) \subseteq Seekers \ missing)
      BY <2>4, <2>7, <3>1
    <3>3. Len(kept) < Len(matches[m].ranked)
      BY <2>4, <3>2, KeepingShortens
    <3>4. ToSet(kept) = ToSet(matches[m].ranked) \cap (Seekers \ missing)
      BY <2>4, KeepingKeeps
    <3>5. ToSet(matches[m].ranked) \subseteq Seekers
      BY <2>4, LenProperties, ElementOfSeq DEF ToSet
    <3> QED
      BY <2>5, <2>7, <3>3, <3>4, <3>5
  <2> QED
    BY <2>6, <2>7
<1> QED
  BY <1>1, MatchingInvariance, PTL DEF MatchingSpec, RetriesRemoveSomeone

=============================================================================
