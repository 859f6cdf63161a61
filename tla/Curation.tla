------------------------------ MODULE Curation ------------------------------
(***************************************************************************)
(* Profile sources and the vocabulary they feed.  An ingestion saves one   *)
(* row per fetch and queues the skills nobody can map, as observations     *)
(* owned by that row.  An operator is shown the live observations of a     *)
(* term and decides on exactly those: the rows are claimed by DELETE, and  *)
(* given back when the queue has changed since.  Every process has its own *)
(* copy of the approved vocabulary, which it loads when it starts and      *)
(* after its own decisions.  Legacy vocabulary can be disposed of in       *)
(* batches.  A term is its normalized key.                                 *)
(***************************************************************************)
EXTENDS Integers, FiniteSets

CONSTANTS
  Subjects, Sources, Observations,   \* row ids, each used once
  Terms, Taxonomy,      \* skill names, and those the static taxonomy maps
  Skills, KnownSkills,  \* canonical ids, and those of the taxonomy
  LegacyTerms,          \* terms with a resolved legacy row
  Fetches, Reviews,     \* ingestions and decisions, each made once
  Processes,            \* of the application, over one database
  Unmapped,             \* no canonical id, no row
  ReviewLifetime,       \* REVIEW_LIFETIME, in days
  LastDay               \* bound on the clock

ASSUME CurationConstantsOK ==
  /\ Taxonomy \subseteq Terms /\ LegacyTerms \subseteq Terms \ Taxonomy
  /\ KnownSkills \subseteq Skills /\ KnownSkills # {} /\ Unmapped \notin Skills \cup Sources \cup Processes
  /\ ReviewLifetime \in Nat /\ LastDay \in Nat

VARIABLES
  day,
  subjects,      \* candidates that are still there
  sources,       \* profile_sources: the subject of a row, or Unmapped
  observations,  \* curation_observations
  aliases,       \* curation_aliases: the approved skill of a term
  legacy,        \* unmapped_terms: the resolved rows still kept, by term
  overlay,       \* by process: its copy of the approved vocabulary
  fetches,
  reviews

curationVars == <<day, subjects, sources, observations, aliases, legacy, overlay, fetches, reviews>>

NoObservation == [st |-> "free", source |-> Unmapped, term |-> CHOOSE t \in Terms : TRUE, on |-> 0]
GoneObservation == [NoObservation EXCEPT !.st = "gone"]
NoFetch == [st |-> "free", subject |-> CHOOSE s \in Subjects : TRUE, source |-> Unmapped, left |-> {}]

\* What a reviewer decides: the skill an approved alias stands for, or no alias.
Ignore == [alias |-> Unmapped, skill |-> Unmapped]
Decisions == {Ignore} \cup [alias : Terms, skill : Skills]

NoReview == [st |-> "free", term |-> CHOOSE t \in Terms : TRUE, shown |-> {}, claimed |-> {},
             process |-> Unmapped, decision |-> Ignore]
EndedReview == [NoReview EXCEPT !.st = "ended"]

TheOldSkill == CHOOSE s \in KnownSkills : TRUE

\* Approved aliases over the legacy mappings that are still kept.
OwnedOverlay(approved, kept) ==
  [t \in Terms |-> IF approved[t] # Unmapped THEN approved[t]
                   ELSE IF t \in kept THEN TheOldSkill ELSE Unmapped]

CurationInit ==
  /\ day = 0
  /\ subjects = Subjects
  /\ sources = [r \in Sources |-> Unmapped]
  /\ observations = [o \in Observations |-> NoObservation]
  /\ aliases = [t \in Terms |-> Unmapped]
  /\ legacy = LegacyTerms
  /\ overlay = [pr \in Processes |-> OwnedOverlay(aliases, legacy)]
  /\ fetches = [f \in Fetches |-> NoFetch]
  /\ reviews = [v \in Reviews |-> NoReview]

Queued(o) == observations[o].st = "queued"
LiveOn(o, d) == observations[o].on > d - ReviewLifetime
Claimed == UNION {reviews[v].claimed : v \in Reviews}

\* The static taxonomy wins; the overlay of the process fills its gaps.
Normalized(pr, t) == t \in Taxonomy \/ overlay[pr][t] # Unmapped

----------------------------------------------------------------------------
\* Ingestion: look, fetch, save, queue what is unmapped, look again.

SetFetch(f, st, source, left) ==
  fetches' = [fetches EXCEPT ![f].st = st, ![f].source = source, ![f].left = left]

\* The GitHub handle is resolved, or the export parsed, for a subject who is there.
BeginIngest(f, s) ==
  /\ fetches[f].st = "free"
  /\ fetches' = [fetches EXCEPT ![f].st = IF s \in subjects THEN "fetching" ELSE "refused",
                                ![f].subject = s]
  /\ UNCHANGED <<day, subjects, sources, observations, aliases, legacy, overlay, reviews>>

\* The foreign key refuses the row of a subject erased meanwhile.
SaveSignal(f, pr, r, found) ==
  /\ fetches[f].st = "fetching"
  /\ \/ /\ fetches[f].subject \in subjects
        /\ sources[r] = Unmapped /\ \A g \in Fetches : fetches[g].source # r
        /\ sources' = [sources EXCEPT ![r] = fetches[f].subject]
        /\ SetFetch(f, "saved", r, {t \in found : ~Normalized(pr, t)})
     \/ /\ fetches[f].subject \notin subjects
        /\ SetFetch(f, "refused", Unmapped, {})
        /\ UNCHANGED sources
  /\ UNCHANGED <<day, subjects, observations, aliases, legacy, overlay, reviews>>

\* A wrong RecordObservation: the source is not looked up again.
RecordsForGone(f, t, o) ==
  /\ fetches[f].st = "saved" /\ t \in fetches[f].left
  /\ observations[o].st = "free"
  /\ SetFetch(f, "saved", fetches[f].source, fetches[f].left \ {t})
  /\ observations' = [observations EXCEPT ![o] =
                        [st |-> "queued", source |-> fetches[f].source, term |-> t, on |-> day]]
  /\ UNCHANGED <<day, subjects, sources, aliases, legacy, overlay, reviews>>

\* One observation, when the source is still there and the term not yet approved; a
\* failure to queue it is only logged.
RecordObservation(f, t, o) ==
  /\ fetches[f].st = "saved" /\ t \in fetches[f].left
  /\ observations[o].st = "free"
  /\ SetFetch(f, "saved", fetches[f].source, fetches[f].left \ {t})
  /\ observations' = IF sources[fetches[f].source] # Unmapped /\ aliases[t] = Unmapped
                     THEN [observations EXCEPT ![o] =
                             [st |-> "queued", source |-> fetches[f].source, term |-> t, on |-> day]]
                     ELSE observations
  /\ UNCHANGED <<day, subjects, sources, aliases, legacy, overlay, reviews>>

CaptureFails(f, t) ==
  /\ fetches[f].st = "saved" /\ t \in fetches[f].left
  /\ SetFetch(f, "saved", fetches[f].source, fetches[f].left \ {t})
  /\ UNCHANGED <<day, subjects, sources, observations, aliases, legacy, overlay, reviews>>

RequireSavedSignal(f) ==
  /\ fetches[f].st = "saved" /\ fetches[f].left = {}
  /\ SetFetch(f, IF sources[fetches[f].source] = fetches[f].subject THEN "answered" ELSE "refused",
              Unmapped, {})
  /\ UNCHANGED <<day, subjects, sources, observations, aliases, legacy, overlay, reviews>>

\* Erasure takes the person's sources and their observations; claimed rows are locked.
EraseSubject(s) ==
  /\ s \in subjects
  /\ \A o \in Claimed : sources[observations[o].source] # s
  /\ subjects' = subjects \ {s}
  /\ sources' = [r \in Sources |-> IF sources[r] = s THEN Unmapped ELSE sources[r]]
  /\ observations' = [o \in Observations |->
       IF Queued(o) /\ sources[observations[o].source] = s THEN GoneObservation
       ELSE observations[o]]
  /\ UNCHANGED <<day, aliases, legacy, overlay, fetches, reviews>>

----------------------------------------------------------------------------
\* Review.

\* One statement shows the live observations of a term, and the revision that names them.
ListObservations(v, t) ==
  LET live == {o \in Observations : Queued(o) /\ observations[o].term = t /\ LiveOn(o, day)} IN
  /\ reviews[v].st = "free" /\ live \ Claimed # {}
  /\ reviews' = [reviews EXCEPT ![v] = [NoReview EXCEPT !.st = "shown", !.term = t, !.shown = live]]
  /\ UNCHANGED <<day, subjects, sources, observations, aliases, legacy, overlay, fetches>>

\* The reviewer's canonical id: mapped to one that exists, or a new one created, by what
\* the process knows when the request comes in.
CanonicalIds(pr) == KnownSkills \cup {overlay[pr][t] : t \in {u \in Terms : overlay[pr][u] # Unmapped}}
Validated(pr, action, decision) ==
  \/ action = "ignore" /\ decision = Ignore
  \/ action = "map" /\ decision # Ignore /\ decision.skill \in CanonicalIds(pr)
  \/ action = "create" /\ decision # Ignore /\ decision.skill \notin CanonicalIds(pr)

\* resolve runs whole on the event loop: a process has one decision under way.
Deciding(pr) == {v \in Reviews : reviews[v].process = pr}

\* The decision is checked, then DELETE waits for the rows of a competing one, and
\* finds what is left.
ClaimObservations(v, pr, action, decision) ==
  LET rows == {o \in Observations : Queued(o) /\ observations[o].term = reviews[v].term} IN
  /\ reviews[v].st = "shown" /\ Deciding(pr) = {} /\ Validated(pr, action, decision)
  /\ rows \cap Claimed = {}
  /\ reviews' = [reviews EXCEPT ![v].st = "claimed", ![v].claimed = rows,
                               ![v].process = pr, ![v].decision = decision]
  /\ UNCHANGED <<day, subjects, sources, observations, aliases, legacy, overlay, fetches>>

EndReview(v) == reviews' = [reviews EXCEPT ![v] = EndedReview]
Taken(v) ==
  observations' = [o \in Observations |-> IF o \in reviews[v].claimed THEN GoneObservation ELSE observations[o]]

\* A wrong SameRevision: the decision is for whatever the term has now.
AnyRevision(v, live) == TRUE

\* The revision a decision names is of the rows that were shown.
SameRevision(v, live) == live = reviews[v].shown

\* The clock is read after the locks were granted.  A changed queue and an alias that
\* is taken roll the claim back; with nothing live left, the expired rows are gone.
ResolveObservations(v) ==
  LET live == {o \in reviews[v].claimed : LiveOn(o, day)}
      decision == reviews[v].decision
      taken == decision # Ignore /\ aliases[decision.alias] # Unmapped
  IN
  /\ reviews[v].st = "claimed"
  /\ \/ /\ live = {} /\ EndReview(v) /\ Taken(v)
        /\ UNCHANGED aliases
     \/ /\ live # {} /\ (~SameRevision(v, live) \/ taken) /\ EndReview(v)
        /\ UNCHANGED <<observations, aliases>>
     \/ /\ live # {} /\ SameRevision(v, live) /\ ~taken /\ Taken(v)
        /\ reviews' = [reviews EXCEPT ![v] = [NoReview EXCEPT !.st = "decided", !.process = reviews[v].process]]
        /\ aliases' = IF decision = Ignore THEN aliases ELSE [aliases EXCEPT ![decision.alias] = decision.skill]
  /\ UNCHANGED <<day, subjects, sources, legacy, overlay, fetches>>

\* Only after its own commit does the process load the vocabulary again.
RefreshOverlay(v) ==
  /\ reviews[v].st = "decided" /\ EndReview(v)
  /\ overlay' = [overlay EXCEPT ![reviews[v].process] = OwnedOverlay(aliases, legacy)]
  /\ UNCHANGED <<day, subjects, sources, observations, aliases, legacy, fetches>>

\* Physical cleanup at startup and daily, which also waits for claimed rows.
PurgeExpired ==
  LET old == {o \in Observations : Queued(o) /\ ~LiveOn(o, day)} IN
  /\ old # {} /\ old \cap Claimed = {}
  /\ observations' = [o \in Observations |->
       IF o \in old THEN GoneObservation ELSE observations[o]]
  /\ UNCHANGED <<day, subjects, sources, aliases, legacy, overlay, fetches, reviews>>

\* The offline disposition of legacy rows: each is removed, or approved under an alias of
\* its own choice.  Rows that are already gone authorize nothing; an alias that meets
\* approved vocabulary, or legacy vocabulary that is kept, rolls the whole batch back.
DisposeLegacy(batch, alias, skill) ==
  LET claimed == batch \cap legacy
      approved == DOMAIN alias \cap claimed
  IN
  /\ claimed # {}
  /\ \A t, u \in DOMAIN alias : alias[t] = alias[u] => t = u
  /\ \A t \in approved : aliases[alias[t]] = Unmapped /\ alias[t] \notin legacy \ claimed
  /\ legacy' = legacy \ claimed
  /\ aliases' = [a \in Terms |-> IF \E t \in approved : alias[t] = a
                                 THEN skill[CHOOSE t \in approved : alias[t] = a] ELSE aliases[a]]
  /\ UNCHANGED <<day, subjects, sources, observations, overlay, fetches, reviews>>

\* A process stops wherever it is, its transaction rolled back, and loads the vocabulary
\* when it starts.
Restart(pr) ==
  /\ overlay' = [overlay EXCEPT ![pr] = OwnedOverlay(aliases, legacy)]
  /\ reviews' = [v \in Reviews |->
       IF v \in Deciding(pr) THEN EndedReview ELSE reviews[v]]
  /\ UNCHANGED <<day, subjects, sources, observations, aliases, legacy, fetches>>

NextDay ==
  /\ day < LastDay
  /\ day' = day + 1
  /\ UNCHANGED <<subjects, sources, observations, aliases, legacy, overlay, fetches, reviews>>

CurationNext ==
  \/ NextDay
  \/ PurgeExpired
  \/ \E pr \in Processes : Restart(pr)
  \/ \E s \in Subjects : EraseSubject(s)
  \/ \E f \in Fetches :
       \/ \E s \in Subjects : BeginIngest(f, s)
       \/ \E pr \in Processes, r \in Sources, found \in SUBSET Terms : SaveSignal(f, pr, r, found)
       \/ \E t \in Terms, o \in Observations : RecordObservation(f, t, o)
       \/ \E t \in Terms : CaptureFails(f, t)
       \/ RequireSavedSignal(f)
  \/ \E v \in Reviews :
       \/ \E t \in Terms : ListObservations(v, t)
       \/ \E pr \in Processes, action \in {"map", "create", "ignore"}, decision \in Decisions :
            ClaimObservations(v, pr, action, decision)
       \/ ResolveObservations(v) \/ RefreshOverlay(v)
  \/ \E batch \in SUBSET LegacyTerms : \E approved \in SUBSET batch :
       \E alias \in [approved -> Terms], skill \in [approved -> Skills] : DisposeLegacy(batch, alias, skill)

CurationSpec == CurationInit /\ [][CurationNext]_curationVars

----------------------------------------------------------------------------
\* Every observation belongs to a source of a person who is there, whichever of the
\* steps of an ingestion an erasure fell between.
ObservationsAreOwned ==
  /\ \A r \in Sources : sources[r] \in subjects \cup {Unmapped}
  /\ \A o \in Observations : Queued(o) => sources[observations[o].source] # Unmapped

\* An observation leaves the queue only with its source, by expiry, or by a decision
\* that was shown it: nobody's term is decided unseen, although new observations
\* arrive, expire and are erased between the reviewer's look and the claim, and a
\* refused decision gives every claimed row back.
NoTermDecidedUnseen ==
  [][\A o \in Observations : Queued(o) /\ observations'[o].st # "queued" =>
        \/ sources'[observations[o].source] = Unmapped
        \/ ~LiveOn(o, day)
        \/ \E v \in Reviews : o \in reviews[v].shown /\ reviews'[v].st = "decided"]_curationVars

=============================================================================
