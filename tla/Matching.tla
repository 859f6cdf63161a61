------------------------------ MODULE Matching ------------------------------
(***************************************************************************)
(* Job requisitions and the matching of one against the pool of vectors:   *)
(* the shortlist is written to the audit log before it is answered, while  *)
(* people are erased, vectors arrive and requisitions change between the   *)
(* reads of the call.                                                      *)
(***************************************************************************)
EXTENDS Integers, Sequences, FiniteSets, SequencesExt

CONSTANTS
  Seekers,      \* candidates
  Employers,    \* organizations
  Postings,     \* requisition ids
  Matches,      \* calls of run_match, each made once
  Nothing,      \* no row
  Shortlist     \* the limit of a match

ASSUME MatchingConstantsOK ==
  /\ Shortlist \in Nat \ {0} /\ IsFiniteSet(Seekers)
  /\ Nothing \notin Seekers \cup Employers

VARIABLES
  seekers,      \* candidates that are still there
  employers,    \* organizations that are still there
  pooled,       \* candidates with a vector in the default view
  postings,     \* job_requisitions
  surfaced,     \* audit_log rows of match.surface
  matches

matchingVars == <<seekers, employers, pooled, postings, surfaced, matches>>

NoPosting == [org |-> Nothing, status |-> "open", floor |-> FALSE]
NoMatch == [st |-> "free", org |-> Nothing, req |-> Nothing, floor |-> FALSE, vectors |-> {},
            ranked |-> <<>>, batch |-> <<>>, answer |-> <<>>, pool |-> 0, filtered |-> 0]

MatchingInit ==
  /\ seekers = Seekers
  /\ employers = Employers
  /\ pooled = {}
  /\ postings = [r \in Postings |-> NoPosting]
  /\ surfaced = {}
  /\ matches = [m \in Matches |-> NoMatch]

----------------------------------------------------------------------------
\* The world: vectors, erasure, organizations that leave.

Pool(p) ==
  /\ p \in seekers \ pooled
  /\ pooled' = pooled \cup {p}
  /\ UNCHANGED <<seekers, employers, postings, surfaced, matches>>

\* Vectors and audit rows go with the person.
EraseSeeker(p) ==
  /\ p \in seekers
  /\ seekers' = seekers \ {p}
  /\ pooled' = pooled \ {p}
  /\ surfaced' = {row \in surfaced : row.who # p}
  /\ UNCHANGED <<employers, postings, matches>>

\* Requisitions go with the organization; what it was shown stays in the log.
EmployerLeaves(o) ==
  /\ o \in employers
  /\ employers' = employers \ {o}
  /\ postings' = [r \in Postings |-> IF postings[r].org = o THEN [NoPosting EXCEPT !.status = "gone"] ELSE postings[r]]
  /\ UNCHANGED <<seekers, pooled, surfaced, matches>>

----------------------------------------------------------------------------
\* Requisitions, seen and changed by their own organization only.

GetRequisition(o, r) == postings[r].org = o
ListRequisitions(o) == {r \in Postings : GetRequisition(o, r)}

CreateRequisition(o, r, floor) ==
  /\ o \in employers /\ postings[r] = NoPosting
  /\ postings' = [postings EXCEPT ![r] = [org |-> o, status |-> "open", floor |-> floor]]
  /\ UNCHANGED <<seekers, employers, pooled, surfaced, matches>>

\* A new specification, a new status, or both; another organization's is not found.
UpdateRequisition(o, r, status, floor) ==
  /\ GetRequisition(o, r)
  /\ postings' = [postings EXCEPT ![r].status = status, ![r].floor = floor]
  /\ UNCHANGED <<seekers, employers, pooled, surfaced, matches>>

----------------------------------------------------------------------------
\* run_match, one action per transaction.

SetMatch(m, match) ==
  /\ matches' = [matches EXCEPT ![m] = match]
  /\ UNCHANGED <<seekers, employers, pooled, postings, surfaced>>

BeginMatch(m, o, r) ==
  /\ matches[m].st = "free" /\ o \in employers
  /\ SetMatch(m, [NoMatch EXCEPT !.st = IF GetRequisition(o, r) THEN "pool" ELSE "not found",
                                 !.org = o, !.req = r, !.floor = postings[r].floor])

ReadPool(m) ==
  /\ matches[m].st = "pool"
  /\ SetMatch(m, [matches[m] EXCEPT !.st = "rank", !.vectors = pooled])

\* The engine (Ranking!Match) orders everyone, or everyone above the opt-in floor.
RankPool(m, ranked) ==
  /\ matches[m].st = "rank"
  /\ ToSet(ranked) \subseteq matches[m].vectors
  /\ ~matches[m].floor => ToSet(ranked) = matches[m].vectors
  /\ SetMatch(m, [matches[m] EXCEPT !.st = "audit", !.ranked = ranked])

\* What is left of a ranking, in its order, when only the people of S stay.
Keeping(ranked, S) ==
  LET places == {i \in DOMAIN ranked : ranked[i] \in S}
      Place(k) == CHOOSE i \in places : Cardinality({j \in places : j <= i}) = k
  IN  [k \in 1..Cardinality(places) |-> ranked[Place(k)]]

Top(ranked) == SubSeq(ranked, 1, IF Len(ranked) < Shortlist THEN Len(ranked) ELSE Shortlist)

\* One transaction: an audit row for everyone on the shortlist, or for nobody.
CommitSurfaceAudits(m) ==
  LET batch == Top(matches[m].ranked) IN
  /\ matches[m].st = "audit" /\ ToSet(batch) \subseteq seekers
  /\ surfaced' = surfaced \cup {[match |-> m, who |-> batch[i], rank |-> i] : i \in DOMAIN batch}
  /\ matches' = [matches EXCEPT ![m].st = "committed", ![m].batch = batch]
  /\ UNCHANGED <<seekers, employers, pooled, postings>>

\* The commit may also break on a constraint that has nothing to do with an erasure.
RollBackAudits(m) ==
  /\ matches[m].st = "audit"
  /\ SetMatch(m, [matches[m] EXCEPT !.st = "rolled back", !.batch = Top(matches[m].ranked)])

\* A wrong RemoveMissing: the batch is compared with the pool that was read.
RemoveUnread(m) ==
  LET missing == ToSet(matches[m].batch) \ matches[m].vectors IN
  /\ matches[m].st = "rolled back"
  /\ SetMatch(m, [matches[m] EXCEPT !.st = IF missing = {} THEN "failed" ELSE "audit",
                                    !.ranked = Keeping(@, Seekers \ missing),
                                    !.batch = <<>>])

\* Whoever of the batch is no longer there leaves the ranking; with everyone there, it
\* was another error, and the call fails.
RemoveMissing(m) ==
  LET missing == ToSet(matches[m].batch) \ seekers IN
  /\ matches[m].st = "rolled back"
  /\ SetMatch(m, [matches[m] EXCEPT !.st = IF missing = {} THEN "failed" ELSE "audit",
                                    !.ranked = Keeping(@, Seekers \ missing),
                                    !.batch = <<>>])

\* A wrong AnswerMatch: the next in the ranking takes the place of the erased.
AnswerRefilled(m) ==
  LET x == matches[m] IN
  /\ x.st = "committed"
  /\ SetMatch(m, [x EXCEPT !.st = "answered",
                           !.answer = Top(Keeping(x.ranked, seekers)),
                           !.pool = Cardinality(x.vectors \cap seekers),
                           !.filtered = Cardinality(ToSet(x.ranked) \cap seekers)])

\* The last read: the erased leave the answer and the counts, and no one moves up.
AnswerMatch(m) ==
  LET x == matches[m] IN
  /\ x.st = "committed"
  /\ SetMatch(m, [x EXCEPT !.st = "answered",
                           !.answer = Keeping(x.batch, seekers),
                           !.pool = Cardinality(x.vectors \cap seekers),
                           !.filtered = Cardinality(ToSet(x.ranked) \cap seekers)])

MatchingNext ==
  \/ \E p \in Seekers : Pool(p) \/ EraseSeeker(p)
  \/ \E o \in Employers :
       \/ EmployerLeaves(o)
       \/ \E r \in Postings :
            \/ \E floor \in BOOLEAN : CreateRequisition(o, r, floor)
            \/ \E floor \in BOOLEAN, status \in {"open", "closed"} : UpdateRequisition(o, r, status, floor)
            \/ \E m \in Matches : BeginMatch(m, o, r)
  \/ \E m \in Matches :
       \/ ReadPool(m) \/ CommitSurfaceAudits(m) \/ RollBackAudits(m) \/ RemoveMissing(m) \/ AnswerMatch(m)
       \/ \E S \in SUBSET Seekers : \E ranked \in SetToSeqs(S) : RankPool(m, ranked)

MatchingSpec == MatchingInit /\ [][MatchingNext]_matchingVars

----------------------------------------------------------------------------
AuditsOf(m) == {row \in surfaced : row.match = m}

\* What an organization was shown is what the log says: an answered match has one row,
\* at the place it was ranked, for everyone in the answer who is still there; a batch
\* rolled back left none; and no row is of somebody erased.
DisclosuresAreAudited ==
  /\ \A row \in surfaced : row.who \in seekers
  /\ \A m \in Matches :
       LET x == matches[m] IN
       IF x.st \in {"committed", "answered"}
       THEN /\ AuditsOf(m) = {[match |-> m, who |-> x.batch[i], rank |-> i]
                                : i \in {j \in DOMAIN x.batch : x.batch[j] \in seekers}}
            /\ ToSet(x.answer) \subseteq ToSet(x.batch)
            /\ x.st = "answered" => Len(x.answer) <= x.filtered /\ x.filtered <= x.pool
       ELSE AuditsOf(m) = {}

\* The retry ends, and takes no one's place: a batch that was rolled back is tried again
\* with fewer people, all who left the ranking being erased, or else the call fails, and
\* then the whole batch is still there: no erasure is mistaken for another error.
RetriesRemoveSomeone ==
  [][\A m \in Matches : matches[m].st = "rolled back" /\ matches'[m].st # "rolled back" =>
       \/ /\ matches'[m].st = "audit"
          /\ Len(matches'[m].ranked) < Len(matches[m].ranked)
          /\ ToSet(matches[m].ranked) \cap seekers \subseteq ToSet(matches'[m].ranked)
       \/ /\ matches'[m].st = "failed"
          /\ ToSet(matches[m].batch) \subseteq seekers]_matchingVars

=============================================================================
