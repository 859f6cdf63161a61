------------------------------- MODULE Sources ------------------------------
(***************************************************************************)
(* Profile sources and the providers behind them: what is gathered of a    *)
(* GitHub account, what is read of a LinkedIn export, the signal either    *)
(* becomes, and how the clients of the providers are built and closed.     *)
(*                                                                         *)
(* An answer of a provider is [reached, status, body], `body` {} when it   *)
(* is no JSON.  A skill as the candidate spelled it is [key, shown, pad]:  *)
(* what it is without case, as displayed, and what surrounds it.           *)
(***************************************************************************)
EXTENDS Integers, Sequences, SequencesExt

CONSTANTS RepoLimit, LanguageRepos, IncludeForks, NominalBytes, MaxRows, Taxonomy

Answered(value) == [raised |-> {}, value |-> value]
Failed(exc) == [raised |-> {exc}, value |-> {}]
UpTo(seq, n) == SubSeq(seq, 1, Min({n, Len(seq)}))

----------------------------------------------------------------------------
\* Clients. One connection per client, opened at first use, closed once, by its owner.

GetClient(client) ==
  IF client.closed THEN Failed("RuntimeError") ELSE Answered({[client EXCEPT !.open = TRUE]})
Aclose(client) == [client EXCEPT !.closed = TRUE, !.open = @ /\ ~client.owns]

BuildLlm(key) == IF key THEN "openrouter" ELSE "null"
\* A completion: without a key there is no text, and from no text no object.
AcompleteText(llm, client, said) ==
  IF llm = "null" THEN Answered({}) ELSE IF GetClient(client).raised # {} THEN GetClient(client) ELSE Answered(said)
AcompleteJson(llm, client, said) ==
  LET text == AcompleteText(llm, client, said)
  IN  IF text.raised # {} THEN text ELSE Answered({t \in text.value : t.object})

----------------------------------------------------------------------------
\* GitHub: the account, its repositories, and the languages of the first of them.

SafeGetJson(r) == IF ~r.reached \/ r.status >= 400 THEN Answered({}) ELSE IF r.body = {} THEN Failed("ValueError") ELSE Answered(r.body)

Unavailable == [available |-> FALSE, repos |-> <<>>, requests |-> 1]

\* A repository as it is read: forks are not asked for their languages, nor is any past the limit.
Asked(i, repo) == i <= LanguageRepos /\ ~repo.fork
ReadRepo(i, repo) ==
  [repo EXCEPT !.languages = IF Asked(i, repo) THEN LET l == SafeGetJson(@).value IN IF l = {} THEN <<>> ELSE CHOOSE x \in l : TRUE ELSE <<>>]

GatherUserSignal(user, listing) ==
  LET list == SafeGetJson(listing)
      repos == IF list.value = {} THEN <<>> ELSE UpTo(CHOOSE l \in list.value : TRUE, RepoLimit)
      asked == {i \in DOMAIN repos : Asked(i, repos[i])}
  IN  IF ~user.reached \/ user.status >= 400 THEN Answered({Unavailable})
      ELSE IF user.body = {} \/ list.raised # {} \/ \E i \in asked : SafeGetJson(repos[i].languages).raised # {}
      THEN Failed("ValueError")
      ELSE Answered({[available |-> TRUE, repos |-> [i \in DOMAIN repos |-> ReadRepo(i, repos[i])], requests |-> 2 + Cardinality(asked)]})

\* The bytes a repository counts for in a language: what it was asked for, else a nominal
\* weight for its primary one.
BytesIn(repo, lang) ==
  IF repo.languages # <<>> THEN IF lang \in DOMAIN repo.languages THEN repo.languages[lang] ELSE 0
  ELSE IF lang \in repo.language THEN NominalBytes ELSE 0
LanguagesOf(repo) == IF repo.languages # <<>> THEN DOMAIN repo.languages ELSE repo.language

ByWeight(skills) == SetToSortSeq(skills, LAMBDA a, b : a.weight > b.weight \/ (a.weight = b.weight /\ a.order < b.order))
Canonical(key) == IF key \in DOMAIN Taxonomy THEN {Taxonomy[key]} ELSE {}

\* Confidence, in tenths of the largest weight: three of it, and up to six more by weight.
GithubSignal(raw, order) ==
  LET repos == SelectSeq(raw.repos, LAMBDA r : IncludeForks \/ ~r.fork)
      langs == UNION {LanguagesOf(repos[i]) : i \in DOMAIN repos}
      total(lang) == FoldLeft(LAMBDA n, r : n + BytesIn(r, lang), 0, repos)
      top == Max({total(l) : l \in langs} \cup {0})
      skill(l) == [name |-> l, canonical |-> Canonical(l), weight |-> total(l), order |-> order[l],
                   confidence |-> IF top = 0 THEN <<3, 10>> ELSE <<3 * top + 6 * total(l), 10 * top>>]
  IN  IF ~raw.available THEN [method |-> "unavailable", skills |-> <<>>, sampled |-> 0, stars |-> 0, push |-> {}]
      ELSE [method |-> "api", skills |-> ByWeight({skill(l) : l \in langs}), sampled |-> Len(repos),
            stars |-> FoldLeft(LAMBDA n, r : n + r.stars, 0, repos),
            push |-> LET pushes == UNION {repos[i].pushed : i \in DOMAIN repos} IN IF pushes = {} THEN {} ELSE {Max(pushes)}]

----------------------------------------------------------------------------
\* The LinkedIn export: an archive with a table for each stem it has. A table is read up to
\* the row limit, and one that cannot be read is a warning.

Stems == {"skills", "positions", "education", "profile", "certifications", "languages"}
FindMember(archive, stem) == IF stem \in DOMAIN archive.members THEN {archive.members[stem]} ELSE {}

ReadRows(member) ==
  IF member.corrupt THEN [rows |-> <<>>, warnings |-> 1] ELSE [rows |-> UpTo(member.rows, MaxRows), warnings |-> 0]
Table(archive, stem) ==
  LET found == FindMember(archive, stem)
  IN  IF found = {} THEN [rows |-> <<>>, warnings |-> 0] ELSE ReadRows(CHOOSE m \in found : TRUE)

ParseLinkedinExport(archive) ==
  LET rows(stem) == Table(archive, stem).rows
      named(stem) == SelectSeq(rows(stem), LAMBDA r : r.key # {})
  IN  IF ~archive.zip \/ DOMAIN archive.members \cap Stems = {}
      THEN [available |-> FALSE, skills |-> <<>>, positions |-> <<>>, education |-> <<>>, certifications |-> 0, headline |-> {}, warnings |-> 1]
      ELSE [available |-> TRUE, skills |-> named("skills"), positions |-> rows("positions"), education |-> rows("education"),
            certifications |-> Len(named("certifications")),
            headline |-> IF rows("profile") = <<>> THEN {} ELSE rows("profile")[1].headline,
            warnings |-> FoldLeft(LAMBDA n, s : n + Table(archive, s).warnings, 0, SetToSeq(Stems))]

\* How many positions mention a skill as a token of its own, and the headline once more.
Corroboration(key, raw) ==
  Len(SelectSeq(raw.positions, LAMBDA p : key \in p.tokens)) + (IF key \in raw.headline THEN 1 ELSE 0)

\* One skill per name, in the spelling that came first.
BuildSkills(raw, order) ==
  LET keys == UNION {raw.skills[i].key : i \in DOMAIN raw.skills}
      first(k) == raw.skills[Min({i \in DOMAIN raw.skills : raw.skills[i].key = {k}})]
      skill(k) == [key |-> k, name |-> first(k).shown, canonical |-> Canonical(k), weight |-> Corroboration(k, raw), order |-> order[k],
                   confidence |-> IF Corroboration(k, raw) >= 1 THEN "corroborated" ELSE "base"]
  IN  ByWeight({skill(k) : k \in keys})

\* Counts and names of the vocabulary: what a company or a school was called is not kept.
BuildActivity(raw) ==
  [positions |-> Len(raw.positions), current |-> Len(SelectSeq(raw.positions, LAMBDA p : ~p.finished)),
   employers |-> UNION {raw.positions[i].employer : i \in DOMAIN raw.positions},
   institutions |-> UNION {raw.education[i].institution : i \in DOMAIN raw.education},
   education |-> Len(raw.education), certifications |-> raw.certifications, listed |-> Len(raw.skills)]

LinkedinSignal(raw, order) ==
  IF ~raw.available THEN [method |-> "unavailable", skills |-> <<>>, activity |-> {}]
  ELSE [method |-> "export", skills |-> BuildSkills(raw, order), activity |-> {BuildActivity(raw)}]

\* What the curators get to see: the unmapped names of a signal; of an export, the cells they
\* were written in, the first of each that may be shown at all.
Reviewable(cell) == cell.pad # "control"
CapturedNames(skills, cells) ==
  LET pending == {skills[i].key : i \in {j \in DOMAIN skills : skills[j].canonical = {}}}
      usable(k) == {i \in DOMAIN cells : cells[i].key = {k} /\ Reviewable(cells[i])}
  IN  {cells[Min(usable(k))] : k \in {x \in pending : usable(x) # {}}}

----------------------------------------------------------------------------
\* The stored signals of a person: append-only, newest first, by type where one is asked for.

SignalsForCandidate(rows, candidate, type) ==
  SetToSortSeq({r \in rows : r.candidate = candidate /\ (type = {} \/ r.type \in type)},
               LAMBDA a, b : a.at > b.at \/ (a.at = b.at /\ a.id > b.id))
LatestForSource(rows, candidate, type) ==
  LET signals == SignalsForCandidate(rows, candidate, {type}) IN IF signals = <<>> THEN {} ELSE {signals[1]}

\* A row of before there were two kinds of activity gets the kind of its source.
BackfillActivityKind(row) ==
  IF row.kind = {} THEN [row EXCEPT !.kind = {IF row.type = "linkedin_export" THEN "linkedin_export" ELSE "github"}] ELSE row
=============================================================================
