------------------------------ MODULE Ranking ------------------------------
(***************************************************************************)
(* The two ranking engines: features filtered and scored over a pool, and  *)
(* the matching of a requisition that is compiled into such a ranking.     *)
(* An optional value is the set of at most one value; what the code        *)
(* refuses with an exception is a predicate here.                          *)
(***************************************************************************)
EXTENDS Fractions

Some(option) == CHOOSE v \in option : TRUE

\* features/schema.py: what a FeatureSpec may be.
Numeric == {"numeric", "integer"}
Categorical == {"categorical", "ordinal"}
ConsentSources == {"ledger", "reputation"}

FeatureSpecOK(spec) ==
  /\ spec.version >= 1
  /\ spec.range # {} => spec.dtype \in Numeric /\ Some(spec.range)[1] <= Some(spec.range)[2]
  /\ spec.dtype \in Categorical <=> spec.categories # <<>>
  /\ spec.consent <=> spec.source \in ConsentSources

CheckRange(spec, v) == spec.range # {} => v \in Some(spec.range)[1]..Some(spec.range)[2]

\* registry.py: a value outside its spec is an error, never clamped.
ValidateValue(spec, value) ==
  IF value = {} THEN spec.nullable
  ELSE CASE spec.dtype = "boolean" -> Some(value) \in BOOLEAN
         [] spec.dtype \in Numeric -> Some(value) \in Int /\ CheckRange(spec, Some(value))
         [] spec.dtype \in Categorical -> Some(value) \in ToSet(spec.categories)

\* The registry maps a name and a version to one spec; a view pins each name's latest.
Register(registry, spec) == registry @@ (<<spec.name, spec.version>> :> spec)
LatestVersion(registry, name) == Max({k[2] : k \in {x \in DOMAIN registry : x[1] = name}})
LatestView(registry) == {<<n, LatestVersion(registry, n)>> : n \in {k[1] : k \in DOMAIN registry}}
ComputeView(registry, view, values) ==
  [values |-> [n \in {m[1] : m \in view} |-> values[n]],
   missing |-> {n \in {m[1] : m \in view} : values[n] = {}}]

----------------------------------------------------------------------------
\* features/ranking.py

Minmax(x, lo, hi) == IF hi = lo THEN Half ELSE Clamp01(<<x - lo, hi - lo>>)

Position(cats, v) == SelectInSeq(cats, LAMBDA c : c = v) - 1

NormalizeValue(spec, value, direction, pool) ==
  IF value = {} THEN {}
  ELSE LET v == Some(value)
           norm == CASE spec.dtype = "boolean" -> IF v THEN One ELSE Zero
                     [] spec.dtype = "ordinal" ->
                          IF Len(spec.categories) = 1 THEN Zero
                          ELSE <<Position(spec.categories, v), Len(spec.categories) - 1>>
                     [] spec.dtype \in Numeric /\ spec.range # {} ->
                          Minmax(v, Some(spec.range)[1], Some(spec.range)[2])
                     [] spec.dtype \in Numeric /\ spec.range = {} -> Minmax(v, Min(pool), Max(pool))
       IN  {IF direction = "lower_better" THEN Minus(One, norm) ELSE norm}

OrderKey(spec, v) == IF spec.dtype = "ordinal" THEN Position(spec.categories, v) ELSE v

Ordered == {"gt", "gte", "lt", "lte"}

\* ranking_schema.py: a filter's value fits its operator.
FilterOK(f) == (f.op \in {"exists", "missing"}) = (f.value = {})

FilterMatches(spec, value, op, target) ==
  CASE op = "exists" -> value # {}
    [] op = "missing" -> value = {}
    [] OTHER -> /\ value # {}
                /\ LET v == Some(value)
                       t == Some(target)
                   IN  CASE op = "eq" -> v = t
                         [] op = "ne" -> v # t
                         [] op = "in_" -> v \in t
                         [] op = "not_in" -> v \notin t
                         [] op = "gt" -> OrderKey(spec, v) > OrderKey(spec, t)
                         [] op = "gte" -> OrderKey(spec, v) >= OrderKey(spec, t)
                         [] op = "lt" -> OrderKey(spec, v) < OrderKey(spec, t)
                         [] op = "lte" -> OrderKey(spec, v) <= OrderKey(spec, t)

ApplyFilters(vectors, filters, specs) ==
  {v \in vectors : \A f \in filters : FilterMatches(specs[f.feature], v.values[f.feature], f.op, f.value)}

\* What the engine refuses instead of scoring: an unordered comparison, an unrankable term.
Refuses(filters, terms, specs) ==
  \/ \E f \in filters : f.op \in Ordered /\ specs[f.feature].dtype \notin Numeric \cup {"ordinal"}
  \/ \E t \in terms : specs[t.feature].dtype = "categorical"

\* A missing value drops its term: the score is over the weight that is present.
Composite(v, terms, specs, pools) ==
  LET norm(t) == NormalizeValue(specs[t.feature], v.values[t.feature], t.direction, pools[t.feature])
      present == {t \in terms : norm(t) # {}}
      total == MapThenSumSet(LAMBDA t : t.weight, terms)
      weight == MapThenSumSet(LAMBDA t : t.weight, present)
  IN  [id |-> v.id,
       score |-> IF present = {} THEN Zero
                 ELSE Over(SumOver(present, LAMBDA t : Times(Some(norm(t)), Whole(t.weight))), Whole(weight)),
       coverage |-> <<weight, total>>,
       missing |-> {t.feature : t \in terms \ present}]

Score(vectors, terms, specs) ==
  LET pools == [f \in DOMAIN specs |-> UNION {v.values[f] : v \in vectors}]
  IN  SetToSortSeq({Composite(v, terms, specs, pools) : v \in vectors},
                   LAMBDA a, b : Less(b.score, a.score) \/ (Same(a.score, b.score) /\ a.id < b.id))

\* talent_search: filters narrow, scores order, the limit cuts the answer.
TalentSearch(vectors, filters, terms, specs, limit) ==
  LET filtered == ApplyFilters(vectors, filters, specs)
      ranked == Score(filtered, terms, specs)
  IN  [pool |-> Cardinality(vectors), filtered |-> Cardinality(filtered),
       ranked |-> SubSeq(ranked, 1, Min({limit, Len(ranked)}))]

----------------------------------------------------------------------------
\* matching/match.py and the requisition it compiles.

CompBandOK(band) == band.min # {} /\ band.max # {} => Some(band.min) <= Some(band.max)

RequisitionOK(req) ==
  /\ req.must # {} \/ req.nice # {}
  /\ req.degree \subseteq {"none", "diploma", "bachelor", "master", "doctorate"}
  /\ req.tiers \subseteq {"metro", "tier_2"}
  /\ CompBandOK(req.band)

\* Free-text skills become taxonomy ids, or their own key; what is left of nothing drops.
Canonicalize(skills, canonical) == {canonical[s] : s \in skills} \ {""}
UsableSkills(req, canonical) == Canonicalize(req.must \cup req.nice, canonical) # {}

MatchDefaults == [skill |-> 3, years |-> 1, degree |-> 1, notice |-> 1, location |-> 1]
NiceFraction == <<3, 10>>
MatchWeight(override, default) == IF override = {} THEN default ELSE Some(override)

SkillCoverage(req, have) ==
  LET part(asked) == <<Cardinality(asked \cap have), Cardinality(asked)>>
  IN  CASE req.must # {} /\ req.nice # {} ->
             Plus(Times(part(req.must), Minus(One, NiceFraction)), Times(part(req.nice), NiceFraction))
        [] req.must # {} /\ req.nice = {} -> part(req.must)
        [] req.must = {} /\ req.nice # {} -> part(req.nice)
        [] OTHER -> Zero

LocationFit(req, tier) ==
  IF req.remote \/ req.tiers = {} \/ tier = {} THEN {}
  ELSE {IF tier \subseteq req.tiers THEN 1 ELSE 0}

Term(feature, weight, direction) == {[feature |-> feature, weight |-> weight, direction |-> direction]}
If(condition, terms) == IF condition THEN terms ELSE {}

CompileRanking(req) ==
  LET w(term) == MatchWeight(req.weights[term], MatchDefaults[term]) IN
  Term("skill_coverage", w("skill"), "higher_better")
    \cup If(req.years # {}, Term("years", w("years"), "higher_better"))
    \cup If(req.degree # {}, Term("degree", w("degree"), "higher_better"))
    \cup If(req.notice # {}, Term("notice", w("notice"), "lower_better"))
    \cup If(req.tiers # {} /\ ~req.remote, Term("location_fit", w("location"), "higher_better"))

\* The one opt-in gate: a floor under the skill coverage.
CompileFilters(req) ==
  If(req.floor # {}, {[feature |-> "skill_coverage", op |-> "gte", value |-> req.floor]})

\* Coverage is carried in hundredths here; without a profile both job-relative values
\* are missing.  `base` are the specs of the stored features, `profiles` by candidate.
MatchSpecs(base) ==
  [f \in DOMAIN base \cup {"skill_coverage", "location_fit"} |->
     IF f \in DOMAIN base THEN base[f]
     ELSE [dtype |-> "numeric", range |-> {IF f = "skill_coverage" THEN <<0, 100>> ELSE <<0, 1>>},
           categories |-> <<>>]]

Match(req, vectors, profiles, base) ==
  LET hundredths(a) == (a[1] * 100) \div a[2]
      synthetic(v) ==
        IF v.id \notin DOMAIN profiles THEN [skill_coverage |-> {}, location_fit |-> {}]
        ELSE [skill_coverage |-> {hundredths(SkillCoverage(req, profiles[v.id].skills))},
              location_fit |-> LocationFit(req, profiles[v.id].tier)]
      augmented == {[v EXCEPT !.values = synthetic(v) @@ @] : v \in vectors}
  IN  Score(ApplyFilters(augmented, CompileFilters(req), MatchSpecs(base)), CompileRanking(req), MatchSpecs(base))

=============================================================================
