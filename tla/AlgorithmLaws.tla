--------------------------- MODULE AlgorithmLaws ---------------------------
(***************************************************************************)
(* What the pure algorithms promise, evaluated over bounded inputs before  *)
(* every run of a module that extends this one.                            *)
(***************************************************************************)
EXTENDS Integers, Sequences, FiniteSets

R == INSTANCE Ranking
V == INSTANCE FeatureValues
Q == INSTANCE SignalQuality
Mig == INSTANCE Migrations
LOCAL INSTANCE FiniteSetsExt

----------------------------------------------------------------------------
\* Ranking.

SampleSpec(dtype, range, cats) == [dtype |-> dtype, range |-> range, categories |-> cats]
SampleSpecs == [years |-> SampleSpec("numeric", {<<0, 4>>}, <<>>), notice |-> SampleSpec("integer", {}, <<>>),
                degree |-> SampleSpec("ordinal", {}, <<"none", "bachelor", "master">>)]
SampleValues == [years : {{}, {0}, {3}}, notice : {{}, {0}, {30}}, degree : {{}, {"none"}, {"master"}}]
SampleTerms == {[feature |-> "years", weight |-> 3, direction |-> "higher_better"],
                [feature |-> "notice", weight |-> 1, direction |-> "lower_better"],
                [feature |-> "degree", weight |-> 1, direction |-> "higher_better"]}
SamplePool(a, b) == {[id |-> 1, values |-> a], [id |-> 2, values |-> b]}
SampleRank(S) == R!Score(S, SampleTerms, SampleSpecs)
SampleScore(id, S) == LET r == SampleRank(S) IN (CHOOSE i \in DOMAIN r : r[i].id = id)

\* Every candidate of the pool is ranked, each score and share is between zero and one,
\* and the order is the scores' (scoring narrows nobody).
ASSUME RankingKeepsThePool ==
  \A a, b \in SampleValues :
    LET r == SampleRank(SamplePool(a, b))
    IN  /\ {r[i].id : i \in DOMAIN r} = {1, 2} /\ Len(r) = 2
        /\ \A i \in DOMAIN r : R!Unit(r[i].score) /\ R!Unit(r[i].coverage)
        /\ R!AtMost(r[2].score, r[1].score)

\* A missing value costs nothing: the same candidate scores the same over the other terms.
ASSUME MissingTermIsNoPenalty ==
  \A a, b \in SampleValues :
    LET left == {t \in SampleTerms : a[t.feature] # {}}
        S == SamplePool(a, b)
        with == SampleRank(S)
        without == R!Score(S, left, SampleSpecs)
        at(r) == r[CHOOSE i \in DOMAIN r : r[i].id = 1].score
    IN  left # {} => R!Same(at(with), at(without))

\* More years never rank a candidate lower, whatever else is known of either.
ASSUME MoreYearsRankNoLower ==
  \A a, b \in SampleValues : a.years = {0} =>
    SampleScore(1, SamplePool([a EXCEPT !.years = {3}], b)) <= SampleScore(1, SamplePool(a, b))

SampleBand == [min |-> {}, max |-> {}]
SampleRequisitions == [must : SUBSET {"a", "b"}, nice : SUBSET {"c"}, years : {{}}, degree : {{}}, notice : {{}, {30}},
                       tiers : SUBSET {"metro"}, remote : BOOLEAN, floor : {{}, {50}}, band : {SampleBand},
                       weights : {[k \in {"skill", "years", "degree", "notice", "location"} |-> {}]}]
SampleProfiles == [1..2 -> [skills : SUBSET {"a", "c"}, tier : {{}, {"tier_2"}}]]

\* Without the opt-in floor nobody is dropped, and with it exactly those below it; a
\* candidate that has every skill another has is never ranked below it for its skills.
ASSUME MatchingIsAdvisory ==
  \A req \in {q \in SampleRequisitions : R!RequisitionOK(q) /\ q.notice = {} /\ q.tiers = {}} :
    \A known \in SampleProfiles :
      LET vectors == {[id |-> i, values |-> [notice |-> {}]] : i \in 1..2}
          r == R!Match(req, vectors, known, [notice |-> SampleSpecs.notice])
          cov(i) == R!SkillCoverage(req, known[i].skills)
      IN  /\ {r[i].id : i \in DOMAIN r} =
               {i \in 1..2 : req.floor = {} \/ R!AtMost(<<1, 2>>, cov(i))}
          /\ Len(r) = 2 /\ known[2].skills \subseteq known[1].skills => r[1].id = 1

----------------------------------------------------------------------------
\* Pay bands, reputation, feature values.

SamplePoint == [total : {0, 100, 900}, age : {-1, 0, 2}]
SampleCell == V!ComputedCell([family |-> "qa", seniority |-> "junior", tier |-> "tier_2"])
Alike(p, n) == [i \in 1..n |-> p]

\* Below the floor of five, offers move nothing: an estimate never shows whose they are.
\* Above it the estimate lies between the prior and what was paid, and the band around it.
ASSUME OffersMoveTheEstimate ==
  \A n \in 0..6, p, q \in SamplePoint :
    LET points == Append(Alike(p, n), q)
        e == V!EstimateComp(SampleCell, points)
        prior == V!EstimateComp(SampleCell, <<>>)
        paid == {r.total : r \in {p, q}}
    IN  /\ Len(points) < 5 => e = prior
        /\ V!AtMost(e.p25, e.p50) /\ V!AtMost(e.p50, e.p75)
        /\ V!AtMost(prior.confidence, e.confidence) /\ V!AtMost(e.confidence, V!Cent(90))
        /\ \/ \E t \in paid : V!AtMost(V!Whole(t), e.p50)
           \/ V!AtMost(prior.p50, e.p50)
        /\ \/ \E t \in paid : V!AtMost(e.p50, V!Whole(t))
           \/ V!AtMost(e.p50, prior.p50)

\* A requisition is placed on exactly one side of the market, and "at" it within a tenth.
ASSUME BenchmarkIsConsistent ==
  \A low, high \in {{}, {0}, {450}, {500}, {900}} :
    LET est == [p50 |-> V!Whole(500)]
        at == V!BenchmarkComp(est, [min |-> low, max |-> high])
    IN  /\ (at = "none") = (low = {} /\ high = {})
        /\ low = high /\ low = {450} => at = "at"
        /\ low = {900} /\ high = {} => at = "above"
        /\ low = {} /\ high = {0} => at = "below"

SampleRecords == [outcome : {"hired", "rejected", "withdrawn"}, age : {0, 3}, org : {"o", "p"}]
SampleRounds == [percentile : {{}, {95}}, max : {0, 10}, score : {1}, age : {0}, org : {"o"}]
Assess(records, rounds) == V!AssessReputation(records, rounds, [o \in {"o", "p"} |-> 1])

\* One organization, however often it says so, brands nobody; a withdrawal changes
\* nothing; and evidence for a person never lowers the score.
ASSUME OneOrganizationBrandsNobody ==
  \A r, q \in SampleRecords, c \in SampleRounds, n \in 0..7 :
    LET many == Alike(r, n)
        a == Assess(Append(many, q), <<c>>)
        b == Assess(many, <<c>>)
    IN  /\ a.orgs < 2 => a.band \notin {"strong", "guarded"}
        /\ V!Unit(a.score) /\ V!AtMost(a.confidence, V!Cent(90))
        /\ q.outcome = "withdrawn" => a.score = b.score /\ a.band = b.band
        /\ q.outcome = "hired" => V!AtMost(b.score, a.score)

\* The months of experience are the months some job covers, each counted once.
ASSUME MonthsCountedOnce ==
  \A a, b, c \in {<<x, y>> \in (0..3) \X (0..5) : x <= y} :
    V!TotalMonths({a, b, c}) = Cardinality((a[1]..a[2]) \cup (b[1]..b[2]) \cup (c[1]..c[2]))

\* A role is always one of the vocabulary, and more years are never a lower band.
ASSUME RolesResolve ==
  LET alphabet == <<"backend", "data", "devops", "frontend", "fullstack", "manager", "ml", "mobile", "qa", "scientist">>
      bands == <<"junior", "mid", "senior", "lead">>
      rank(y) == CHOOSE i \in 1..4 : bands[i] = V!ResolveSeniority({y})
  IN  /\ \A skills \in SUBSET {"react", "docker", "python", "cobol"}, title \in SUBSET {"qa", "any manager"} :
           V!ResolveRoleFamily(skills, title, alphabet) \in V!RoleFamilies
      /\ \A x \in 0..12, y \in 0..12 : x <= y => rank(x) <= rank(y)

----------------------------------------------------------------------------
\* The feature registry.

SampleDates == [start : {{}, {[year |-> 1950, month |-> {}]}, {[year |-> 2020, month |-> {13}]}},
                end : {{}, {[year |-> 2019, month |-> {6}]}}, current : BOOLEAN]
SampleCv(experience, education, days, tier) ==
  [experience |-> experience, projects |-> {}, certifications |-> {"c"}, skills |-> {[canonical |-> TRUE], [canonical |-> FALSE]},
   education |-> education, notice |-> days, tier |-> tier, links |-> {"github"}]
SampleEducation == {[degree |-> "bachelor", tier |-> "tier_2", cgpa |-> {8}], [degree |-> "other", tier |-> "", cgpa |-> {}]}
SampleCvs ==
  {SampleCv({d, e}, {}, {}, "metro") : d, e \in SampleDates}
    \cup {SampleCv({}, edu, days, tier) : edu \in SUBSET SampleEducation, days \in {{}, {-1}, {30}, {999}}, tier \in {"", "tier_2"}}
SampleVerdicts == {<<>>, <<"coherent">>, <<"incoherent", "coherent", "coherent">>}
SampleRisks == {{}} \cup {{[version |-> n, score |-> <<2, 3>>, band |-> "moderate"]} : n \in 1..2}
SampleReports ==
  [depth : {V!Zero, V!One}, confidence : {V!Half}, band : {"solid"}, verdicts : SampleVerdicts, flagged : {{"c"}},
   deferred : {{}}, risk : SampleRisks, ai : {{"likely"}}, crossField : {{}, {<<"major", "minor", "major">>}},
   farm : {{}, {"unique"}}]
SampleContext(profile, report, records, rounds) ==
  [now |-> 2024 * 12, profile |-> profile, report |-> report, records |-> records, rounds |-> rounds]
SampleContexts ==
  {SampleContext({p}, {}, <<>>, <<>>) : p \in SampleCvs} \cup {SampleContext({}, {r}, <<>>, <<>>) : r \in SampleReports}
    \cup {SampleContext({}, {}, Alike(r, n), <<c>>) : r \in SampleRecords, c \in SampleRounds, n \in {0, 9}}
SampleNothing == V!AllFeatures(SampleContext({}, {}, <<>>, <<>>))
SampleRegistry == R!FoldLeft(R!Register, <<>>, [i \in DOMAIN SampleNothing |-> SampleNothing[i][1]])
SampleView == R!LatestView(SampleRegistry)
SampleKey(spec) == <<spec.name, spec.version>>

\* Registration refuses no feature: no two share a name and a version, each spec is one the
\* schema admits, exactly what reads the ledger asks for consent, and the latest view pins
\* the factual risk and never the withdrawn one beside it.
ASSUME RegistryIsSound ==
  LET specs == {SampleRegistry[k] : k \in DOMAIN SampleRegistry}
      shared == V!LedgerFeatures(SampleContext({}, {}, <<>>, <<>>))
  IN  /\ Cardinality(DOMAIN SampleRegistry) = Len(SampleNothing)
      /\ \A s \in specs : R!FeatureSpecOK(s) /\ SampleRegistry[SampleKey(s)] = s
      /\ {s \in specs : s.consent} = {shared[i][1] : i \in DOMAIN shared}
      /\ \A m, n \in SampleView : m[1] = n[1] => m = n
      /\ {<<"risk_score", 2>>, <<"risk_band", 2>>} \subseteq SampleView

\* No snapshot makes the registry raise: whatever dates, notice periods and percentages a
\* resume or an organization states, every feature's value is one its spec admits.
ASSUME FeaturesFitTheirSpecs ==
  \A ctx \in SampleContexts :
    LET all == V!AllFeatures(ctx)
    IN  \A i \in DOMAIN all : R!ValidateValue(all[i][1], all[i][2])

\* A vector of the latest view names every feature it pins, says which are missing, and takes
\* the risk of one scorer only: that of the other is a missing value, never a zero.
ASSUME VectorsNameWhatIsMissing ==
  LET registry == SampleRegistry
      keys == DOMAIN registry
      view == SampleView
      latest == [n \in {m[1] : m \in view} |-> <<n, R!LatestVersion(registry, n)>>]
      place == [k \in keys |-> CHOOSE i \in DOMAIN SampleNothing : SampleKey(SampleNothing[i][1]) = k]
  IN \A ctx \in SampleContexts :
    LET all == V!AllFeatures(ctx)
        value == [k \in keys |-> all[place[k]][2]]
        vector == R!ComputeView(registry, view, [n \in DOMAIN latest |-> value[latest[n]]])
    IN  /\ Cardinality(DOMAIN vector.values) = Cardinality(view)
        /\ value[<<"risk_score", 1>>] = {} \/ value[<<"risk_score", 2>>] = {}
        /\ (vector.values["risk_score"] = {}) = (vector.values["risk_band"] = {})
        /\ ctx.report = {} => {"depth_score", "depth_band", "verdict_count"} \subseteq vector.missing
        /\ vector.missing \cap {"interview_record_count", "distinct_orgs", "score", "confidence", "band"} = {}

----------------------------------------------------------------------------
\* Searching the pool, and the role a requisition is priced as.

SampleOps == {"eq", "ne", "in_", "not_in", "gt", "gte", "lt", "lte", "exists", "missing"}
SampleTarget(op) ==
  CASE op \in {"exists", "missing"} -> {} [] op \in {"in_", "not_in"} -> {{0, 3}} [] OTHER -> {3}
SampleFilter(op) == [feature |-> "years", op |-> op, value |-> SampleTarget(op)]
SampleOpposites == {<<"eq", "ne">>, <<"in_", "not_in">>, <<"gt", "lte">>, <<"gte", "lt">>}
SampleVectors ==
  {[id |-> i, values |-> [years |-> {<<0, 3, 4>>[i]}, notice |-> {}, degree |-> {"none"}]] : i \in 1..3}
SampleUnknown == {[id |-> 4, values |-> [years |-> {}, notice |-> {}, degree |-> {}]]}

\* A filter and its opposite split those whose value is known, and neither keeps who has
\* none: a search "less than three years" does not find a person whose years are unknown.
ASSUME OppositeFiltersSplitTheKnown ==
  /\ \A pair \in SampleOpposites :
       LET kept(op) == R!ApplyFilters(SampleVectors \cup SampleUnknown, {SampleFilter(op)}, SampleSpecs)
       IN  /\ kept(pair[1]) \cup kept(pair[2]) = SampleVectors
           /\ kept(pair[1]) \cap kept(pair[2]) = {}
  /\ R!ApplyFilters(SampleVectors \cup SampleUnknown, {SampleFilter("missing")}, SampleSpecs) = SampleUnknown
  /\ \A op \in SampleOps : R!FilterOK(SampleFilter(op))

\* A search narrows and orders and drops nobody else: who passes the filters is ranked, up
\* to the limit, a longer answer begins with the shorter one, and another filter never
\* brings anyone back.  Only an ordered comparison with a feature without order is refused.
ASSUME SearchNarrowsAndOrders ==
  \A one, other \in SampleOps \ {"in_", "not_in"}, limit \in 1..4 :
    LET pool == SampleVectors \cup SampleUnknown
        some == {SampleFilter(one)}
        both == some \cup {SampleFilter(other)}
        found == R!TalentSearch(pool, some, SampleTerms, SampleSpecs, limit)
        all == R!TalentSearch(pool, some, SampleTerms, SampleSpecs, 4)
        fewer == R!TalentSearch(pool, both, SampleTerms, SampleSpecs, 4)
        ids(r) == {r.ranked[i].id : i \in DOMAIN r.ranked}
    IN  /\ found.pool = 4 /\ found.filtered = all.filtered /\ Len(all.ranked) = all.filtered
        /\ found.ranked = SubSeq(all.ranked, 1, Len(found.ranked))
        /\ Len(found.ranked) = IF all.filtered < limit THEN all.filtered ELSE limit
        /\ ids(fewer) \subseteq ids(all)
        /\ ~R!Refuses(both, SampleTerms, SampleSpecs)
        /\ R!Refuses({[SampleFilter(one) EXCEPT !.feature = "tier"]}, {}, [tier |-> SampleSpec("categorical", {}, <<"a">>)])
             = (one \in R!Ordered)

\* Aliases of one skill are asked for once, so that naming a skill twice never halves what
\* a candidate without it is worth; a requisition is refused exactly when nothing is left.
ASSUME AliasesAreOneSkill ==
  LET canonical == [js |-> "javascript", javascript |-> "javascript", go |-> "go", blank |-> ""] IN
  \A must, nice \in SUBSET DOMAIN canonical :
    LET asked == R!Canonicalize(must, canonical)
        plain(M, N) == [must |-> M, nice |-> N]
    IN  /\ R!UsableSkills(plain(must, nice), canonical) = ((must \cup nice) \ {"blank"} # {})
        /\ asked = {"javascript", "go"} =>
             R!Same(R!SkillCoverage(plain(asked, {}), {"go"}), R!Half)

SampleAlphabet == <<"backend", "data", "devops", "frontend", "fullstack", "manager", "ml", "mobile", "qa", "scientist">>
SampleJobs == [must : SUBSET {"react", "docker"}, title : SUBSET {"qa", "backend"}, years : {{}, {1}, {9}},
               tiers : {<<>>, <<"tier_2">>, <<"metro", "tier_2">>, <<"abroad">>}]
SampleOverride == [k \in {[family |-> "qa", seniority |-> "junior", tier |-> "tier_2"], [family |-> "qa", seniority |-> "mid", tier |-> "metro"]} |->
                     [wellformed |-> k.seniority = "junior", cell |-> [low |-> 1, mid |-> 2, high |-> 3, variable |-> 0]]]

\* Whatever a requisition says, the role it is priced as has a cell: each of its parts is of
\* the vocabulary, so the lookup never fails.  What the caller names is taken as named, and
\* the same words are priced alike from a form and from a stored requisition.
ASSUME EveryRoleHasACell ==
  \A job \in SampleJobs, family \in {{}, {"manager"}} :
    LET stored == V!RoleSignalFromRequisition(job, SampleAlphabet)
        form == [family |-> family, seniority |-> {}, skills |-> job.must, title |-> job.title, years |-> job.years, tiers |-> job.tiers]
        named == V!RoleSignalFromInput(form, SampleAlphabet)
    IN  /\ stored.family \in V!RoleFamilies /\ stored.tier \in V!CityTiers /\ stored.seniority \in DOMAIN V!SeniorityMult
        /\ V!RoleFamilyOK(family) /\ named = IF family = {} THEN stored ELSE [stored EXCEPT !.family = "manager"]
        /\ job.tiers = <<"abroad">> => stored.tier = "metro"

\* The operator's file replaces the cells it states well and no other; one that cannot be
\* read, and a row of it that is malformed, leave the built-in cell.
ASSUME OverrideReplacesOnlyItsCells ==
  \A readable \in BOOLEAN, family \in {"qa", "ml"}, seniority \in {"junior", "mid"}, tier \in V!CityTiers :
    LET signal == [family |-> family, seniority |-> seniority, tier |-> tier]
        cell == V!LookupCell(signal, [readable |-> readable, cells |-> SampleOverride])
    IN  cell = IF readable /\ signal = [family |-> "qa", seniority |-> "junior", tier |-> "tier_2"]
               THEN SampleOverride[signal].cell ELSE V!ComputedCell(signal)

----------------------------------------------------------------------------
\* Measures of the signals.

SampleScores == [1..4 -> {<<0, 1>>, <<1, 2>>, <<1, 1>>}]
SampleLabels == {l \in [1..4 -> BOOLEAN] : ~Q!DegenerateClass(l)}

\* The area is the share of pairs of a positive and a negative that the score puts in the
\* right order, a tie counting half.
ASSUME AreaIsOrderedPairs ==
  \A s \in SampleScores, l \in SampleLabels :
    LET pairs == {p \in (1..4) \X (1..4) : l[p[1]] /\ ~l[p[2]]}
        right == {p \in pairs : Q!Less(s[p[2]], s[p[1]])}
        tied == {p \in pairs : Q!Same(s[p[2]], s[p[1]])}
    IN  /\ Q!Same(Q!Auc(s, l), <<2 * Cardinality(right) + Cardinality(tied), 2 * Cardinality(pairs)>>)
        /\ Q!Unit(Q!Brier(s, l))

\* Every score is in exactly one bin, within its bounds, and the lifts of the bands average
\* to one over the sample.
ASSUME BinsAndBandsAreThePopulation ==
  \A s \in SampleScores, l \in SampleLabels :
    LET curve == Q!CalibrationCurve(s, l, 2)
        lifts == Q!LiftByBand(s, l)
    IN  /\ curve[1].n + curve[2].n = 4
        /\ \A b \in 1..2 : \A m \in curve[b].predicted : Q!AtMost(curve[b].lower, m) /\ Q!AtMost(m, curve[b].upper)
        /\ Q!Same(Q!SumOver(lifts, LAMBDA b : Q!Times(<<b.n, 4>>, CHOOSE x \in b.lift : TRUE)), Q!One)

SampleJudgments == [report : {1}, by : {"operator", "recruiter"}, at : {4, 5, 6},
                    outcome : {"verified_fabricated", "verified_genuine", "inconclusive"}]
SampleReported == {[id |-> 1, created |-> 4]}

\* A judgment recorded later never changes the label of a report, and none made before
\* the report is one.
ASSUME LabelsAreStable ==
  \A a, b, c \in SampleJudgments, operators \in BOOLEAN :
    LET now == Q!OutcomeLabels(SampleReported, <<a, b>>, operators)
        later == Q!OutcomeLabels(SampleReported, <<a, b, c>>, operators)
    IN  /\ now # {} => later = now
        /\ \A l \in later : l.at > 4 /\ Cardinality(later) = 1

SampleRisk(version) == [score |-> Q!Half, band |-> "low", version |-> version]
SampleReport(version) ==
  [id |-> 1, created |-> 0, risk |-> {SampleRisk(version)}, ai |-> {}, crossField |-> {[score |-> Q!Zero, band |-> "consistent", findings |-> {}]},
   farm |-> {}, depth |-> Q!Half, depthBand |-> "solid", confidence |-> Q!One]

\* Every signal is reported once; a signal is measured only from enough labels of its own
\* kind with both answers among them, and never from a risk another scorer wrote.
ASSUME OnlyEnoughOfTheRightKind ==
  \A v, w \in 1..2, p, q \in BOOLEAN, kind \in {"fraud", "hire"}, min \in 1..3 :
    LET r == Q!Measure(<<[report |-> SampleReport(v), positive |-> p], [report |-> SampleReport(w), positive |-> q]>>, min, kind, 2)
        of(name) == r.signals[CHOOSE s \in DOMAIN r.signals : s.name = name]
    IN  /\ Cardinality(DOMAIN r.signals) = 12
        /\ \A s \in DOMAIN r.signals : r.signals[s].measured => s.kind = kind /\ p # q /\ r.signals[s].n >= min
        /\ of("fabrication_risk.score").measured => v = 2 /\ w = 2
        /\ of("cross_field.major_findings").measured = (kind = "fraud" /\ p # q /\ min <= 2)
        /\ ~of("ai_generation.band").measured

\* Somebody who withdrew before the last look is in no sample.
ASSUME WithdrawnIsInNoSample ==
  \A now \in [1..3 -> BOOLEAN], when, observed, withheld \in BOOLEAN :
    LET reports == {[id |-> 1, candidate |-> "c"]}
        labels == Q!LedgerLabels(reports, [c |-> [when |-> <<when>>, now |-> now]],
                                 [c |-> {[hired |-> TRUE, at |-> 5, observed |-> observed, withheld |-> withheld]}])
    IN  (labels # {}) = (when /\ observed /\ ~withheld /\ \A i \in 1..3 : now[i])

----------------------------------------------------------------------------
\* Schema revisions.  In the sample database every table has a row of each owner, which
\* refers to the rows of that owner; an owner is a person with an organization.

SampleOwners == {"a", "b"}
SampleGiven(table, owner) ==
  CASE table = "organizations" -> [name |-> {[text |-> owner, lower |-> owner]}]
    [] table = "resumes" -> [raw_text |-> {"text"}, text_sha256 |-> {"text"}]
    [] table = "batch_items" -> [status |-> {"done"}, raw_text |-> {""}, text_sha256 |-> {"text"}]
    [] table = "outcomes" -> [recorded_by |-> {"operator"}]
    [] table = "auth_sessions" -> [org_user_id |-> Mig!Null, admin_user_id |-> Mig!Null]
    [] table = "audit_log" -> [action |-> {"auth.session.create"}]
    [] table = "candidates" -> [login_binding_review_required |-> {FALSE}]
    [] table = "unmapped_terms" -> [provenance |-> {"legacy_unattributed"}]
    [] OTHER -> <<>>
SampleInsert(db, table, owner) ==
  LET given == SampleGiven(table, owner)
      refs == [c \in {r.column : r \in db[table].refs} |-> {owner}]
      values == [c \in DOMAIN refs \cup DOMAIN given |-> IF c \in DOMAIN given THEN given[c] ELSE refs[c]]
  IN  Mig!Insert(db, table, owner, values)
SampleFilled(db, tables) ==
  FoldSet(LAMBDA t, acc : FoldSet(LAMBDA o, inner : SampleInsert(inner, t, o), acc, SampleOwners), db, tables)
SampleAt(k) == Mig!Climb(Mig!Empty, 0, k).db
SampleDatabase == LET db == SampleAt(Mig!LastRevision) IN SampleFilled(db, DOMAIN db \ {"screening_erasure_state"})
SampleGeneration(db) == CHOOSE g \in db["screening_erasure_state"].rows["1"].generation : TRUE
SampleNoDangling(db) ==
  \A t \in DOMAIN db : \A i \in DOMAIN db[t].rows, r \in db[t].refs :
    /\ db[t].rows[i][r.column] \subseteq DOMAIN db[r.to].rows
    /\ r.required => db[t].rows[i][r.column] # Mig!Null

\* Every revision can be applied to the schema the ones before it leave, and taken back,
\* which restores that schema: no reference, key or table is left behind or missed.
ASSUME EveryRevisionIsTakenBack ==
  \A k \in 1..Mig!LastRevision :
    LET before == SampleAt(k - 1)
        up == Mig!Upgrade(before, k)
        down == Mig!Downgrade(up.db, k)
    IN  up.fits /\ down.fits /\ down.db = before

\* An erased person leaves nothing that refers to them or to what was theirs: an
\* organization's queue keeps its item with every pointer nulled, and loses the private
\* input; the deletions the guard counts are all counted, and nobody else loses anything.
SampleNotPersonal == {"organizations", "unmapped_terms", "org_users", "admin_users", "job_requisitions", "screening_batches",
                      "batch_items", "login_challenges", "login_issuances", "rate_limit_counters", "curation_aliases"}
ASSUME SchemaErasesAPerson ==
  LET db == SampleDatabase
      left == Mig!Delete(db, "candidates", "a")
      item == left["batch_items"].rows["a"]
  IN  /\ {t \in DOMAIN left : "a" \in DOMAIN left[t].rows} = SampleNotPersonal
      /\ item.candidate_id = Mig!Null /\ item.resume_id = Mig!Null /\ item.report_id = Mig!Null
      /\ SampleNoDangling(left)
      /\ SampleGeneration(left) = SampleGeneration(db) + 3
      /\ \A t \in DOMAIN db \ {"screening_erasure_state"} : left[t].rows["b"] = db[t].rows["b"]

\* An organization that leaves takes its own work with it and nothing of a person's: their
\* resumes, reports and the judgments of them stay, no longer anyone's.
ASSUME OffboardingSparesPeople ==
  LET db == SampleDatabase
      left == Mig!Delete(db, "organizations", "a")
      gone == {t \in DOMAIN left \ {"screening_erasure_state"} : "a" \notin DOMAIN left[t].rows}
  IN  /\ gone = {"organizations", "consent_grants", "interview_records", "evaluation_events", "coding_round_results",
                 "observed_offers", "job_requisitions", "org_users", "screening_batches", "batch_items", "screening_item_inputs"}
      /\ SampleNoDangling(left) /\ SampleGeneration(left) = SampleGeneration(db)
      /\ \A t \in {"resumes", "reports", "outcomes"} : left[t].rows["a"].org_id = Mig!Null

\* A report that is deleted ends the retry of the item it was written for, and the
\* judgments of it; the resume stays.
ASSUME AReportEndsItsRetry ==
  LET left == Mig!Delete(SampleDatabase, "reports", "a")
  IN  /\ {t \in DOMAIN left \ {"screening_erasure_state"} : "a" \notin DOMAIN left[t].rows}
           = {"reports", "outcomes", "screening_item_inputs"}
      /\ SampleNoDangling(left) /\ SampleGeneration(left) = 1

\* A revision refused leaves the schema as it was, so that it can be run again.
ASSUME RefusalsTouchNothing ==
  \A x, y \in {"acme", "other"} :
    LET named(db, o, text, lower) == Mig!Insert(db, "organizations", o, [name |-> {[text |-> text, lower |-> lower]}])
        db == named(named(SampleAt(18), "o", x, x), "p", "ACME", "acme")
        up == Mig!Upgrade(db, 19)
    IN  up.refused = (x = "acme") /\ (up.refused => up.db = db)

\* Taking a revision back and applying it again changes no row but in the columns and the
\* tables that are the revision's own, and those come back without what they held.
SampleTables(steps) == {steps[i].table : i \in {j \in DOMAIN steps : steps[j].kind = "create"}}
SampleColumns(steps) == {<<steps[i].table, steps[i].column>> : i \in {j \in DOMAIN steps : steps[j].kind = "add_column"}}
ASSUME RollbackTouchesItsOwn ==
  \A k \in 1..Mig!LastRevision :
    LET at == Mig!Descend(SampleDatabase, Mig!LastRevision, k)
        down == Mig!Downgrade(at.db, k)
        back == Mig!Upgrade(down.db, k).db
        own == SampleTables(Mig!Ladder[k].up)
    IN  /\ ~at.refused /\ ~down.refused /\ DOMAIN back = DOMAIN at.db
        /\ \A t \in DOMAIN back \ own : \A o \in DOMAIN at.db[t].rows, c \in back[t].columns :
             <<t, c>> \notin SampleColumns(Mig!Ladder[k].up) => back[t].rows[o][c] = at.db[t].rows[o][c]
        /\ \A t \in own \ {"screening_erasure_state"} : back[t].rows = <<>>

\* A judgment an organization recorded comes back from a rollback as the operator's, which
\* the backfill takes for a fact.
ASSUME RollbackForgetsWhoJudged ==
  \A x, y \in {"operator", "org"} :
    LET judged(db, o, by) == [db EXCEPT !["outcomes"].rows[o].recorded_by = {by}]
        db == judged(judged(Mig!Descend(SampleDatabase, Mig!LastRevision, 20).db, "a", x), "b", y)
        back == Mig!Upgrade(Mig!Downgrade(db, 20).db, 20).db
        by(d) == [o \in SampleOwners |-> d["outcomes"].rows[o].recorded_by]
    IN  (by(back) = by(db)) = (x = "operator" /\ y = "operator")

----------------------------------------------------------------------------
\* The queue across the revisions of its input.

SampleQueue(k, item, linked, reported) ==
  LET base == SampleFilled(SampleAt(k), {"organizations", "candidates", "resumes", "reports", "screening_batches"})
      owned == [batch_id |-> {"a"}, candidate_id |-> {"a"}, resume_id |-> {"a"}, report_id |-> Mig!Null, text_sha256 |-> {"text"}]
      all == [c \in DOMAIN owned \cup DOMAIN item |-> IF c \in DOMAIN item THEN item[c] ELSE owned[c]]
      db == Mig!Insert(base, "batch_items", "a", all)
  IN  IF linked THEN Mig!Insert(db, "screening_item_inputs", "a",
                                [id |-> {"a"}, resume_id |-> {"a"}, report_id |-> IF reported THEN {"a"} ELSE Mig!Null])
      ELSE db
SampleItem(db) == db["batch_items"].rows["a"]

\* What was unfinished before the guard is quarantined with its text and its input kept, and
\* never handed back to the code before it; an item that was done is left alone.
ASSUME QuarantineOutlivesRollback ==
  \A status \in {"pending", "processing", "failed", "done"}, raw \in {"", "text"}, linked, reported \in BOOLEAN :
    LET old == [status |-> {status}, raw_text |-> {raw}, error |-> Mig!Null, claimed_at |-> {0}]
        db == SampleQueue(25, old, linked, reported)
        up == Mig!Upgrade(db, 26).db
        held == status # "done" /\ (raw = "text" \/ (linked /\ ~reported))
    IN  /\ (SampleItem(up).error = {"fresh_upload_required"}) = held
        /\ held => SampleItem(up).status = {"failed"} /\ SampleItem(up).claimed_at = Mig!Null
        /\ SampleItem(up).raw_text = {raw}
        /\ up["screening_item_inputs"].rows = db["screening_item_inputs"].rows
        /\ Mig!Downgrade(up, 26).refused = held

\* Whatever is erased while the guard is there, no rollback gives an unfinished item a text
\* of the erased; one of a resume that is still there comes back.
ASSUME ErasedInputStaysErased ==
  \A status \in {"pending", "processing", "failed", "done"}, raw \in {"", "text"}, seen \in {{}, {0}},
     linked, reported \in BOOLEAN, lost \in {"candidates", "resumes", "reports", "none"} :
    LET now == [status |-> {status}, raw_text |-> {raw}, error |-> Mig!Null, claimed_at |-> Mig!Null, input_generation |-> seen]
        db == SampleQueue(26, now, linked, reported)
        after == IF lost = "none" THEN db ELSE Mig!Delete(db, lost, "a")
        down == Mig!Descend(after, 26, 23)
        kept == linked /\ (lost = "none" \/ (lost = "reports" /\ ~reported))
    IN  ~down.refused /\ status # "done" =>
          /\ (SampleItem(down.db).raw_text = {"text"}) = (raw = "text" \/ kept)
          /\ raw = "text" => lost = "none" /\ seen = {0}

\* A person who had logged in before the binding is reviewed before one is trusted; one who
\* proved a mailbox under it is reviewed when the revision is rolled back and applied
\* again, also when the session is gone.
ASSUME UnknownLoginsAreReviewed ==
  \A sessions, audits \in SUBSET SampleOwners, action \in {"auth.session.create", "other"} :
    LET base == SampleFilled(SampleAt(28), {"candidates"})
        logged == FoldSet(LAMBDA o, acc : SampleInsert(acc, "auth_sessions", o), base, sessions)
        db == FoldSet(LAMBDA o, acc : Mig!Insert(acc, "audit_log", o, [candidate_id |-> {o}, action |-> {action}]), logged, audits)
        up == Mig!Upgrade(db, 29).db
        proved == [up EXCEPT !["candidates"].rows["a"].login_email_hash = {"mailbox"},
                             !["audit_log"].rows = Mig!Insert(up, "audit_log", "new",
                                [candidate_id |-> {"a"}, action |-> {"auth.session.create"}])["audit_log"].rows,
                             !["auth_sessions"].rows = <<>>]
        again == Mig!Upgrade(Mig!Downgrade(proved, 29).db, 29).db
        review(d, o) == d["candidates"].rows[o].login_binding_review_required = {TRUE}
    IN  /\ \A o \in SampleOwners : /\ review(up, o) = (o \in sessions \/ (o \in audits /\ action = "auth.session.create"))
                                   /\ up["candidates"].rows[o].login_email_hash = Mig!Null
        /\ review(again, "a") /\ again["candidates"].rows["a"].login_email_hash = Mig!Null

=============================================================================
