--------------------------- MODULE FeatureValues ---------------------------
(***************************************************************************)
(* The values of the features of one candidate, from the snapshot the      *)
(* context holds: a profile and a report, each missing or one, and rows of *)
(* the ledger.  Months are counted from year zero.                         *)
(***************************************************************************)
EXTENDS Compensation

DegreeLevels == <<"none", "diploma", "bachelor", "master", "doctorate">>
InstTiers == <<"none", "tier_2", "tier_1">>
LocTiers == <<"unknown", "tier_2", "metro">>

\* What a feature yields from an optional part of the snapshot.
Of(part, value(_)) == {value(x) : x \in part}

\* A year alone begins in January and ends in December; a month is clamped into its year.
MonthIndex(date, end) ==
  LET month == IF date.month # {} THEN Given(date.month) ELSE IF end THEN 12 ELSE 1
  IN  date.year * 12 + Max({1, Min({12, month})}) - 1

\* The months of one experience; none without a start, or when it ends before it starts.
Interval(dates, now) ==
  LET lo == MonthIndex(Given(dates.start), FALSE)
      hi == IF dates.current \/ dates.end = {} THEN now ELSE MonthIndex(Given(dates.end), TRUE)
  IN  IF dates.start = {} \/ hi < lo THEN {} ELSE {<<lo, hi>>}

\* Sorted, then each joined to the one before if it touches it.
MergeIntervals(intervals) ==
  LET sorted == SetToSortSeq(intervals, LAMBDA a, b : a[1] < b[1] \/ (a[1] = b[1] /\ a[2] < b[2]))
      join(merged, next) ==
        IF merged # <<>> /\ next[1] <= Last(merged)[2] + 1
        THEN [merged EXCEPT ![Len(merged)] = <<@[1], Max({@[2], next[2]})>>]
        ELSE Append(merged, next)
  IN  FoldLeft(join, <<>>, sorted)

TotalMonths(intervals) ==
  LET merged == MergeIntervals(intervals)
  IN  MapThenSumSet(LAMBDA i : merged[i][2] - merged[i][1] + 1, DOMAIN merged)

YearsExperience(p, now) ==
  LET intervals == UNION {Interval(d, now) : d \in p.experience}
  IN  IF intervals = {} THEN {} ELSE {Lesser(Whole(60), <<TotalMonths(intervals), 12>>)}

\* The best of several ranks, at least the lowest.
Best(levels, found) == levels[Max({1} \cup {i \in DOMAIN levels : levels[i] \in found})]
Greatest(values) == IF values = {} THEN {} ELSE {Max(values)}

NumExperiences(p) == Cardinality(p.experience)
NumProjects(p) == Cardinality(p.projects)
NumCertifications(p) == Cardinality(p.certifications)
NumSkills(p) == Cardinality(p.skills)
NumCanonicalSkills(p) == Cardinality({s \in p.skills : s.canonical})
HighestDegreeLevel(p) == Best(DegreeLevels, {e.degree : e \in p.education})
MaxCgpa(p) == Greatest(UNION {e.cgpa : e \in p.education})
TopInstitutionTier(p) == Best(InstTiers, {e.tier : e \in p.education})
NoticePeriodDays(p) == {Max({0, Min({365, n})}) : n \in p.notice}
LocationTier(p) == IF p.tier \in {"tier_2", "metro"} THEN p.tier ELSE "unknown"
HasGithub(p) == "github" \in p.links

\* features/definitions/depth.py
DepthScore(report) == Of(report, LAMBDA r : r.depth)
OverallConfidence(report) == Of(report, LAMBDA r : r.confidence)
DepthBand(report) == Of(report, LAMBDA r : r.band)
VerdictCount(report) == Of(report, LAMBDA r : Len(r.verdicts))
FlaggedClaimCount(report) == Of(report, LAMBDA r : Cardinality(r.flagged))
DeferredClaimCount(report) == Of(report, LAMBDA r : Cardinality(r.deferred))
CoherentClaimRatio(report) ==
  {<<Len(SelectSeq(r.verdicts, LAMBDA v : v = "coherent")), Len(r.verdicts)>> :
     r \in {x \in report : x.verdicts # <<>>}}

\* features/definitions/fabrication.py: a risk of the other scorer is no value.
RiskOf(report, version) == {k \in UNION {r.risk : r \in report} : k.version = version}
RiskScore(report) == Of(RiskOf(report, 1), LAMBDA k : k.score)
RiskBand(report) == Of(RiskOf(report, 1), LAMBDA k : k.band)
FactualRiskScore(report) == Of(RiskOf(report, 2), LAMBDA k : k.score)
FactualRiskBand(report) == Of(RiskOf(report, 2), LAMBDA k : k.band)
AiGenerationBand(report) == UNION {r.ai : r \in report}
CrossFieldMajorCount(report) ==
  UNION {{Len(SelectSeq(findings, LAMBDA s : s = "major")) : findings \in r.crossField} : r \in report}
ResumeFarmBand(report) == UNION {r.farm : r \in report}

\* features/definitions/ledger.py
InterviewRecordCount(ctx) == Len(ctx.records)
CodingRoundCount(ctx) == Len(ctx.rounds)
DistinctOrgs(ctx) == Cardinality({r.org : r \in ToSet(ctx.records) \cup ToSet(ctx.rounds)})
BestCodingPercentile(ctx) == Greatest(UNION {r.percentile : r \in ToSet(ctx.rounds)})

\* Over the same rows, every organization trusted alike.
Reputation(ctx) ==
  AssessReputation(ctx.records, ctx.rounds, [o \in {r.org : r \in ToSet(ctx.records) \cup ToSet(ctx.rounds)} |-> 1])
ReputationScore(ctx) == Reputation(ctx).score
ReputationConfidence(ctx) == Reputation(ctx).confidence
ReputationBand(ctx) == Reputation(ctx).band

----------------------------------------------------------------------------
\* What each decorator registers.  Ranges are in hundredths where values are fractions.
Registered(name, version, dtype, source) ==
  [name |-> name, version |-> version, dtype |-> dtype, source |-> source, range |-> {}, categories |-> <<>>,
   nullable |-> TRUE, consent |-> FALSE]
Ranged(spec, low, high) == [spec EXCEPT !.range = {<<low, high>>}]
Levelled(spec, levels) == [spec EXCEPT !.categories = levels]
Shared(spec, nullable) == [spec EXCEPT !.consent = TRUE, !.nullable = nullable]

DepthBands == <<"insufficient_signal", "superficial", "emerging", "solid", "deep">>
RiskBands == <<"insufficient_data", "low", "moderate", "elevated">>
AiBands == <<"insufficient_text", "unlikely", "possible", "likely">>
FarmBands == <<"insufficient_data", "unique", "similar", "near_duplicate">>
RepBands == <<"insufficient_data", "guarded", "mixed", "favorable", "strong">>

\* A fraction in hundredths, rounded away from zero so that what is out of range stays out.
Hundredths(a) == IF a[1] < 0 THEN (100 * a[1]) \div a[2] ELSE -((-100 * a[1]) \div a[2])
Fraction(option) == {Hundredths(a) : a \in option}

\* Every registered feature with its value in a context, in the order they register.
CandidateFeatures(ctx) ==
  LET spec(name, dtype) == Registered(name, 1, dtype, "candidate")
      counts(name, count(_)) == <<spec(name, "integer"), Of(ctx.profile, count)>>
      from(values(_)) == UNION {values(p) : p \in ctx.profile}
  IN  <<<<Ranged(spec("years_experience", "numeric"), 0, 6000),
          Fraction(from(LAMBDA p : YearsExperience(p, ctx.now)))>>,
        counts("num_experiences", NumExperiences), counts("num_projects", NumProjects),
        counts("num_certifications", NumCertifications), counts("num_skills", NumSkills),
        counts("num_canonical_skills", NumCanonicalSkills),
        <<Levelled(spec("highest_degree_level", "ordinal"), DegreeLevels), Of(ctx.profile, HighestDegreeLevel)>>,
        <<Ranged(spec("max_cgpa_10", "numeric"), 0, 10), from(MaxCgpa)>>,
        <<Levelled(spec("top_institution_tier", "ordinal"), InstTiers), Of(ctx.profile, TopInstitutionTier)>>,
        <<Ranged(spec("notice_period_days", "integer"), 0, 365), from(NoticePeriodDays)>>,
        <<Levelled(spec("location_tier", "ordinal"), LocTiers), Of(ctx.profile, LocationTier)>>,
        <<spec("has_github", "boolean"), Of(ctx.profile, HasGithub)>>>>

DepthFeatures(ctx) ==
  LET spec(name, dtype) == Registered(name, 1, dtype, "depth")
      unit(name) == Ranged(spec(name, "numeric"), 0, 100)
  IN  <<<<unit("depth_score"), Fraction(DepthScore(ctx.report))>>,
        <<unit("overall_confidence"), Fraction(OverallConfidence(ctx.report))>>,
        <<Levelled(spec("depth_band", "ordinal"), DepthBands), DepthBand(ctx.report)>>,
        <<spec("verdict_count", "integer"), VerdictCount(ctx.report)>>,
        <<spec("flagged_claim_count", "integer"), FlaggedClaimCount(ctx.report)>>,
        <<spec("deferred_claim_count", "integer"), DeferredClaimCount(ctx.report)>>,
        <<unit("coherent_claim_ratio"), Fraction(CoherentClaimRatio(ctx.report))>>>>

FabricationFeatures(ctx) ==
  LET spec(name, version, dtype) == Registered(name, version, dtype, "fabrication")
      score(version) == Ranged(spec("risk_score", version, "numeric"), 0, 100)
      band(version) == Levelled(spec("risk_band", version, "ordinal"), RiskBands)
  IN  <<<<score(1), Fraction(RiskScore(ctx.report))>>, <<band(1), RiskBand(ctx.report)>>,
        <<score(2), Fraction(FactualRiskScore(ctx.report))>>, <<band(2), FactualRiskBand(ctx.report)>>,
        <<Levelled(spec("ai_generation_band", 1, "ordinal"), AiBands), AiGenerationBand(ctx.report)>>,
        <<spec("cross_field_major_count", 1, "integer"), CrossFieldMajorCount(ctx.report)>>,
        <<Levelled(spec("resume_farm_band", 1, "ordinal"), FarmBands), ResumeFarmBand(ctx.report)>>>>

LedgerFeatures(ctx) ==
  LET spec(name, dtype) == Shared(Registered(name, 1, dtype, "ledger"), FALSE)
      unit(name) == Shared(Ranged(Registered(name, 1, "numeric", "reputation"), 0, 100), FALSE)
  IN  <<<<spec("interview_record_count", "integer"), {InterviewRecordCount(ctx)}>>,
        <<spec("coding_round_count", "integer"), {CodingRoundCount(ctx)}>>,
        <<spec("distinct_orgs", "integer"), {DistinctOrgs(ctx)}>>,
        <<Shared(Ranged(Registered("best_coding_percentile", 1, "numeric", "ledger"), 0, 100), TRUE),
          BestCodingPercentile(ctx)>>,
        <<unit("score"), Fraction({ReputationScore(ctx)})>>,
        <<unit("confidence"), Fraction({ReputationConfidence(ctx)})>>,
        <<Shared(Levelled(Registered("band", 1, "ordinal", "reputation"), RepBands), FALSE), {ReputationBand(ctx)}>>>>

AllFeatures(ctx) == CandidateFeatures(ctx) \o DepthFeatures(ctx) \o FabricationFeatures(ctx) \o LedgerFeatures(ctx)

=============================================================================
