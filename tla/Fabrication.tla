----------------------------- MODULE Fabrication -----------------------------
(***************************************************************************)
(* The advisory signals: a profile's dates against each other, the writing *)
(* style, overlap with other resumes, their fusion into one band of risk,  *)
(* and the calibration of claims.  Pure functions of what was extracted.   *)
(*                                                                         *)
(* A date is a record of a year and at most one month; a range has at most *)
(* one start and one end.  Optional values are sets of at most one.        *)
(***************************************************************************)
EXTENDS Fractions

\* Settings, with their defaults.
Settings == [overlapMin |-> 3, gapMin |-> 12, educationMin |-> 12, seniorMin |-> 24, leadMin |-> 48,
             xfConfidence |-> Half, aiLikely |-> Cent(65), aiPossible |-> Cent(40), aiConfidence |-> Half,
             minShingles |-> 40, nearDuplicate |-> Cent(80), clusterMin |-> 3,
             riskModerate |-> Cent(30), riskElevated |-> Cent(60), riskConfidence |-> Half,
             weightCrossField |-> One, weightFarm |-> One,
             flagCoherence |-> Cent(35), flagConfidence |-> Cent(70), deferConfidence |-> Half,
             moonlightMin |-> 12]

The(S) == CHOOSE x \in S : TRUE
Highest(S) == FoldSet(Greater, Zero, S)

----------------------------------------------------------------------------
\* Months.

Filled(p, month) == p.year * 12 + (IF p.month = {} THEN month ELSE The(p.month)) - 1

\* A range without an end is one only when it is current.
Interval(range, today, startFill, endFill) ==
  LET ends == IF range.end # {} THEN {Filled(p, endFill) : p \in range.end}
              ELSE IF range.current THEN {today} ELSE {}
  IN  {iv \in {Filled(p, startFill) : p \in range.start} \X ends : iv[1] <= iv[2]}

\* The months a range certainly covers, and the most it may cover.
NarrowInterval(range, today) == Interval(range, today, 12, 1)
WideInterval(range, today) == Interval(range, today, 1, 12)
MonthPreciseInterval(range, today) ==
  IF \E p \in range.start \cup range.end : p.month = {} THEN {} ELSE WideInterval(range, today)

OverlapMonths(a, b) ==
  LET from == Max({a[1], b[1]})
      to == Min({a[2], b[2]})
  IN  IF from <= to THEN to - from + 1 ELSE 0

----------------------------------------------------------------------------
\* Cross-field checks.  Roles and degrees are sequences; findings name their indices.

NonPrimary == {"internship", "part_time", "freelance", "contract"}
Primary(roles) == {i \in DOMAIN roles : roles[i].type \notin NonPrimary}
Dated(roles, S, interval(_)) == {i \in S : interval(roles[i].dates) # {}}

Finding(check, major, score, entries) ==
  [check |-> check, severity |-> IF major THEN "major" ELSE "minor", score |-> Lesser(One, score), entries |-> entries]

CheckTimelineOverlaps(roles, today, min) ==
  LET interval(range) == NarrowInterval(range, today)
      at == Dated(roles, Primary(roles), interval)
      months(p) == OverlapMonths(The(interval(roles[p[1]].dates)), The(interval(roles[p[2]].dates)))
  IN  {Finding("timeline_overlap", months(p) >= 12, <<months(p), 24>>, {p[1], p[2]})
         : p \in {q \in at \X at : q[1] < q[2] /\ months(q) >= min}}

\* Gaps between the months that primary roles cover: a pause is context, never major.
CheckTimelineGaps(roles, today, min) ==
  LET ivs == UNION {MonthPreciseInterval(roles[i].dates, today) : i \in Primary(roles)}
      gaps == {g \in {iv[2] : iv \in ivs} \X {iv[1] : iv \in ivs} :
                 g[1] < g[2] /\ \A iv \in ivs : iv[2] <= g[1] \/ iv[1] >= g[2]}
  IN  {Finding("timeline_gap", FALSE, <<g[2] - g[1] - 1, 36>>, {g[1], g[2]})
         : g \in {h \in gaps : h[2] - h[1] - 1 >= Max({1, min})}}

\* The canonical level decides; the words of the degree only when there is none.
IsBachelor(degree) == IF degree.level # {} THEN degree.level = {"bachelor"} ELSE degree.namesBachelor

Bachelors(degrees, today) == {i \in DOMAIN degrees : IsBachelor(degrees[i]) /\ NarrowInterval(degrees[i].dates, today) # {}}

CheckEducationOverlap(degrees, roles, today, min) ==
  LET interval(range) == NarrowInterval(range, today)
      months(p) == OverlapMonths(The(interval(degrees[p[1]].dates)), The(interval(roles[p[2]].dates)))
      pairs == Bachelors(degrees, today) \X Dated(roles, Primary(roles), interval)
  IN  {Finding("education_employment_overlap", months(p) >= 24, <<months(p), 24>>, p)
         : p \in {q \in pairs : months(q) >= min}}

\* The rank claimed against the widest span: over two dated roles at least.  A title
\* claims the ranks its words name; a lead outranks a senior.
CheckSeniority(roles, today, seniorMin, leadMin) ==
  LET ivs == UNION {WideInterval(roles[i].dates, today) : i \in DOMAIN roles}
      dated == {i \in DOMAIN roles : WideInterval(roles[i].dates, today) # {}}
      span == Max({iv[2] : iv \in ivs}) - Min({iv[1] : iv \in ivs}) + 1
      claims(rank, level) == {i \in DOMAIN roles : rank \in roles[i].title \/ roles[i].seniority = level}
      found(S, floor, major) ==
        {Finding("seniority_vs_tenure", major, Plus(Half, Reduced(floor - span, 2 * floor)), {Min(S)})}
      leads == claims("lead", "staff")
      seniors == claims("senior", "senior")
  IN  IF Cardinality(dated) < 2 THEN {}
      ELSE IF leads # {} /\ span < leadMin THEN found(leads, leadMin, TRUE)
      ELSE IF seniors # {} /\ span < seniorMin THEN found(seniors, seniorMin, FALSE)
      ELSE {}

\* Nothing is asserted below the floor of confidence.
BandForFindings(findings, confidence, s) ==
  CASE Less(confidence, s.xfConfidence) -> "insufficient_data"
    [] \E f \in findings : f.severity = "major" -> "major_issues"
    [] findings # {} -> "minor_issues"
    [] OTHER -> "consistent"

Coverage(n) == Lesser(Cent(90), Plus(Cent(30), <<15 * n, 100>>))

\* A check runs when it has enough to look at; one that ran and found nothing counts.
AssessCrossField(profile, today, s) ==
  LET roles == profile.roles
      narrow(range) == NarrowInterval(range, today)
      precise(range) == MonthPreciseInterval(range, today)
      wide(range) == WideInterval(range, today)
      prim == Cardinality(Dated(roles, Primary(roles), narrow))
      run(enough, findings) == IF enough THEN <<findings>> ELSE <<>>
      checks ==
        run(prim >= 2, CheckTimelineOverlaps(roles, today, s.overlapMin))
        \o run(Cardinality(Dated(roles, Primary(roles), precise)) >= 2, CheckTimelineGaps(roles, today, s.gapMin))
        \o run(Bachelors(profile.degrees, today) # {} /\ prim >= 1,
               CheckEducationOverlap(profile.degrees, roles, today, s.educationMin))
        \o run(Cardinality(Dated(roles, DOMAIN roles, wide)) >= 2,
               CheckSeniority(roles, today, s.seniorMin, s.leadMin))
      findings == UNION {checks[i] : i \in DOMAIN checks}
      scores == [i \in DOMAIN checks |-> Highest({f.score : f \in checks[i]})]
  IN  IF checks = <<>>
      THEN [score |-> Zero, confidence |-> Zero, band |-> "insufficient_data", findings |-> {}]
      ELSE [score |-> Mean(scores), confidence |-> Coverage(Len(checks)), findings |-> findings,
            band |-> BandForFindings(findings, Coverage(Len(checks)), s)]

\* Roles held at once, derived for an employer's eyes and never stored.
AssessConcurrentEmployment(roles, today, min) ==
  LET interval(range) == NarrowInterval(range, today)
      at == Dated(roles, Primary(roles), interval)
      iv(i) == The(interval(roles[i].dates))
      pairs == {p \in at \X at : p[1] < p[2] /\ OverlapMonths(iv(p[1]), iv(p[2])) >= min}
      longest == Max({OverlapMonths(iv(p[1]), iv(p[2])) : p \in pairs})
  IN  IF pairs = {} THEN {}
      ELSE {[periods |-> {<<Max({iv(p[1])[1], iv(p[2])[1]}), Min({iv(p[1])[2], iv(p[2])[2]})>> : p \in pairs},
             longest |-> longest, severity |-> IF longest >= 24 THEN "soft" ELSE "info"]}

----------------------------------------------------------------------------
\* Writing style.  A text has a number of words and of stock phrases in them, and lines;
\* a line that is a bullet has a length, may open with a verb in the past tense and may
\* carry a metric and percentages.  `cv` stands for the coefficient of variation of the
\* bullets' lengths (a square root).

Bullets(lines) == SelectSeq(lines, LAMBDA line : line.bullet)

\* The sizes of the groups of bullets that follow each other.
BulletRuns(lines) ==
  LET step(acc, line) ==
        IF line.bullet THEN [acc EXCEPT !.current = @ + 1]
        ELSE IF acc.current > 0 THEN [runs |-> Append(acc.runs, acc.current), current |-> 0]
        ELSE acc
      end == FoldLeft(step, [runs |-> <<>>, current |-> 0], lines)
  IN  IF end.current > 0 THEN Append(end.runs, end.current) ELSE end.runs

ShareOf(seq, test(_)) == Reduced(Len(SelectSeq(seq, test)), Len(seq))

DetectTemplatePhrases(text) ==
  IF text.words < 60 \/ text.phrases < 3 THEN {}
  ELSE {Lesser(One, Reduced(text.phrases * 100, text.words * 3))}

DetectUniformBullets(bullets, cv) ==
  LET verbs == ShareOf(bullets, LAMBDA b : b.verb) IN
  IF Len(bullets) < 6 \/ AtMost(Cent(22), cv) \/ Less(verbs, Cent(85)) THEN {}
  ELSE {Lesser(One, Plus(Times(Minus(One, Over(cv, Cent(22))), Cent(60)), Times(verbs, Cent(40))))}

DetectMetricSaturation(bullets) ==
  LET percents == FoldLeft(LAMBDA acc, b : acc \o b.percents, <<>>, bullets)
      round == IF percents = <<>> THEN Zero ELSE ShareOf(percents, LAMBDA p : p % 5 = 0)
      share == ShareOf(bullets, LAMBDA b : b.metric)
  IN  IF Len(bullets) < 6 \/ Less(share, Cent(70)) THEN {}
      ELSE {Lesser(One, Times(share, Plus(Cent(70), Times(Cent(30), round))))}

DetectSymmetricStructure(runs) ==
  IF Len(runs) < 3 \/ Cardinality(ToSet(runs)) # 1 \/ runs[1] < 3 THEN {}
  ELSE {Lesser(One, Plus(Cent(55), <<Len(runs), 10>>))}

\* Detectors run on enough text; one that did not fire counts as nothing.
AssessDeterministic(text) ==
  LET bullets == Bullets(text.lines)
      runs == BulletRuns(text.lines)
      ran == (IF text.words >= 60 THEN <<DetectTemplatePhrases(text)>> ELSE <<>>)
             \o (IF Len(bullets) >= 6 THEN <<DetectUniformBullets(bullets, text.cv), DetectMetricSaturation(bullets)>> ELSE <<>>)
             \o (IF Len(runs) >= 3 THEN <<DetectSymmetricStructure(runs)>> ELSE <<>>)
      fired == Len(SelectSeq(ran, LAMBDA d : d # {}))
  IN  IF ran = <<>> THEN [fired |-> 0, likelihood |-> Zero, confidence |-> Zero, evaluated |-> 0]
      ELSE [fired |-> fired, likelihood |-> Mean([i \in DOMAIN ran |-> Highest(ran[i])]),
            confidence |-> Coverage(Len(ran)), evaluated |-> Len(ran)]

\* Pairs of a score and a confidence, weighted by it; without any confidence the mean,
\* and without pairs the value given.
WeightedBy(pairs, empty) ==
  LET weight == Total([i \in DOMAIN pairs |-> pairs[i][2]])
      weighted == Total([i \in DOMAIN pairs |-> Times(pairs[i][1], pairs[i][2])])
  IN  IF pairs = <<>> THEN <<empty, Zero>>
      ELSE IF Same(weight, Zero) THEN <<Mean([i \in DOMAIN pairs |-> pairs[i][1]]), Zero>>
      ELSE <<Over(weighted, weight), Lesser(One, Over(weight, Whole(Len(pairs))))>>

FusePairs(pairs) == WeightedBy(pairs, Zero)

\* Two deterministic tells at least before anything is called likely.
BandFor(likelihood, confidence, fired, s) ==
  CASE Less(confidence, s.aiConfidence) -> "insufficient_text"
    [] AtMost(s.aiLikely, likelihood) /\ fired >= 2 -> "likely"
    [] AtMost(s.aiPossible, likelihood) -> "possible"
    [] OTHER -> "unlikely"

----------------------------------------------------------------------------
\* Overlap with other resumes.  A word is masked when it is an address, a number to
\* call or a link; a permutation of the shingles is a function that ranks them.

ShingleSet(words, masked, size) ==
  LET kept == SelectSeq(words, LAMBDA w : w \notin masked)
  IN  {SubSeq(kept, i, i + size - 1) : i \in 1..(Len(kept) - size + 1)}

MinhashSignature(shingles, permutations) ==
  [k \in DOMAIN permutations |-> Min({permutations[k][x] : x \in shingles})]

EstimateSimilarity(a, b) == Reduced(Cardinality({k \in DOMAIN a : a[k] = b[k]}), Len(a))

FingerprintText(shingles, permutations, s) ==
  IF Cardinality(shingles) < s.minShingles THEN {} ELSE {MinhashSignature(shingles, permutations)}

\* Matches are of stored resumes of others, each at the similar threshold or above it;
\* the banding needs to know whose they are.
AssessResumeFarm(matches, shingles, corpus, s) ==
  LET whose == {m.candidate : m \in matches} IN
  IF shingles < s.minShingles
  THEN [score |-> Zero, confidence |-> Zero, band |-> "insufficient_data", matches |-> {}]
  ELSE [score |-> Highest({m.similarity : m \in matches}), matches |-> matches,
        confidence |-> Lesser(Cent(90), Plus(Cent(60), <<Min({corpus, 6}), 20>>)),
        band |-> IF \/ \E m \in matches : AtMost(s.nearDuplicate, m.similarity)
                    \/ Cardinality(whose) >= s.clusterMin THEN "near_duplicate"
                 ELSE IF matches # {} THEN "similar" ELSE "unique"]

----------------------------------------------------------------------------
\* Factual risk: dates and overlap only; style never contributes.

CrossFieldRisk == [consistent |-> Cent(10), minor_issues |-> Cent(40), major_issues |-> Cent(75)]
FarmRisk == [unique |-> Cent(10), similar |-> Cent(45), near_duplicate |-> Cent(80)]

BuildComponents(crossField, farm, s) ==
  {[id |-> "cross_field", risk |-> CrossFieldRisk[a.band], weight |-> Times(s.weightCrossField, a.confidence),
    flagged |-> a.band = "major_issues"] : a \in {x \in crossField : x.band \in DOMAIN CrossFieldRisk}}
  \cup
  {[id |-> "resume_farm", risk |-> FarmRisk[a.band], weight |-> Times(s.weightFarm, a.confidence),
    flagged |-> a.band = "near_duplicate"] : a \in {x \in farm : x.band \in DOMAIN FarmRisk}}

FuseComponents(components) ==
  LET mean == IF Same(SumOver(components, LAMBDA c : c.weight), Zero)
              THEN Over(SumOver(components, LAMBDA c : c.risk), Whole(Cardinality(components)))
              ELSE Over(SumOver(components, LAMBDA c : Times(c.risk, c.weight)), SumOver(components, LAMBDA c : c.weight))
  IN  IF components = {} THEN <<Zero, Zero>>
      ELSE <<Plus(Times(Cent(70), mean), Times(Cent(30), Highest({c.risk : c \in components}))),
             Coverage(Cardinality(components))>>

BandForRisk(score, confidence, flagged, nonclean, s) ==
  CASE Less(confidence, s.riskConfidence) -> "insufficient_data"
    [] AtMost(s.riskElevated, score) /\ flagged >= 2 -> "elevated"
    [] AtMost(s.riskModerate, score) /\ (flagged >= 1 \/ nonclean >= 2) -> "moderate"
    [] OTHER -> "low"

AssessFabricationRisk(crossField, farm, s) ==
  LET components == BuildComponents(crossField, farm, s)
      fused == FuseComponents(components)
      flagged == {c \in components : c.flagged}
      nonclean == {c \in components : Less(Cent(10), c.risk)}
  IN  [components |-> components, score |-> fused[1], confidence |-> fused[2],
       band |-> IF components = {} THEN "insufficient_data"
                ELSE BandForRisk(fused[1], fused[2], Cardinality(flagged), Cardinality(nonclean), s)]

----------------------------------------------------------------------------
\* Calibration of claims.

\* Flagged only when clearly incoherent and sure enough; unsure is left to a person.
Classify(coherence, confidence, evidence, s) ==
  CASE ~evidence -> "unverified"
    [] evidence /\ Less(confidence, s.deferConfidence) -> "defer"
    [] evidence /\ AtMost(s.deferConfidence, confidence) /\ AtMost(s.flagCoherence, coherence) -> "coherent"
    [] OTHER -> IF AtMost(s.flagConfidence, confidence) THEN "incoherent" ELSE "defer"

AggregateDepth(scores, s) ==
  LET weight == Total([i \in DOMAIN scores |-> scores[i][2]])
      depth == WeightedBy(scores, Zero)[1]
      overall == IF scores = <<>> THEN Zero ELSE Over(weight, Whole(Len(scores)))
      least == <<<<Cent(80), "deep">>, <<Cent(60), "solid">>, <<Cent(40), "emerging">>, <<Zero, "superficial">>>>
  IN  [depth |-> depth, confidence |-> overall,
       band |-> IF scores = <<>> \/ Less(overall, s.deferConfidence) THEN "insufficient_signal"
                ELSE least[Min({i \in DOMAIN least : AtMost(least[i][1], depth)})][2]]

=============================================================================
