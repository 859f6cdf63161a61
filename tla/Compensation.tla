---------------------------- MODULE Compensation ----------------------------
(***************************************************************************)
(* Pay bands: a role resolved from what a requisition says, a static cell  *)
(* for it, and the blend of that cell with observed offers; and the        *)
(* reputation that is blended the same way.  Optional values are sets of   *)
(* at most one; an age is counted in half-lives.                           *)
(***************************************************************************)
EXTENDS Fractions, TLC

Given(option) == CHOOSE v \in option : TRUE

RoleFamilies == {"backend", "frontend", "fullstack", "data", "scientist", "ml", "devops", "qa", "mobile", "manager"}
CityTiers == {"metro", "tier_2"}
DefaultRoleFamily == "backend"

\* In thousands a year, and in hundredths.
RoleMetroMid == [f \in RoleFamilies |->
  CASE f \in {"backend", "fullstack"} -> 1800 [] f = "frontend" -> 1600 [] f = "data" -> 1900
    [] f \in {"scientist", "devops"} -> 2000 [] f = "ml" -> 2200 [] f = "qa" -> 1300
    [] f = "mobile" -> 1700 [] f = "manager" -> 3200]
SeniorityMult == [junior |-> 55, mid |-> 100, senior |-> 170, lead |-> 260]
TierMult == [metro |-> 100, tier_2 |-> 75]
Spread == 22
VariableFraction(family) == IF family = "manager" THEN 20 ELSE 12

\* Groups of title keywords, the most specific first: the first one found decides.
TitleKeywords == <<"engineering manager", "data engineer", "data scientist", "machine learning", "devops", "qa",
                   "mobile", "full stack", "frontend", "backend", "any manager">>
KeywordFamily == <<"manager", "data", "scientist", "ml", "devops", "qa", "mobile", "fullstack", "frontend",
                   "backend", "manager">>
SkillFamily == [react |-> "frontend", docker |-> "devops", spark |-> "data", pandas |-> "scientist",
                pytorch |-> "ml", kotlin |-> "mobile", python |-> "backend"]

\* `title` is the set of keyword groups the title holds; ties go to the first name.
ResolveRoleFamily(skills, title, alphabet) ==
  LET found == {i \in DOMAIN TitleKeywords : TitleKeywords[i] \in title}
      votes(f) == Cardinality({s \in skills \cap DOMAIN SkillFamily : SkillFamily[s] = f})
      voted == {f \in RoleFamilies : votes(f) > 0 /\ \A g \in RoleFamilies : votes(g) <= votes(f)}
  IN  CASE found # {} -> KeywordFamily[Min(found)]
        [] found = {} /\ voted # {} -> alphabet[Min({i \in DOMAIN alphabet : alphabet[i] \in voted})]
        [] OTHER -> DefaultRoleFamily

ResolveSeniority(years) ==
  CASE years = {} -> "mid"
    [] years # {} /\ Given(years) < 2 -> "junior"
    [] years # {} /\ Given(years) \in 2..4 -> "mid"
    [] years # {} /\ Given(years) \in 5..8 -> "senior"
    [] OTHER -> "lead"

\* The first tier asked for, if it is one; remote and unknown are metro.
ResolveCityTier(tiers) == IF tiers # <<>> /\ tiers[1] \in CityTiers THEN tiers[1] ELSE "metro"

\* A family or a seniority the caller names is not resolved; an unknown family is refused.
RoleFamilyOK(family) == family \subseteq RoleFamilies
RoleSignalFromInput(input, alphabet) ==
  [family |-> IF input.family # {} THEN Given(input.family)
              ELSE ResolveRoleFamily(input.skills, input.title, alphabet),
   seniority |-> IF input.seniority # {} THEN Given(input.seniority) ELSE ResolveSeniority(input.years),
   tier |-> ResolveCityTier(input.tiers)]
RoleSignalFromRequisition(req, alphabet) ==
  RoleSignalFromInput([family |-> {}, seniority |-> {}, skills |-> req.must, title |-> req.title,
                       years |-> req.years, tiers |-> req.tiers], alphabet)

ComputedCell(signal) ==
  LET mid == Times(Whole(RoleMetroMid[signal.family]),
                   Times(Cent(SeniorityMult[signal.seniority]), Cent(TierMult[signal.tier])))
  IN  [low |-> Times(mid, Cent(100 - Spread)), mid |-> mid, high |-> Times(mid, Cent(100 + Spread)),
       variable |-> Cent(VariableFraction(signal.family))]

\* A file that cannot be read overrides nothing, nor does a malformed row of it.
LoadOverride(file) ==
  IF file.readable THEN [k \in {c \in DOMAIN file.cells : file.cells[c].wellformed} |-> file.cells[k].cell]
  ELSE <<>>
LookupCell(signal, file) ==
  IF signal \in DOMAIN LoadOverride(file) THEN LoadOverride(file)[signal] ELSE ComputedCell(signal)

\* An age is in half-lives; a future date has none.
RecencyWeight(age) == <<1, 2 ^ (IF age < 0 THEN 0 ELSE age)>>
SumPoints(points, f(_)) == Total([i \in DOMAIN points |-> f(points[i])])

CompMinObservations == 5
CompPriorStrength == 8
CompConfidenceK == 4
CompConfidenceFloor == Cent(30)
CompConfidenceCap == Cent(90)
CompTolerance == Cent(10)

\* Below the k-anonymity floor the offers do not count at all.
EstimateComp(cell, points) ==
  LET gross == Plus(One, cell.variable)
      total == [q \in {"low", "mid", "high"} |-> Times(cell[q], gross)]
      include == Len(points) >= CompMinObservations
      mass == SumPoints(points, LAMBDA p : RecencyWeight(p.age))
      paid == SumPoints(points, LAMBDA p : Times(RecencyWeight(p.age), Whole(p.total)))
      p50 == IF include
             THEN Over(Plus(Times(Whole(CompPriorStrength), total.mid), paid), Plus(Whole(CompPriorStrength), mass))
             ELSE total.mid
      scaled(q) == IF total.mid[1] = 0 THEN p50 ELSE Times(p50, Over(total[q], total.mid))
      share == Over(mass, Plus(mass, Whole(CompConfidenceK)))
  IN  [p25 |-> scaled("low"), p50 |-> p50, p75 |-> scaled("high"),
       confidence |-> IF include
                      THEN Lesser(CompConfidenceCap,
                                  Plus(CompConfidenceFloor, Times(Minus(One, CompConfidenceFloor), share)))
                      ELSE CompConfidenceFloor,
       observed |-> IF include THEN Len(points) ELSE 0]

RequisitionMid(band) ==
  CASE band.min # {} /\ band.max # {} -> {<<Given(band.min) + Given(band.max), 2>>}
    [] band.min # {} /\ band.max = {} -> {Whole(Given(band.min))}
    [] OTHER -> {Whole(v) : v \in band.max}

BenchmarkComp(estimate, band) ==
  LET mid == Given(RequisitionMid(band))
      above == Minus(mid, estimate.p50)
      allowed == Times(CompTolerance, estimate.p50)
  IN  CASE RequisitionMid(band) = {} -> "none"
        [] RequisitionMid(band) # {} /\ AtMost(above, allowed) /\ AtMost(Minus(Zero, above), allowed) -> "at"
        [] RequisitionMid(band) # {} /\ Less(above, Minus(Zero, allowed)) -> "below"
        [] OTHER -> "above"

----------------------------------------------------------------------------
\* ledger/reputation.py

\* In hundredths; a withdrawal says nothing.
OutcomeValue(outcome) ==
  CASE outcome = "hired" -> {100} [] outcome = "offer" -> {90} [] outcome = "advanced" -> {65}
    [] outcome = "rejected" -> {15} [] outcome = "no_show" -> {10} [] outcome = "withdrawn" -> {}

\* A percentile is best, a share of the maximum second; a bare score means nothing.
CodingValue(round) ==
  CASE round.percentile # {} -> {Clamp01(Cent(Given(round.percentile)))}
    [] round.percentile = {} /\ round.max > 0 -> {Clamp01(<<round.score, round.max>>)}
    [] OTHER -> {}

\* One observation: a value in [0,1], its age, its organization.
Observation(value, item) == [value |-> value, age |-> item.age, org |-> item.org]
InterviewObservations(records) ==
  LET scored == SelectSeq(records, LAMBDA r : OutcomeValue(r.outcome) # {})
  IN  [i \in DOMAIN scored |-> Observation(Cent(Given(OutcomeValue(scored[i].outcome))), scored[i])]
CodingObservations(rounds) ==
  LET scored == SelectSeq(rounds, LAMBDA r : CodingValue(r) # {})
  IN  [i \in DOMAIN scored |-> Observation(Given(CodingValue(scored[i])), scored[i])]

RepPriorStrength == 4
RepConfidenceK == 4

\* The bands that brand a person need two organizations behind them.
BandFor(score, confidence, orgs) ==
  LET corroborated == orgs >= 2
      strong == corroborated /\ AtMost(Cent(75), score)
  IN  IF Less(confidence, Cent(50)) THEN "insufficient_data"
      ELSE CASE strong -> "strong"
             [] ~strong /\ AtMost(Cent(60), score) -> "favorable"
             [] corroborated /\ AtMost(score, Cent(35)) -> "guarded"
             [] OTHER -> "mixed"

Component(obs, weight(_)) ==
  LET mass == SumPoints(obs, weight)
  IN  IF mass[1] = 0 THEN Zero ELSE Over(SumPoints(obs, LAMBDA o : Times(weight(o), o.value)), mass)

\* The mean of a prior of 1/2 and the weighted observations; rounded to hundredths, the
\* share of the mass is the confidence.
AssessReputation(records, rounds, reliability) ==
  LET interviews == InterviewObservations(records)
      codings == CodingObservations(rounds)
      obs == interviews \o codings
      weight(o) == Times(RecencyWeight(o.age), Whole(IF reliability[o.org] < 0 THEN 0 ELSE reliability[o.org]))
      mass == SumPoints(obs, weight)
      score == Over(Plus(Whole(RepPriorStrength \div 2), SumPoints(obs, LAMBDA o : Times(weight(o), o.value))),
                    Plus(Whole(RepPriorStrength), mass))
      share == Over(mass, Plus(mass, Whole(RepConfidenceK)))
      confidence == Lesser(Cent(90), Cent((share[1] * 200 + share[2]) \div (2 * share[2])))
      orgs == Cardinality({obs[i].org : i \in DOMAIN obs})
  IN  [score |-> IF obs = <<>> THEN Half ELSE Clamp01(score),
       confidence |-> IF obs = <<>> THEN Zero ELSE confidence,
       band |-> IF obs = <<>> THEN "insufficient_data" ELSE BandFor(score, confidence, orgs),
       components |-> [interviews |-> Component(interviews, weight), coding |-> Component(codings, weight)],
       orgs |-> orgs, observations |-> Len(obs),
       excluded |-> Len(records) + Len(rounds) - Len(obs)]

=============================================================================
