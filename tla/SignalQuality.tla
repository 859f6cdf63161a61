---------------------------- MODULE SignalQuality ----------------------------
(***************************************************************************)
(* How well the signals of past reports agree with what people found out:  *)
(* which judgments are labels, what may be measured of which signal, and   *)
(* the measures themselves.                                                *)
(***************************************************************************)
EXTENDS Fractions

----------------------------------------------------------------------------
\* Measures.  Scores and labels are sequences of one length.

Positives(labels) == {i \in DOMAIN labels : labels[i]}

\* Values that tie share the mean of their places.
AverageRanks(values) ==
  [i \in DOMAIN values |->
     LET below == Cardinality({k \in DOMAIN values : Less(values[k], values[i])})
         tied == Cardinality({k \in DOMAIN values : Same(values[k], values[i])})
     IN  <<2 * below + tied + 1, 2>>]

\* Undefined, not one half, when a class is absent.
DegenerateClass(labels) == Positives(labels) \in {{}, DOMAIN labels}
Auc(scores, labels) ==
  LET ranks == AverageRanks(scores)
      pos == Cardinality(Positives(labels))
      neg == Len(labels) - pos
      sum == SumOver(Positives(labels), LAMBDA i : ranks[i])
  IN  Over(Minus(sum, <<pos * (pos + 1), 2>>), Whole(pos * neg))

Brier(scores, labels) ==
  LET gap(i) == Minus(scores[i], IF labels[i] THEN One ELSE Zero)
  IN  Over(SumOver(DOMAIN scores, LAMBDA i : Times(gap(i), gap(i))), Whole(Len(scores)))

\* Bins of equal width; the last one holds the score of one.  Nothing is said of an empty
\* bin: no rate is not a rate of zero.
BinOf(score, bins) == Max({0, Min({(score[1] * bins) \div score[2], bins - 1})})
CalibrationCurve(scores, labels, bins) ==
  [b \in 1..bins |->
     LET members == {i \in DOMAIN scores : BinOf(scores[i], bins) = b - 1}
         n == Cardinality(members)
     IN  [lower |-> <<b - 1, bins>>, upper |-> <<b, bins>>, n |-> n,
          predicted |-> IF n = 0 THEN {} ELSE {Over(SumOver(members, LAMBDA i : scores[i]), Whole(n))},
          observed |-> IF n = 0 THEN {} ELSE {Reduced(Cardinality(members \cap Positives(labels)), n)}]]

\* The rate of each band against the rate of all; no lift where nothing was positive.
LiftByBand(bands, labels) ==
  LET base == Reduced(Cardinality(Positives(labels)), Len(labels)) IN
  {LET members == {i \in DOMAIN bands : bands[i] = b}
       rate == Reduced(Cardinality(members \cap Positives(labels)), Cardinality(members))
   IN  [band |-> b, n |-> Cardinality(members), rate |-> rate,
        lift |-> IF Same(base, Zero) THEN {} ELSE {Over(rate, base)}] : b \in ToSet(bands)}

----------------------------------------------------------------------------
\* Labels.

\* A person's judgment that a report is true or false; the others decline to say.
Binary == [verified_fabricated |-> {TRUE}, verified_genuine |-> {FALSE},
           candidate_clarified |-> {}, inconclusive |-> {}]

\* The judgments of a report in the order they were recorded: the earliest that was made
\* after the report, by a person who may label, and that says yes or no.
OutcomeLabels(reports, outcomes, operators) ==
  LET counts(r, o) == /\ o.report = r.id /\ (operators \/ o.by # "operator")
                      /\ o.at > r.created /\ Binary[o.outcome] # {}
      first(r) == Min({i \in DOMAIN outcomes : counts(r, outcomes[i])})
  IN  {[report |-> r, positive |-> CHOOSE b \in Binary[outcomes[first(r)].outcome] : TRUE, at |-> outcomes[first(r)].at]
         : r \in {q \in reports : \E i \in DOMAIN outcomes : counts(q, outcomes[i])}}

\* Hires, of candidates who allowed it when the report was written and allow it still at
\* each of the three times it is asked: before the label is read, after, and at the end.
LedgerLabels(reports, consent, label) ==
  {[report |-> r, positive |-> l.hired, at |-> l.at]
     : <<r, l>> \in {p \in reports \X UNION {label[q.candidate] : q \in reports} :
          LET r == p[1] IN
          /\ p[2] \in label[r.candidate] /\ r.candidate \in DOMAIN consent
          /\ consent[r.candidate].when[r.id] /\ \A i \in 1..3 : consent[r.candidate].now[i]
          /\ p[2].observed /\ ~p[2].withheld}}

----------------------------------------------------------------------------
\* Signals.  An assessment that was never made is no value; one that ran and found
\* nothing is the value zero.

SignalSpec(name, kind, metrics) == [name |-> name, kind |-> kind, metrics |-> metrics, band |-> metrics = {"lift"}]

Scored == {"auc", "brier"}
Banded == {"lift"}
Counted == {"auc", "lift"}

SIGNALS ==
  {SignalSpec("fabrication_risk.score", "fraud", Scored), SignalSpec("fabrication_risk.band", "fraud", Banded),
   SignalSpec("ai_generation.likelihood", "fraud", Scored), SignalSpec("ai_generation.band", "fraud", Banded),
   SignalSpec("cross_field.score", "fraud", Scored), SignalSpec("cross_field.band", "fraud", Banded),
   SignalSpec("cross_field.major_findings", "fraud", Counted),
   SignalSpec("resume_farm.score", "fraud", Scored), SignalSpec("resume_farm.band", "fraud", Banded),
   SignalSpec("depth_score", "hire", Scored), SignalSpec("depth_band", "hire", Banded),
   SignalSpec("overall_confidence", "hire", Scored)}

\* A risk that an older scorer wrote is no value of the present one.
CurrentFactualRisk(report) == {r \in report.risk : r.version = 2}

MajorFindings(report) ==
  {Whole(Cardinality({f \in x.findings : f.severity = "major"})) : x \in report.crossField}

Extract(name, report) ==
  CASE name = "fabrication_risk.score" -> {r.score : r \in CurrentFactualRisk(report)}
    [] name = "fabrication_risk.band" -> {r.band : r \in CurrentFactualRisk(report)}
    [] name = "ai_generation.likelihood" -> {a.likelihood : a \in report.ai}
    [] name = "ai_generation.band" -> {a.band : a \in report.ai}
    [] name = "cross_field.score" -> {x.score : x \in report.crossField}
    [] name = "cross_field.band" -> {x.band : x \in report.crossField}
    [] name = "cross_field.major_findings" -> MajorFindings(report)
    [] name = "resume_farm.score" -> {f.score : f \in report.farm}
    [] name = "resume_farm.band" -> {f.band : f \in report.farm}
    [] name = "depth_score" -> {report.depth}
    [] name = "depth_band" -> {report.depthBand}
    [] name = "overall_confidence" -> {report.confidence}

SignalMeasured(n, positives, measures) == [measured |-> TRUE, n |-> n, positives |-> positives, measures |-> measures]
SignalRefused(reason, n) == [measured |-> FALSE, n |-> n, reason |-> reason]

\* The kind is asked first: a label of the other kind never scores a signal, however many
\* there are.  Labels are a sequence.
MeasureOne(spec, labeled, minSamples, kind, bins) ==
  LET sample == SelectSeq(labeled, LAMBDA l : Extract(spec.name, l.report) # {})
      n == Len(sample)
      values == [i \in 1..n |-> CHOOSE v \in Extract(spec.name, sample[i].report) : TRUE]
      labels == [i \in 1..n |-> sample[i].positive]
  IN  IF spec.kind # kind THEN SignalRefused("label_kind_mismatch", 0)
      ELSE IF n < minSamples THEN SignalRefused("insufficient_samples", n)
      ELSE IF DegenerateClass(labels) THEN SignalRefused("degenerate_class", n)
      ELSE SignalMeasured(n, Cardinality(Positives(labels)),
             [auc |-> IF "auc" \in spec.metrics THEN {Auc(values, labels)} ELSE {},
              brier |-> IF "brier" \in spec.metrics THEN {Brier(values, labels)} ELSE {},
              curve |-> IF "brier" \in spec.metrics THEN CalibrationCurve(values, labels, bins) ELSE <<>>,
              lift |-> IF "lift" \in spec.metrics THEN LiftByBand(values, labels) ELSE {}])

\* Every signal is in the report, measured or refused, with the sample it rests on.
Measure(labeled, minSamples, kind, bins) ==
  [population |-> [kind |-> kind, usable |-> Len(labeled),
                   created |-> {labeled[i].report.created : i \in DOMAIN labeled}],
   signals |-> [s \in SIGNALS |-> MeasureOne(s, labeled, minSamples, kind, bins)]]

=============================================================================
