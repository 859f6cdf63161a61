-------------------------- MODULE InterviewScoring --------------------------
(***************************************************************************)
(* Which questions an interview asks, what an answer is worth, what the    *)
(* whole is worth, and what speaks for somebody else having answered.  An  *)
(* answer is a sequence of clauses, each with its set of terms and its     *)
(* number of words.                                                        *)
(***************************************************************************)
EXTENDS Fractions

CONSTANTS
  Investigate, Change, Outcome,  \* the verbs of the rubric
  StopWords, QuestionStopWords,
  MinAnswerWords, MaxDelta, Weights,     \* interview_* settings
  MinConfidence, DeepAt, SolidAt, EmergingAt,
  MaxSpoken, MaxTyped, LikelyAt

Verbs == Investigate \cup Change \cup Outcome
FirstSingular == {"i", "my", "me", "mine"}
Reasons == {"because", "constraint", "instead"}
Version == "s73.2"
Legacy == "s73.1"

----------------------------------------------------------------------------
\* Questions.  An item has a text, the signals of a good answer, and the claim it is about.

\* At most two probes of a claim; those of the flagged claims first, then the deferred.
ProbeItems(verdicts, flagged, deferred) ==
  LET rank(v) == IF v.claim \in flagged THEN 0 ELSE IF v.claim \in deferred THEN 1 ELSE 2
      ordered == FlattenSeq([r \in 1..3 |-> SelectSeq(verdicts, LAMBDA v : rank(v) = r - 1)])
      two(v) == SelectSeq(SubSeq(v.probes, 1, Min({2, Len(v.probes)})), LAMBDA t : t # "")
  IN  FlattenSeq([k \in DOMAIN ordered |->
        [n \in DOMAIN two(ordered[k]) |->
           [text |-> two(ordered[k])[n], signals |-> ordered[k].missing, claim |-> {ordered[k].claim}, source |-> "probe"]]])

DepthMarkers == {"fail", "debug", "trade-off", "latency", "cost", "rollback"}
ProfileItems(profile) ==
  LET about == SelectSeq(profile.experience, LAMBDA e : e # "") \o SelectSeq(profile.skills, LAMBDA s : s # "")
  IN  [k \in DOMAIN about |-> [text |-> about[k], signals |-> {about[k]} \cup DepthMarkers, claim |-> {}, source |-> "profile"]]

\* The plan, or nothing when there is too little to ask.
BuildQuestionPlan(profile, report, seeds, limit, minimum) ==
  LET sourced == FlattenSeq([k \in 1..Cardinality(report) |->
                               LET r == CHOOSE x \in report : TRUE IN ProbeItems(r.verdicts, r.flagged, r.deferred)])
                   \o FlattenSeq([k \in 1..Cardinality(profile) |-> ProfileItems(CHOOSE p \in profile : TRUE)])
                   \o [k \in DOMAIN seeds |-> [text |-> seeds[k], signals |-> {}, claim |-> {}, source |-> "domain"]]
      fresh == {k \in DOMAIN sourced : sourced[k].text # "" /\ \A j \in 1..k - 1 : sourced[j].text # sourced[k].text}
      order == SetToSortSeq(fresh, <)
      plan == [n \in 1..Min({limit, Len(order)}) |-> sourced[order[n]]]
  IN  IF Len(plan) < minimum THEN {} ELSE {plan}

----------------------------------------------------------------------------
\* An answer.

WordCount(clauses) == FoldLeft(LAMBDA n, c : n + c.length, 0, clauses)

\* The clauses that report an action on at least two things, other than what the question
\* said, each once: clauses that differ in stop words only are one.
Evidence(clauses, prompt) ==
  LET own(c) == ~(c.terms # {} /\ prompt # {} /\ c.terms \subseteq prompt)
      content(c) == c.terms \cap Verbs # {} /\ Cardinality(c.terms \ (StopWords \cup Verbs)) >= 2
      mark(c) == c.terms \ StopWords
      kept == SelectSeq(clauses, LAMBDA c : own(c) /\ content(c))
      fresh == {k \in DOMAIN kept : \A j \in 1..k - 1 : mark(kept[j]) # mark(kept[k])}
  IN  {kept[k].terms : k \in fresh}

Groups == [debug |-> Investigate \cup {"debug", "debugged", "diagnosis"},
           rollback |-> {"rollback", "reverted", "restored", "pinned"},
           fail |-> {"fail", "failed", "failing", "failure", "broke", "broken", "error"},
           latency |-> {"latency", "delay", "response"}, cost |-> {"cost", "expense", "spend", "budget"}]
TradeOff == {"trade-off", "tradeoff", "because", "instead", "constraint"}
SignalCovered(words, signal) ==
  IF signal = "trade-off" THEN words \cap TradeOff # {}
  ELSE IF signal \in DOMAIN Groups THEN words \cap Groups[signal] # {}
  ELSE signal \in words

NoAnswer == [dimensions |-> [d \in {} |-> Zero], insufficient |-> TRUE, codes |-> {"insufficient_answer"},
             version |-> Version, confidence |-> Zero]

\* What nothing is known about is one half, and is said so.
ScoreTurn(clauses, signals, profileTerms, prompt) ==
  LET units == Evidence(clauses, prompt)
      n == Cardinality(units)
      words == UNION units
      topics == prompt \ (StopWords \cup QuestionStopWords \cup Verbs \cup profileTerms)
      covered == {s \in signals : SignalCovered(words, s)}
      anchored == IF topics # {} THEN topics \cap words # {}
                  ELSE covered \ DepthMarkers # {} \/ Cardinality(covered) >= 2
      stages == {k \in 1..3 : CASE k = 1 -> words \cap Investigate # {}
                                [] k = 2 -> words \cap Change # {}
                                [] k = 3 -> words \cap (Outcome \cup Reasons) # {}}
      mine == \E u \in units : u \cap FirstSingular # {}
      full == IF n >= 2 THEN Lesser(Cent(95), Plus(Cent(35), Reduced(n, 5))) ELSE Zero
  IN  IF n = 0 \/ (n < 2 /\ WordCount(clauses) < MinAnswerWords) THEN NoAnswer
      ELSE [dimensions |-> [specificity |-> Lesser(One, Reduced(n, 3)),
                            ownership |-> IF mine THEN One ELSE Half,
                            depth |-> IF signals # {} /\ anchored THEN Reduced(Cardinality(stages), 3) ELSE Half,
                            consistency |-> Half],
            insufficient |-> FALSE,
            codes |-> {"consistency_unverified"} \cup (IF n < 2 THEN {"limited_content"} ELSE {})
                        \cup (IF mine THEN {} ELSE {"ownership_unknown"})
                        \cup (IF signals = {} THEN {"depth_unknown"} ELSE {})
                        \cup (IF anchored THEN {} ELSE {"relevance_unconfirmed"}),
            version |-> Version, confidence |-> IF anchored THEN full ELSE Lesser(full, Cent(40))]

\* The reply is nothing at all, the empty object, or a value for some dimensions; any value
\* out of range, or a failure, leaves the score as it was.
AdjustWithLlm(base, reply) ==
  LET unsure(d) == base.version = Version
                   /\ \/ d = "consistency" \/ (d = "ownership" /\ "ownership_unknown" \in base.codes)
                      \/ d = "depth" /\ base.codes \cap {"depth_unknown", "relevance_unconfirmed"} # {}
      valid(r) == \A d \in DOMAIN r : Unit(r[d])
      moved(r, d) == LET gap == Greater(Minus(Zero, MaxDelta), Lesser(MaxDelta, Minus(r[d], base.dimensions[d])))
                     IN  Clamp01(Plus(base.dimensions[d], gap))
      open(r) == {d \in DOMAIN r \cap DOMAIN base.dimensions : ~unsure(d) /\ ~Same(r[d], base.dimensions[d])}
      usable == {r \in reply : valid(r) /\ open(r) # {} /\ ~Same(MaxDelta, Zero)}
  IN  IF base.insufficient \/ usable = {} THEN base
      ELSE LET r == CHOOSE x \in usable : TRUE IN
           [base EXCEPT !.dimensions = [d \in DOMAIN @ |-> IF d \in open(r) THEN moved(r, d) ELSE @[d]],
                        !.codes = @ \cup {"llm_adjusted"}]

----------------------------------------------------------------------------
\* The whole.  Confidence decides first.

BandFor(overall, confidence) ==
  CASE Less(confidence, MinConfidence) -> "insufficient_signal"
    [] AtMost(DeepAt, overall) -> "deep"
    [] AtMost(SolidAt, overall) -> "solid"
    [] AtMost(EmergingAt, overall) -> "emerging"
    [] OTHER -> "superficial"

\* Turns of two scorers are not one assessment.
Aggregate(planned, turns) ==
  LET answered == Len(turns)
      versions == {turns[k].score.version : k \in DOMAIN turns}
      legacy == versions # {} /\ versions \subseteq {Legacy}
      counts(t) == legacy \/ (/\ ~t.score.insufficient /\ Less(Zero, t.score.confidence)
                              /\ "relevance_unconfirmed" \notin t.score.codes)
      eligible == SelectSeq(turns, counts)
      values(d) == LET having == SelectSeq(eligible, LAMBDA t : d \in DOMAIN t.score.dimensions)
                   IN  [k \in DOMAIN having |-> having[k].score.dimensions[d]]
      scored == {d \in {"specificity", "ownership", "depth", "consistency"} : values(d) # <<>>}
      weight == SumOver(scored, LAMBDA d : Weights[d])
      overall == IF Same(weight, Zero) THEN Zero
                 ELSE Over(SumOver(scored, LAMBDA d : Times(Mean(values(d)), Weights[d])), weight)
      coverage == IF planned = 0 THEN Zero ELSE Reduced(answered, planned)
      substance == Mean([k \in DOMAIN turns |-> Lesser(One, <<turns[k].words, 60>>)])
      confidence == IF legacy THEN Lesser(Cent(95), Times(coverage, substance))
                    ELSE IF planned = 0 THEN Zero
                    ELSE Lesser(Cent(95), Over(Total([k \in DOMAIN eligible |-> eligible[k].score.confidence]), Whole(planned)))
  IN  IF versions # {} /\ ~legacy /\ versions # {Version}
      THEN [band |-> "insufficient_signal", overall |-> Zero, confidence |-> Zero, coverage |-> coverage, version |-> "mixed/unknown"]
      ELSE [band |-> IF legacy \/ eligible # <<>> THEN BandFor(overall, confidence) ELSE "insufficient_signal",
            overall |-> overall, confidence |-> confidence, coverage |-> coverage,
            version |-> IF legacy THEN Legacy ELSE Version]

----------------------------------------------------------------------------
\* Proxy risk.  Nothing here confirms a proxy: no finding is hard, and it takes two soft
\* ones to say elevated.

ElapsedSeconds(turn) == IF turn.seconds < 1 THEN 1 ELSE turn.seconds
TooFast(turn, most) == Less(most, <<turn.words, ElapsedSeconds(turn)>>)
AssessProxyRisk(level, turns, style) ==
  LET of(channel) == {t \in ToSet(turns) : t.channel = channel}
      soft == (IF level = 0 THEN {"identity_assurance_none"} ELSE {})
         \cup (IF \E t \in of("audio") : TooFast(t, MaxSpoken) THEN {"answer_rate_implausible"} ELSE {})
         \cup (IF \E t \in of("text") : TooFast(t, MaxTyped) THEN {"typed_answer_rate_implausible"} ELSE {})
         \cup (IF turns # <<>> /\ style.tells >= 2 /\ AtMost(LikelyAt, style.likelihood)
               THEN {"answer_style_ai_generated"} ELSE {})
      info == (IF level = 1 THEN {"identity_assurance_low"} ELSE {})
         \cup (IF turns # <<>> /\ of("audio") = {} THEN {"text_channel_only"} ELSE {})
      n == Cardinality(soft)
  IN  [soft |-> soft, info |-> info, level |-> level,
       band |-> IF n >= 2 THEN "elevated" ELSE IF n = 1 THEN "moderate" ELSE "low"]

----------------------------------------------------------------------------
\* Speech.  A provider that is named but not built refuses like none at all.

BuildSpeech(provider, key) == IF provider = "openrouter" /\ key THEN "openrouter" ELSE "null"
\* The audio's type is refused before anything is sent; an empty transcript is a failure,
\* never an answer of no words.
Transcribe(client, known, vendor) ==
  CASE client = "null" -> "speech_unavailable"
    [] client # "null" /\ ~known -> "speech_failed"
    [] client # "null" /\ known -> IF vendor = "text" THEN "text" ELSE "speech_failed"

=============================================================================
