------------------------------ MODULE Analysis ------------------------------
(***************************************************************************)
(* One evaluation of a resume: nine nodes in a row, each taking the state  *)
(* of the evaluation and returning it with its own fields set.             *)
(*                                                                         *)
(* The domains a resume is judged in come first: the types of claim, the   *)
(* words that hint at them when no model extracts the claims, and the      *)
(* rules that say what a genuine claim of a type would mention.  A text is *)
(* the set of the keywords that occur in it; one word stands for all the   *)
(* keywords that the lists below treat alike.                              *)
(*                                                                         *)
(* The services are given by what they answer.  The model answers with at  *)
(* most one well-formed reply to each question; none stands alike for an   *)
(* error, a reply that fails validation and an empty object, which degrade *)
(* the node the same way.  The repositories answer by owner and name.      *)
(***************************************************************************)
EXTENDS Fabrication

----------------------------------------------------------------------------
\* The rules of a domain.

RuleFinding(rule, coherence, confidence, expected, missing, probes) ==
  [rule |-> rule, coherence |-> coherence, confidence |-> confidence, expected |-> expected,
   missing |-> missing, probes |-> probes,
   polarity |-> IF Less(coherence, Cent(40)) THEN "contradicts"
                ELSE IF Less(Cent(65), coherence) THEN "supports" ELSE "neutral"]

\* A rule handles claims of some types; each category it expects has its keywords, and a
\* probe of the category's name.  The tell is the kind of contradiction it looks for.
SignalRule(id, types, tell, categories) == [id |-> id, types |-> types, tell |-> tell, categories |-> categories]

Present(hay, keywords) == hay \cap keywords # {}
Handles(rule, claim) == claim.type \in rule.types

----------------------------------------------------------------------------
\* Generative AI.

OpenModels == {"llama"}
ClosedModels == {"gpt-4"}
Compute == {"gpu", "a100", "lora"}

GenAIHints == <<<<"fine_tuning", {"fine-tune", "lora"}>>, <<"rag", {"rag"}>>, <<"multi_agent", {"agents"}>>,
                <<"deployment", {"production"}>>, <<"evaluation", {"eval"}>>, <<"data_pipeline", {"pipeline"}>>,
                <<"prompt_engineering", {"prompt"}>>>>

GenAIRules ==
  <<SignalRule("genai.fine_tuning", {"fine_tuning"}, "finetune",
      <<<<"dataset", {"dataset"}>>, <<"metrics", {"eval", "validation"}>>,
        <<"compute", Compute \cup {"v100"}>>, <<"open_model", OpenModels>>>>),
    SignalRule("genai.rag", {"rag"}, "none",
      <<<<"embedding_model", {"embedding", "e5"}>>, <<"chunking", {"chunk"}>>,
        <<"retrieval_eval", {"recall@"}>>, <<"latency_cost", {"p95"}>>>>),
    SignalRule("genai.multi_agent", {"multi_agent"}, "none",
      <<<<"orchestration", {"langgraph"}>>, <<"state", {"checkpoint"}>>,
        <<"tool_calls", {"tool"}>>, <<"failure_handling", {"retry", "validation"}>>>>)>>

\* A candidate's context has the words of its notes and at most one type of employer.
\* Tuning the weights of a model that does not give them; or without any compute named,
\* where the employer rarely has it.
FinetuneContradiction(hay, ctx) ==
  IF Present(hay, ClosedModels) /\ ~Present(hay, OpenModels)
  THEN {[delta |-> Cent(-35), probes |-> <<"which_model">>]}
  ELSE IF ctx.employer \in {{}, {"unknown"}, {"services_firm"}} /\ ~Present(hay, Compute)
  THEN {[delta |-> Cent(-18), probes |-> <<"which_gpu">>]}
  ELSE {}

----------------------------------------------------------------------------
\* Data engineering.

DistributedTooling == {"spark", "flink", "kafka", "snowflake"}
ScaleTells == {"petabyte", "billions of rows"}

DataEngHints == <<<<"streaming", {"kafka", "flink", "streaming"}>>, <<"warehouse_modeling", {"snowflake", "dbt", "dimensional"}>>,
                  <<"etl_pipeline", {"pipeline", "spark", "airflow"}>>, <<"orchestration", {"dag"}>>,
                  <<"data_quality", {"lineage", "validation"}>>>>

DataEngRules ==
  <<SignalRule("data_eng.etl_pipeline", {"etl_pipeline"}, "scale",
      <<<<"data_volume", {"rows", "billions of rows"}>>, <<"named_tooling", {"spark", "airflow", "dbt"}>>,
        <<"incremental_backfill", {"backfill", "partition"}>>, <<"monitoring", {"alert", "lineage"}>>>>),
    SignalRule("data_eng.streaming", {"streaming"}, "none",
      <<<<"broker", {"kafka"}>>, <<"processing_engine", {"flink"}>>,
        <<"delivery_semantics", {"exactly-once", "checkpoint"}>>, <<"lag_throughput", {"lag", "partition"}>>>>),
    SignalRule("data_eng.warehouse", {"warehouse_modeling"}, "none",
      <<<<"platform", {"snowflake"}>>, <<"modeling_approach", {"dimensional", "dbt"}>>,
        <<"testing_ci", {"ci/cd"}>>, <<"cost_performance", {"cost", "partition"}>>>>)>>

\* Data at a scale that nothing named could process.
ScaleWithoutTooling(hay) ==
  IF Present(hay, ScaleTells) /\ ~Present(hay, DistributedTooling)
  THEN {[delta |-> Cent(-30), probes |-> <<"which_engine">>]}
  ELSE {}

----------------------------------------------------------------------------
\* The registry.

DomainModels ==
  [genai |-> [hints |-> GenAIHints, rules |-> GenAIRules, seeds |-> 2],
   data_eng |-> [hints |-> DataEngHints, rules |-> DataEngRules, seeds |-> 0]]
GetDomain(key) == DomainModels[key]      \* of a registered key: another one is an error

RulesFor(domain, claim) == SelectSeq(domain.rules, LAMBDA r : Handles(r, claim))

Contradiction(rule, hay, ctx) ==
  CASE rule.tell = "finetune" -> FinetuneContradiction(hay, ctx)
    [] rule.tell = "scale" -> ScaleWithoutTooling(hay)
    [] OTHER -> {}

\* Coherence grows with the share of the expected categories that the text mentions, and
\* confidence with how far that share is from one half; a tell lowers the one and raises
\* the other.
Evaluate(rule, claim, ctx) ==
  LET hay == claim.words \cup ctx.notes
      absent == SelectSeq(rule.categories, LAMBDA c : ~Present(hay, c[2]))
      n == Len(rule.categories)
      k == n - Len(absent)
      tells == Contradiction(rule, hay, ctx)
      missing == [i \in DOMAIN absent |-> absent[i][1]]
      probes == FoldSet(LAMBDA t, acc : t.probes \o acc, missing, tells)
      delta == FoldSet(LAMBDA t, acc : Plus(t.delta, acc), IF claim.specificity = "vague" THEN Cent(-12) ELSE Zero, tells)
      decisive == Reduced(IF 2 * k > n THEN 2 * k - n ELSE n - 2 * k, n)
      sure == Plus(Cent(45), Times(Cent(40), decisive))
  IN  RuleFinding(rule.id, Clamp01(Plus(Plus(Cent(30), Times(Cent(55), Reduced(k, n))), delta)),
                  IF tells = {} THEN sure ELSE Greater(sure, Cent(85)),
                  {rule.categories[i][1] : i \in 1..n},
                  ToSet(missing) \cup (IF tells = {} THEN {} ELSE {"coherence_contradiction"}),
                  SubSeq(probes, 1, Min({4, Len(probes)})))

----------------------------------------------------------------------------
\* Sequences.

Take(seq, n) == SubSeq(seq, 1, Min({n, Len(seq)}))
Distinct(seq) == FoldLeft(LAMBDA acc, x : IF x \in ToSet(acc) THEN acc ELSE Append(acc, x), <<>>, seq)

----------------------------------------------------------------------------
\* Claims and links.

\* A link to a host that is not the one of the repositories is no anchor.
ParseGithubUrl(url) ==
  CASE url.host # "github" \/ Len(url.path) = 0 -> {}
    [] url.host = "github" /\ Len(url.path) = 1 -> {[owner |-> url.path[1], repo |-> {}]}
    [] OTHER -> {[owner |-> url.path[1], repo |-> {url.path[2]}]}

Claim(words, type, specificity, anchor) ==
  [words |-> words, type |-> type, specificity |-> specificity, anchor |-> anchor]

NamedWords == {"llama", "gpt-4", "e5", "recall@", "p95", "a100", "lora"}
NumericWords == {"gpt-4", "e5", "p95", "a100", "v100", "7"}

\* The first type of which the line has a hint.
ClassifyType(words, hints) ==
  LET hit == {i \in DOMAIN hints : Present(words, hints[i][2])}
  IN  IF hit = {} THEN {} ELSE {hints[Min(hit)][1]}

Specificity(words) ==
  CASE Present(words, NamedWords) /\ Present(words, NumericWords) -> "specific"
    [] ~Present(words, NamedWords) /\ ~Present(words, NumericWords) -> "vague"
    [] OTHER -> "moderate"

\* Lines long enough whose prose has a hint; the words of a link do not count for the
\* type, and count for how specific the claim is.
HeuristicExtract(lines, hints) ==
  LET claims(line) ==
        LET type == ClassifyType(line.prose, hints)
            words == line.prose \cup line.linked
            anchor == UNION {ParseGithubUrl(u) : u \in line.url}
        IN  IF line.short \/ type = {} THEN <<>>
            ELSE <<Claim(words, The(type), Specificity(words), anchor)>>
  IN  FoldLeft(LAMBDA acc, line : acc \o claims(line), <<>>, lines)

\* One malformed claim rejects the whole reply.
ParseClaimset(reply) ==
  IF \E i \in DOMAIN reply.claims : ~reply.claims[i].ok THEN {}
  ELSE {[context |-> reply.context,
         claims |-> [i \in DOMAIN reply.claims |->
                       LET c == reply.claims[i] IN Claim(c.words, c.type, c.specificity, UNION {ParseGithubUrl(u) : u \in c.url})]]}

NoContext == [notes |-> {}, employer |-> {}, github |-> {}]

----------------------------------------------------------------------------
\* The services.

\* A reply counts only when it is one object, with no number that is not finite.
ExtractJson(text) ==
  IF text.parses /\ text.kind = "object" /\ text.finite THEN {text.value} ELSE {}

\* Three fetches, each only after the one before it: what is seen of a repository, and
\* what could not be fetched.
GatherRepoEvidence(fetch) ==
  LET failed(part) == fetch[part] = "failed"
      seen(part) == IF fetch[part] = "found" THEN <<part>> ELSE <<>>
  IN  IF failed("repository") THEN [observations |-> <<>>, warnings |-> <<"repository">>]
      ELSE IF failed("languages") THEN [observations |-> <<"repository">>, warnings |-> <<"languages">>]
      ELSE IF failed("commits") THEN [observations |-> <<"repository">> \o seen("languages"), warnings |-> <<"commits">>]
      ELSE [observations |-> <<"repository">> \o seen("languages") \o <<"commits">>, warnings |-> <<>>]

\* What evaluations are told to keep of themselves: nothing, in production.
FlywheelRecords(records) == <<>>

----------------------------------------------------------------------------
\* The state of an evaluation, and its nodes.

InitialState(input) ==
  [domain |-> input.domain, github |-> input.github, profile |-> input.profile, farm |-> input.farm,
   coverage |-> input.coverage, today |-> input.today, text |-> input.text, ai |-> {}, crossField |-> {},
   claims |-> <<>>, context |-> NoContext, provenance |-> <<>>, verdicts |-> <<>>,
   aggregate |-> AggregateDepth(<<>>, Settings), risk |-> {}]

\* Style: the detectors first, then the model's opinion with its confidence capped.
AiSignals(st, llm) ==
  LET det == AssessDeterministic(st.text.style)
      own == IF det.evaluated > 0 THEN <<<<det.likelihood, det.confidence>>>> ELSE <<>>
      asked == FoldSet(LAMBDA r, acc : Append(acc, <<r.likelihood, Lesser(Cent(75), r.confidence)>>), <<>>, llm.style)
      fused == FusePairs(own \o asked)
  IN  IF st.text.lines = <<>> THEN st
      ELSE [st EXCEPT !.ai = {[likelihood |-> fused[1], confidence |-> fused[2],
                               band |-> BandFor(fused[1], fused[2], det.fired, Settings)]}]

\* The profile of the caller, or else the one the text yields without a model.
CrossField(st) ==
  LET profile == IF st.profile # {} THEN The(st.profile) ELSE st.text.profile
  IN  IF st.text.lines = <<>> THEN st
      ELSE [st EXCEPT !.crossField = {AssessCrossField(profile, st.today, Settings)}]

\* The model's claims; without a reply, or without a claim in it, the heuristic's.  The
\* link the caller gave is the candidate's unless the text has one.
ClaimExtraction(st, llm) ==
  LET parsed == UNION {ParseClaimset(r) : r \in llm.claims}
      set == IF \E p \in parsed : p.claims # <<>> THEN The(parsed)
             ELSE [context |-> NoContext, claims |-> HeuristicExtract(st.text.lines, GetDomain(st.domain).hints)]
  IN  [st EXCEPT !.claims = set.claims,
                 !.context = [set.context EXCEPT !.github = IF @ # {} THEN @ ELSE st.github]]

\* What is seen of the repository a claim links, or else of the one the caller gave.
Provenance(st, github) ==
  LET shared == UNION {ParseGithubUrl(u) : u \in st.github}
      repo(claim) == LET own == {a \in claim.anchor : a.repo # {}} IN IF own # {} THEN own ELSE {a \in shared : a.repo # {}}
      nothing == [observations |-> <<>>, warnings |-> <<>>]
  IN  [st EXCEPT !.provenance = [i \in DOMAIN st.claims |->
         IF repo(st.claims[i]) = {} THEN nothing ELSE GatherRepoEvidence(github[The(repo(st.claims[i]))])]]

Evidence(source, polarity, weight) == [source |-> source, polarity |-> polarity, weight |-> weight]

\* No signal is neither coherent nor the opposite, and not sure of anything.
Fuse(pairs) == WeightedBy(pairs, Half)

\* The model's opinion of a claim, its confidence capped.
JudgeByModel(r) ==
  LET polarity == CASE Less(r.coherence, Cent(40)) -> "contradicts"
                    [] Less(Cent(65), r.coherence) -> "supports"
                    [] OTHER -> "neutral"
  IN  [pair |-> <<r.coherence, Lesser(Cent(85), r.confidence)>>,
       evidence |-> Evidence("llm", polarity, Lesser(Cent(85), r.confidence)),
       expected |-> r.expected, missing |-> r.missing]

\* One verdict for every claim, from the rules of its type and the model; what is known of
\* the repository is shown, and weighs nothing.
Plausibility(st, llm) ==
  LET verdict(i) ==
        LET claim == st.claims[i]
            rules == RulesFor(GetDomain(st.domain), claim)
            found == [k \in DOMAIN rules |-> Evaluate(rules[k], claim, st.context)]
            asked == SetToSeq({JudgeByModel(r) : r \in llm.judge[i]})
            seen == st.provenance[i]
            fused == Fuse([k \in DOMAIN found |-> <<found[k].coherence, found[k].confidence>>]
                          \o [k \in DOMAIN asked |-> asked[k].pair])
        IN  [claim |-> i, type |-> claim.type, coherence |-> fused[1], confidence |-> fused[2], status |-> "unverified",
             expected |-> UNION {found[k].expected : k \in DOMAIN found} \cup UNION {a.expected : a \in ToSet(asked)},
             missing |-> UNION {found[k].missing : k \in DOMAIN found} \cup UNION {a.missing : a \in ToSet(asked)},
             evidence |-> [k \in DOMAIN found |-> Evidence("rule", found[k].polarity, found[k].confidence)]
                          \o [k \in DOMAIN asked |-> asked[k].evidence]
                          \o [k \in DOMAIN (seen.observations \o seen.warnings) |-> Evidence("github", "neutral", Zero)],
             probes |-> Take(Distinct(FoldLeft(LAMBDA acc, f : acc \o f.probes, <<>>, found)), 4)]
  IN  [st EXCEPT !.verdicts = [i \in DOMAIN st.claims |-> verdict(i)]]

\* Only the claims below the threshold are asked about; what the rules suggest stays first.
ProbeGeneration(st, llm) ==
  LET more(i) == FoldSet(LAMBDA r, acc : acc \o r, <<>>, llm.probes[i])
      probed(v) == IF AtMost(Settings.flagCoherence, v.coherence) \/ more(v.claim) = <<>> THEN v
                   ELSE [v EXCEPT !.probes = Take(Distinct(@ \o more(v.claim)), 5)]
  IN  [st EXCEPT !.verdicts = [i \in DOMAIN @ |-> probed(@[i])]]

\* Context of weight zero is no evidence; the risk is fused here and changes nothing else.
Scoring(st) ==
  LET status(v) == Classify(v.coherence, v.confidence,
                            \E k \in DOMAIN v.evidence : Less(Zero, v.evidence[k].weight), Settings)
  IN  [st EXCEPT !.verdicts = [i \in DOMAIN @ |-> [@[i] EXCEPT !.status = status(st.verdicts[i])]],
                 !.aggregate = AggregateDepth([i \in DOMAIN st.verdicts |->
                                 <<st.verdicts[i].coherence, st.verdicts[i].confidence>>], Settings),
                 !.risk = IF st.ai = {} /\ st.crossField = {} /\ st.farm = {} THEN {}
                          ELSE {AssessFabricationRisk(st.crossField, st.farm, Settings)}]

\* What the summary of a report goes into beyond its counts.
SummaryNotes(st) ==
  (IF \E a \in st.ai : a.band \in {"possible", "likely"} THEN {"style"} ELSE {})
  \cup (IF \E a \in st.crossField : a.band = "major_issues" THEN {"timeline"} ELSE {})
  \cup (IF \E a \in st.farm : a.band = "near_duplicate" THEN {"overlap"} ELSE {})
  \cup {IF r.band = "insufficient_data" THEN "risk unknown" ELSE "risk" : r \in st.risk}
  \cup (IF \E c \in st.coverage : c.band = "major_gaps" THEN {"extraction gaps"} ELSE {})

Report(st) ==
  LET ids(status) == {i \in DOMAIN st.verdicts : st.verdicts[i].status = status}
  IN  [domain |-> st.domain, context |-> st.context, verdicts |-> st.verdicts,
       depth |-> st.aggregate, advisory |-> TRUE, humanReview |-> TRUE,
       flagged |-> ids("incoherent"), deferred |-> ids("defer"), notes |-> SummaryNotes(st),
       ai |-> st.ai, crossField |-> st.crossField, farm |-> st.farm, risk |-> st.risk, coverage |-> st.coverage,
       kept |-> FlywheelRecords([i \in DOMAIN st.verdicts |-> st.verdicts[i].status])]

\* The pipeline; a document that cannot be read ends it without a report.
EvaluateResume(input, llm, github) ==
  IF ~input.readable THEN {}
  ELSE LET extracted == ClaimExtraction(CrossField(AiSignals(InitialState(input), llm)), llm)
           judged == Plausibility(Provenance(extracted, github), llm)
       IN  {Report(Scoring(ProbeGeneration(judged, llm)))}

=============================================================================
