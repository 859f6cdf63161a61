---------------------------- MODULE AnalysisLaws ----------------------------
(***************************************************************************)
(* What the analysis of a resume promises, evaluated over bounded inputs   *)
(* before every run of a module that extends this one.                     *)
(***************************************************************************)
EXTENDS Integers, Sequences, FiniteSets

A == INSTANCE Analysis
Alike(p, n) == [i \in 1..n |-> p]

----------------------------------------------------------------------------
\* Dates, style, overlap and risk.

SampleDate(y, month) == [year |-> y, month |-> month]
SampleDates == {SampleDate(y, m) : y \in {1, 2}, m \in {{}, {1}, {7}, {12}}}
SampleRanges == [start : {{d} : d \in SampleDates}, end : {{}} \cup {{d} : d \in SampleDates}, current : BOOLEAN]
Blur(range) == [range EXCEPT !.start = {SampleDate(d.year, {}) : d \in @}, !.end = {SampleDate(d.year, {}) : d \in @}]
SampleRole(range) == [dates |-> range, type |-> "full_time", title |-> {"senior"}, seniority |-> "unknown"]
SampleToday == 30

\* Leaving out the months never makes two roles overlap more, nor the span they cover
\* shorter, and a pause is never more than a minor finding.
ASSUME BlurredDatesAccuseLess ==
  \A a \in {r \in SampleRanges : r.start = {SampleDate(1, {7})}}, b \in SampleRanges :
    LET months(fs) == A!Highest({f.score : f \in fs})
        roles(x, y) == <<SampleRole(x), SampleRole(y)>>
        overlap(x, y) == months(A!CheckTimelineOverlaps(roles(x, y), SampleToday, 1))
        sharp == \A d \in a.start \cup a.end \cup b.start \cup b.end : d.month # {}
    IN  /\ A!AtMost(overlap(Blur(a), Blur(b)), overlap(a, b))
        /\ sharp /\ A!CheckSeniority(roles(a, b), SampleToday, 24, 48) = {}
             /\ A!WideInterval(a, SampleToday) # {} /\ A!WideInterval(b, SampleToday) # {}
             => A!CheckSeniority(roles(Blur(a), Blur(b)), SampleToday, 24, 48) = {}
        /\ \A f \in A!CheckTimelineGaps(roles(a, b), SampleToday, 1) : f.severity = "minor"

\* What the employer is told of roles held at once is also a finding of the dates.
ASSUME ConcurrentRolesAreFindings ==
  \A a \in {r \in SampleRanges : r.start = {SampleDate(1, {7})}}, b \in SampleRanges :
    LET roles == <<SampleRole(a), SampleRole(b)>>
        told == A!AssessConcurrentEmployment(roles, SampleToday, A!Settings.moonlightMin)
    IN  (told # {}) = (\E f \in A!CheckTimelineOverlaps(roles, SampleToday, 3) : f.severity = "major")

SampleBands == {"consistent", "minor_issues", "major_issues", "insufficient_data"}
SampleFarms == {"unique", "similar", "near_duplicate", "insufficient_data"}
SampleFraud(xf, c, rf, d) ==
  A!AssessFabricationRisk({[band |-> xf, confidence |-> A!Cent(c)]}, {[band |-> rf, confidence |-> A!Cent(d)]}, A!Settings)
SampleHigh == {"moderate", "elevated"}

\* One subsystem alone never asserts anything, the top band needs both, and a worse band
\* of either never lowers the risk.
ASSUME OneSignalNeverElevates ==
  \A xf \in SampleBands, rf \in SampleFarms, c, d \in {0, 45, 90} :
    LET risk == SampleFraud(xf, c, rf, d)
        worse == SampleFraud("major_issues", c, rf, d)
    IN  /\ risk.band = "elevated" => xf = "major_issues" /\ rf = "near_duplicate"
        /\ risk.band \in SampleHigh => xf # "insufficient_data" /\ rf # "insufficient_data"
        /\ A!Unit(risk.score) /\ A!Unit(risk.confidence)
        /\ xf # "insufficient_data" => A!AtMost(risk.score, worse.score)

SampleLine(n) == [bullet |-> n > 0, verb |-> n > 1, metric |-> n > 1, percents |-> IF n > 1 THEN <<10 * n>> ELSE <<>>]
SampleTexts == [words : {59, 60, 300}, phrases : {0, 3, 9}, cv : {A!Zero, A!Half},
                lines : {Alike(SampleLine(n), k) : n \in 0..2, k \in {0, 5, 6}}
                        \cup {Alike(SampleLine(2), 3) \o <<SampleLine(0)>> \o Alike(SampleLine(2), 3)
                              \o <<SampleLine(0)>> \o Alike(SampleLine(n), 3) : n \in {1, 2}}]

\* However sure the model is, "likely" rests on two tells in the text itself.
ASSUME LikelyNeedsTwoTells ==
  \A text \in SampleTexts, asked \in {<<>>, <<<<A!One, A!Cent(75)>>>>} :
    LET rules == A!AssessDeterministic(text)
        own == IF rules.evaluated > 0 THEN <<<<rules.likelihood, rules.confidence>>>> ELSE <<>>
        fused == A!FusePairs(own \o asked)
        band == A!BandFor(fused[1], fused[2], rules.fired, A!Settings)
    IN  /\ A!Unit(rules.likelihood) /\ A!Unit(fused[1]) /\ A!Unit(fused[2])
        /\ band = "likely" => rules.fired >= 2 /\ A!AtMost(A!Cent(40), rules.likelihood)

SampleShingles == SUBSET {1, 2, 3, 4}
SamplePerms == {p \in [1..4 -> 1..4] : Cardinality({p[i] : i \in 1..4}) = 4}

SampleFew == [A!Settings EXCEPT !.minShingles = 2]
SampleOverlaps == [resume : 1..2, candidate : {"p", "q", "r"}, similarity : {A!Cent(50), A!Cent(79), A!Cent(80)}]

\* What a resume says of how to reach its owner never makes it look like another: masking
\* the addresses of one person or of another leaves the same shingles, hence the same
\* fingerprint, and a text too short for an honest comparison has none.
ASSUME ContactsNeverMatch ==
  \A mine, theirs \in {"me", "you"}, n \in 0..3 :
    LET text(who) == SubSeq(<<who, "built", "a", "store", who>>, 1, n + 2)
        shingles(who) == A!ShingleSet(text(who), {"me", "you"}, 2)
        ranks == {[x \in {<<"built", "a">>, <<"a", "store">>} |-> IF x[1] = "a" THEN 1 ELSE 2]}
        print(who) == A!FingerprintText(shingles(who), [k \in {1} |-> CHOOSE r \in ranks : TRUE], SampleFew)
    IN  /\ shingles(mine) = shingles(theirs) /\ print(mine) = print(theirs)
        /\ (print(mine) = {}) = (n < 2)

\* A resume is called a near duplicate for one near-identical text or for a cluster of other
\* people, never for many resumes of one other; more matches never lower the band; and were
\* the matches redacted before they are banded, a cluster would pass for mere similarity.
ASSUME ClustersCountPeople ==
  \A matches \in {{}} \cup {{a, b} : a, b \in SampleOverlaps}, m \in SampleOverlaps, shingles \in {1, 2} :
    LET of(S) == A!AssessResumeFarm(S, shingles, Cardinality(S), SampleFew)
        rank(b) == CHOOSE i \in 1..4 : <<"insufficient_data", "unique", "similar", "near_duplicate">>[i] = b
        all == matches \cup {m}
        people == {x.candidate : x \in all}
        near == \E x \in all : x.similarity = A!Cent(80)
    IN  /\ rank(of(matches).band) <= rank(of(all).band) /\ A!AtMost(of(matches).score, of(all).score)
        /\ shingles = 1 => of(all).band = "insufficient_data" /\ of(all).confidence = A!Zero
        /\ shingles = 2 => (of(all).band = "near_duplicate") = (near \/ Cardinality(people) = 3)
        /\ shingles = 2 /\ ~near => of({[x EXCEPT !.candidate = "redacted"] : x \in all}).band = "similar"

\* Over every ranking of the shingles the signatures agree as often as the texts share
\* shingles: the estimate is the share of what both have in what either has.
ASSUME MinhashEstimatesOverlap ==
  LET perms == A!FoldSet(LAMBDA p, acc : Append(acc, p), <<>>, SamplePerms) IN
  \A a, b \in SampleShingles \ {{}} :
    A!Same(A!EstimateSimilarity(A!MinhashSignature(a, perms), A!MinhashSignature(b, perms)),
           <<Cardinality(a \cap b), Cardinality(a \cup b)>>)

\* Nothing is called incoherent without evidence and without being sure of it, and more
\* coherence never makes a verdict worse.
ASSUME FlaggedOnlyWhenSure ==
  \A x, y, c \in {0, 34, 35, 49, 50, 69, 70, 100}, e \in BOOLEAN :
    LET verdict(h) == A!Classify(A!Cent(h), A!Cent(c), e, A!Settings) IN
    /\ verdict(x) = "incoherent" => e /\ c >= 70 /\ x < 35
    /\ x <= y /\ verdict(y) = "incoherent" => verdict(x) = "incoherent"
    /\ e /\ c < 50 => verdict(x) = "defer"

----------------------------------------------------------------------------
\* Rules.

SampleContext == [notes |-> {}, employer |-> {}, github |-> {}]
SampleWords == [fine_tuning |-> {"lora", "gpu", "llama", "gpt-4", "eval"}, etl_pipeline |-> {"petabyte", "spark", "rows", "alert"}]
SampleRule == [fine_tuning |-> A!GenAIRules[1], etl_pipeline |-> A!DataEngRules[1]]
SampleJudged(type, words) ==
  A!Evaluate(SampleRule[type], A!Claim(words, type, A!Specificity(words), {}), SampleContext)

\* A claim that mentions more of what a genuine one would is never judged less coherent,
\* unless what it adds is the tell itself.
ASSUME MentioningMoreNeverHurts ==
  \A type \in DOMAIN SampleWords : \A words \in SUBSET SampleWords[type], w \in SampleWords[type] \ {"gpt-4", "petabyte"} :
    A!AtMost(SampleJudged(type, words).coherence, SampleJudged(type, words \cup {w}).coherence)

\* A tell makes a finding sure, and a claim that names everything but for a tell is never
\* flagged for it.
ASSUME TellsAreSure ==
  \A type \in DOMAIN SampleWords : \A words \in SUBSET SampleWords[type] :
    LET f == SampleJudged(type, words) IN
    /\ "coherence_contradiction" \in f.missing => A!AtMost(A!Cent(85), f.confidence)
    /\ A!Unit(f.coherence) /\ A!Unit(f.confidence) /\ Len(f.probes) <= 4
    /\ f.missing \subseteq {"coherence_contradiction"} =>
         A!Classify(f.coherence, f.confidence, TRUE, A!Settings) = "coherent"

----------------------------------------------------------------------------
\* Evaluations.

SampleUrl(path) == [host |-> "github", path |-> path]
SampleLines == <<[short |-> FALSE, prose |-> {"lora", "eval"}, linked |-> {"7"}, url |-> {SampleUrl(<<"o", "r">>)}],
                 [short |-> FALSE, prose |-> {"production"}, linked |-> {}, url |-> {}],
                 [short |-> TRUE, prose |-> {"rag"}, linked |-> {}, url |-> {}],
                 [short |-> FALSE, prose |-> {"fine-tune", "gpt-4"}, linked |-> {}, url |-> {}]>>
SampleProfile == [roles |-> <<>>, degrees |-> <<>>]
SampleText(style) == [lines |-> SampleLines, style |-> style, profile |-> SampleProfile]
SampleStyle(n) == [words |-> 300, phrases |-> n, cv |-> A!Zero, lines |-> Alike(SampleLine(2), 6)]
SampleFarm(band) == {[band |-> band, confidence |-> A!Cent(90)]}
SampleInput(style, github, farm) ==
  [readable |-> TRUE, domain |-> "genai", github |-> github, profile |-> {}, farm |-> farm, coverage |-> {},
   today |-> SampleToday, text |-> SampleText(style)]

SampleReply(coherence, confidence) ==
  [coherence |-> A!Cent(coherence), confidence |-> A!Cent(confidence), expected |-> {}, missing |-> {"m"}]
SampleOpinions == {{}} \cup {{SampleReply(c, d)} : c \in {0, 30, 90}, d \in {0, 60, 100}}
SampleModel(style, opinion, probes) ==
  [style |-> style, claims |-> {}, judge |-> Alike(opinion, 3), probes |-> Alike(probes, 3)]
ModelOff == SampleModel({}, {}, {})
SampleSaid == [likelihood |-> A!One, confidence |-> A!One]

SampleFetches == [repository : {"found", "failed"}, languages : {"found", "failed"}, commits : {"found", "failed"}]
SampleGithub(fetch) == [a \in {[owner |-> "o", repo |-> {"r"}]} |-> fetch]
SampleSeen(f) == SampleGithub([part \in {"repository", "languages", "commits"} |-> f])
The(S) == CHOOSE x \in S : TRUE
Decided(report) == <<[i \in DOMAIN report.verdicts |-> report.verdicts[i].status], report.depth, report.risk, report.flagged>>

\* How a resume is written, and what is or is not seen of a repository, decide nothing: the
\* verdicts, the depth and the risk are those of the facts.
ASSUME StyleAndMetadataDecideNothing ==
  \A opinion \in SampleOpinions, farm \in {{}} \cup {SampleFarm(b) : b \in SampleFarms}, fetch \in SampleFetches :
    LET of(style, said, github) ==
          The(A!EvaluateResume(SampleInput(SampleStyle(style), {SampleUrl(<<"o", "r">>)}, farm),
                               SampleModel(said, opinion, {}), github))
    IN  Decided(of(0, {}, SampleGithub(fetch))) = Decided(of(9, {SampleSaid}, SampleSeen("found")))

\* Every claim has its verdict, each is flagged, deferred or neither, and the report of any
\* evaluation is advice for a person.
ASSUME EveryClaimIsJudged ==
  \A opinion \in SampleOpinions, probes \in {{}, {<<"q", "which_gpu", "r", "s", "t", "u">>}} :
    LET r == The(A!EvaluateResume(SampleInput(SampleStyle(0), {}, {}), SampleModel({}, opinion, probes), SampleSeen("failed")))
    IN  /\ Len(r.verdicts) = 3 /\ r.flagged \cap r.deferred = {}
        /\ r.advisory /\ r.humanReview
        /\ \A i \in DOMAIN r.verdicts :
             LET v == r.verdicts[i] IN
             /\ Len(v.probes) <= 5 /\ Cardinality({v.probes[k] : k \in DOMAIN v.probes}) = Len(v.probes)
             /\ opinion = {} /\ A!RulesFor(A!GetDomain("genai"), r.verdicts[i]) = <<>> => v.status = "unverified"
             /\ i \in r.flagged => A!AtMost(A!Cent(70), v.confidence)

\* A claim of a type without rules is flagged only where the model finds it clearly
\* incoherent and is sure of it.
ASSUME ModelAloneMustBeSure ==
  \A opinion \in SampleOpinions :
    LET r == The(A!EvaluateResume(SampleInput(SampleStyle(0), {}, {}), SampleModel({}, opinion, {}), SampleSeen("failed")))
    IN  2 \in r.flagged => \E o \in opinion : A!Less(o.coherence, A!Cent(35)) /\ A!AtMost(A!Cent(70), o.confidence)

\* A reply with one malformed claim is none at all: the claims are then the text's own, as
\* they are when the model is off.
ASSUME MalformedRepliesAreNone ==
  \A ok \in BOOLEAN :
    LET claim(b) == [words |-> {"rag"}, type |-> "rag", specificity |-> "moderate", url |-> {}, ok |-> b]
        reply == [context |-> SampleContext, claims |-> <<claim(TRUE), claim(ok)>>]
        of(llm) == The(A!EvaluateResume(SampleInput(SampleStyle(0), {}, {}), llm, SampleSeen("found")))
    IN  (of([ModelOff EXCEPT !.claims = {reply}]) = of(ModelOff)) = ~ok

=============================================================================
