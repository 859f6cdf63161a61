---------------------------- MODULE ReadingLaws ----------------------------
(***************************************************************************)
(* What the reading of a resume promises, evaluated over bounded inputs    *)
(* before every run of a module that extends this one.                     *)
(***************************************************************************)
EXTENDS Integers, Sequences, FiniteSets

E == INSTANCE Extraction WITH
  SectionAliases <- [s \in {"experience", "education", "skills", "projects"} |-> s],
  SeniorityHints <- <<<<"lead", "senior">>, <<"senior", "senior">>, <<"intern", "junior">>>>

I == INSTANCE InterviewScoring WITH
  Investigate <- {"traced", "measured"}, Change <- {"fixed", "reduced"}, Outcome <- {"recovered", "reduced"},
  StopWords <- {"i", "my", "the", "we"}, QuestionStopWords <- {"cause"}, MinAnswerWords <- 8, MaxDelta <- <<1, 5>>,
  Weights <- [specificity |-> <<1, 1>>, ownership |-> <<1, 1>>, depth |-> <<3, 2>>, consistency |-> <<1, 1>>],
  MinConfidence <- <<1, 2>>, DeepAt <- <<3, 4>>, SolidAt <- <<11, 20>>, EmergingAt <- <<7, 20>>,
  MaxSpoken <- <<4, 1>>, MaxTyped <- <<8, 1>>, LikelyAt <- <<3, 5>>

D == INSTANCE Documents
Worker == INSTANCE PdfWorker
Src == INSTANCE Sources WITH RepoLimit <- 3, LanguageRepos <- 2, IncludeForks <- FALSE, NominalBytes <- 2, MaxRows <- 3,
                             Taxonomy <- [py |-> "python"]
LOCAL INSTANCE SequencesExt

----------------------------------------------------------------------------
\* Lines of resumes.

Header(name) == [E!BlankLine EXCEPT !.name = name, !.short = TRUE]
Capitals(name) == [Header(name) EXCEPT !.upper = TRUE]
Dated(head) == [E!BlankLine EXCEPT !.head = head, !.dates = <<2019, 2021>>]
RoleLine == Dated(<<"lead", "at", "acme">>)
Duty == [Dated(<<"led", "the">>) EXCEPT !.bullet = "dash", !.trailing = TRUE]
RoleBullet == [RoleLine EXCEPT !.bullet = "dot"]
ToDate == [Dated(<<"senior", ",", "acme">>) EXCEPT !.dates = <<2019>>, !.present = "to date"]
Degree == [E!BlankLine EXCEPT !.segments = <<[text |-> "btech", degree |-> TRUE, field |-> {}, digits |-> FALSE]>>,
                              !.degreeWord = TRUE, !.dates = <<2015, 2019>>]
Tools == [Header("technologies") EXCEPT !.parens = TRUE, !.name = "skills"]
ListLine == [E!BlankLine EXCEPT !.listed = "comma", !.parts = <<[words |-> <<"python">>, length |-> 6], [words |-> <<"go">>, length |-> 2]>>]
Stack == [Header("tech stack") EXCEPT !.looks = {"skills"}]

SampleLines == {Header("experience"), Capitals("projects"), Header("career"), Capitals("skills"), [Header("education") EXCEPT !.looks = {"education"}],
                RoleLine, Duty, RoleBullet, ToDate, Degree, Tools, ListLine, Stack}
Resumes == UNION {[1..n -> SampleLines] : n \in 1..3}
Profiles(lines) == E!HeuristicProfile(lines)
Coverage(lines, cap) == E!AssessCoverage(lines, TRUE, E!Extracted(Profiles(lines)), cap)
Spans(entries) == {entries[k].span : k \in DOMAIN entries}

\* The achievements under a role are not roles: where any line of the section dates a role
\* outright, none of its bullets opens one; and what opens one reads as dated to the check.
ASSUME DutiesAreNotRoles ==
  \A lines \in Resumes :
    LET roles == Spans(Profiles(lines).experience)
    IN  /\ \A i, j \in roles : E!Bulleted(lines[i]) => E!Bulleted(lines[j])
        /\ \A i \in roles : E!LooksDatedRole(lines[i]) /\ lines[i] # Duty
        /\ (\E i, j \in DOMAIN lines : j < i /\ i \in roles /\ lines[j] = Header("experience")) \/ roles = {}

\* A line with a list in parentheses is a line of its section, not the head of another.
ASSUME ParenthesesOpenNoSection ==
  \A lines \in Resumes : \A at \in 1..Len(lines) + 1 :
    LET more == [i \in 1..Len(lines) + 1 |-> IF i < at THEN lines[i] ELSE IF i = at THEN Tools ELSE lines[i - 1]]
        moved(i) == IF i < at THEN i ELSE i + 1
        old == E!SplitSections(lines)
        new == E!SplitSections(more)
    IN  \A s \in DOMAIN old : {moved(i) : i \in E!ToSet(old[s])} = E!ToSet(new[s]) \ {at}

\* A resume read in full and found complete hides no dated role: each such line became an
\* entry's section, a degree's, or a school's.  The cap never hides a major gap.
ASSUME LostRolesAreReported ==
  \A lines \in Resumes :
    /\ Coverage(lines, 20).band = "complete" /\ Profiles(lines).experience = <<>>
       => \A i \in DOMAIN lines : lines[i] \in {RoleLine, Duty, RoleBullet, ToDate} =>
            \E h \in 1..i : E!EduHeader(lines[h])
    /\ \A cap \in 1..2 : (Coverage(lines, cap).band = "major_gaps") = (Coverage(lines, 20).band = "major_gaps")

\* An end "to date" is seen by the check and not by the extractor: the role is missed, and
\* the miss is reported.
ASSUME ToDateIsReported ==
  LET lines == <<Header("experience"), ToDate>>
  IN  Profiles(lines).experience = <<>> /\ Coverage(lines, 20).band = "major_gaps"

----------------------------------------------------------------------------
\* Skills, projects, replies.

SkillLines == {[E!BlankLine EXCEPT !.label = l, !.listed = IF n = 1 THEN "none" ELSE c,
                                   !.parts = [k \in 1..n |-> [words |-> <<w[k]>>, length |-> 6]]]
                 : l \in {{}, {[words |-> <<"python">>]}}, c \in {"comma", "other"}, n \in 1..2, w \in [1..2 -> {"java", "years"}]}

\* Each skill is listed once, and a note on a skill keeps the skill's name.
ASSUME SkillsKeepTheirNames ==
  \A a, b \in SkillLines :
    LET s == E!Skills(<<a, b>>, <<1, 2>>)
    IN  /\ \A i, j \in DOMAIN s : s[i].name = s[j].name => i = j
        /\ a.label # {} /\ Len(a.parts) = 1 => \E i \in DOMAIN s : s[i].name[1] = "python"

\* A bulleted line describes one project, the last above it.
ASSUME BulletsDescribeOneProject ==
  \A lines \in [1..4 -> {E!BlankLine, [E!BlankLine EXCEPT !.bullet = "dash"], [E!BlankLine EXCEPT !.name = ""]}] :
    LET ps == E!Projects(lines, <<1, 2, 3, 4>>)
        owners(i) == {k \in DOMAIN ps : i \in E!ToSet(ps[k].description)}
    IN  \A i \in DOMAIN lines :
          /\ owners(i) = {} <=> ~E!Bulleted(lines[i]) \/ \A k \in DOMAIN ps : ps[k].span > i
          /\ \A k \in owners(i) : \A j \in DOMAIN ps : ps[j].span < i => ps[j].span <= ps[k].span

Quoted == [string |-> TRUE, text |-> "words", cased |-> TRUE]
Node(ok) == [object |-> TRUE, excerpt |-> Quoted, confident |-> ok, value |-> "value"]
Member(ok) == [object |-> TRUE, excerpt |-> Quoted, confident |-> TRUE, name |-> "name", typed |-> ok]
Reply(names, members) ==
  [scalars |-> [f \in {"name", "email", "phone", "headline"} |-> IF f = "name" THEN names ELSE {}],
   lists |-> [c \in E!Collections |-> [list |-> TRUE, members |-> IF c = "projects" THEN members ELSE <<>>]]]
Replies == {Reply(n, m) : n \in {{}, {Node(TRUE)}, {Node(FALSE)}}, m \in UNION {[1..k -> {Member(TRUE), Member(FALSE)}] : k \in 0..2}}

\* One bad member refuses the whole reply and says so; no reply is no failure; what was
\* refused or is empty of everything that counts is replaced by the rules, never by nothing.
ASSUME RepliesAreAllOrNothing ==
  \A lines \in {<<RoleLine>>, <<Header("experience"), RoleLine>>} : \A r \in Replies, answered \in BOOLEAN, given \in BOOLEAN :
    LET x == E!ExtractProfile(lines, TRUE, answered, IF given THEN {r} ELSE {}, 20)
        bad == r.scalars["name"] = {Node(FALSE)} \/ \E m \in E!ToSet(r.lists["projects"].members) : m = Member(FALSE)
    IN  /\ Cardinality(x.profile) = 1
        /\ (x.method = "llm") = (answered /\ given /\ ~bad /\ r.scalars["name"] # {})
        /\ (x.warnings # {}) = (~answered \/ (given /\ bad))

----------------------------------------------------------------------------
\* Names.

NameWords == {"acme", "india", "ltd"}
NamesUpTo(n) == UNION {[1..k -> NameWords] : k \in 0..n}
Row(alias, to) == [alias |-> alias, length |-> 4 * Len(alias), to |-> to]
EmployerTables == {<<Row(a, "A"), Row(b, "B")>> : a, b \in NamesUpTo(2) \ {<<>>}}

\* A legal form at the end changes no employer that is not listed with it, and a name made
\* of legal forms alone still is a name.
ASSUME LegalFormsNameNobody ==
  /\ \A rows \in {t \in EmployerTables : E!IndexBuilds(t)}, w \in NamesUpTo(2) : \A l \in {"india", "ltd"} :
       LET long == Append(w, l)
       IN  E!Exact(rows, long) = {} => E!CanonicalizeEmployer(rows, {"india", "ltd"}, long) = E!CanonicalizeEmployer(rows, {"india", "ltd"}, w)
  /\ \A w \in NamesUpTo(3) \ {<<>>} : LET s == E!StripLegalSuffix({"india", "ltd"}, w)
                                  IN  s # <<>> /\ E!StripLegalSuffix({"india", "ltd"}, s) = s

\* A degree is found as the whole text before any part of it, and then by its longest name.
ASSUME LongestDegreeWins ==
  LET rows == <<Row(<<"acme">>, "A"), Row(<<"acme", "india">>, "B")>>
  IN  \A w \in NamesUpTo(3) :
        /\ (\E k \in DOMAIN w : E!HasAt(w, <<"acme", "india">>, k)) => E!NormalizeDegree(rows, w) = {"B"}
        /\ (E!NormalizeDegree(rows, w) = {}) = ("acme" \notin E!ToSet(w))
        /\ \A c \in E!FindCity(rows, w) : c.to = "B" \/ ~E!HasAt(w, <<"acme", "india">>, c.start)

\* Grades of every scale land on ten points or nowhere, and a better claim never lands lower.
ASSUME GradesStayOnTheScale ==
  \A scale \in {"cgpa_10", "cgpa_4", "percentage", "other"}, a, b \in {<<n, 4>> : n \in -4..440} :
    LET g(x) == E!NormalizeGrade({x}, scale)
    IN  /\ \A x \in g(a) : E!AtMost(E!Zero, x) /\ E!AtMost(x, E!Whole(10))
        /\ E!AtMost(a, b) => \A x \in g(a), y \in g(b) : E!AtMost(x, y)

\* One number written in three ways is one number.
ASSUME PhonesHashAlike ==
  \A d \in [1..3 -> {0, 7}] :
    LET ten == <<9, 8, 7, 6, 5, 4, 3>> \o d
    IN  /\ E!NormalizePhone(ten) = E!NormalizePhone(<<0>> \o ten)
        /\ E!NormalizePhone(ten) = E!NormalizePhone(<<-1, 9, 1, -1>> \o ten)
        /\ \A p \in E!NormalizePhone(ten) : E!NormalizePhone(p) = {p}

Tables == [skills |-> <<Row(<<"go">>, "golang")>>, degrees |-> <<Row(<<"btech">>, "btech")>>, institutions |-> <<>>,
           systems |-> <<[prefixes |-> {<<"iit">>}, name |-> "IIT", tier |-> "tier_1"]>>,
           campusFix |-> [c \in {<<"tiruchirappalli">>} |-> <<"trichy">>], employers |-> <<Row(<<"acme">>, "Acme")>>, legal |-> {"ltd"},
           cities |-> <<Row(<<"delhi">>, "Delhi"), Row(<<"new", "delhi">>, "New Delhi")>>]
NoNotice == [f \in E!ToSet(E!NoticeForms) |-> {}]
Claimed == [skills : {<<[name |-> n, canonical |-> {}]>> : n \in {<<"go">>, <<"rust">>}},
            education : {<<[degree |-> d, degreeCanonical |-> {}, grade |-> {E!Whole(9)}, scale |-> {s}, cgpa |-> {},
                            institution |-> {i}, institutionCanonical |-> {}]>>
                           : d \in {{}, {<<"btech", "in", "cs">>}}, s \in {"cgpa_10", "cgpa_4"}, i \in {<<"iit", "tiruchirappalli">>, <<"iit">>}},
            experience : {<<[employer |-> e, employerCanonical |-> {}]>> : e \in {{}, {<<>>}, {<<"acme", "ltd">>}, {<<"other">>}}},
            location : {{}, {<<"near", "new", "delhi">>}}, city : {{}},
            notice : {{[NoNotice EXCEPT !["serving"] = {"stated"}]}, {[NoNotice EXCEPT !["labelled"] = {[unit |-> "week", num |-> 2]}]}},
            noticeDays : {{}}]

\* Naming twice is naming once, and no claim is rewritten.
ASSUME NamingIsIdempotent ==
  \A p \in Claimed :
    LET once == E!NormalizeProfile(Tables, p)
    IN  /\ E!NormalizeProfile(Tables, once) = once
        /\ once.skills[1].name = p.skills[1].name /\ once.experience[1].employer = p.experience[1].employer
        /\ once.education[1].institution = p.education[1].institution /\ once.education[1].grade = p.education[1].grade
        /\ (once.city = {"New Delhi"}) = (p.location # {})

----------------------------------------------------------------------------
\* Interviews.

Clause(terms) == [terms |-> terms, length |-> 4]
SampleClauses == {Clause({"i", "traced", "queue", "leak"}), Clause({"we", "traced", "queue", "leak"}), Clause({"fixed", "pool", "limit"}),
                  Clause({"reduced", "cause", "fail"}), Clause({"queue", "pool", "leak", "limit"})}
Answers == UNION {[1..n -> SampleClauses] : n \in 0..3}
SignalSets == {{}, {"queue"}, {"debug", "fail"}, {"kafka"}}
Prompts == {{}, {"queue", "cause"}, {"kafka"}}
Scored(answer, signals, prompt) == I!ScoreTurn(answer, signals, {"acme"}, prompt)

\* Saying a thing again earns nothing: not on its own, and not by its length.
ASSUME RepetitionEarnsNothing ==
  \A a \in Answers \ {<<>>}, s \in SignalSets, p \in Prompts :
    LET once == Scored(a, s, p)
        again == Scored(Append(a, a[1]), s, p)
    IN  /\ again.confidence = once.confidence
        /\ once.insufficient \/ again = once
        /\ again.dimensions # once.dimensions => once.insufficient /\ "limited_content" \in again.codes

\* Where there is no measure of depth or of consistency the score is one half, never less,
\* and an answer that is beside the question is never more than weak evidence.
ASSUME UnknownIsNeutral ==
  \A a \in Answers, s \in SignalSets, p \in Prompts :
    LET t == Scored(a, s, p)
    IN  ~t.insufficient =>
          /\ s = {} => t.dimensions["depth"] = I!Half
          /\ t.dimensions["consistency"] = I!Half /\ t.dimensions["ownership"] \in {I!Half, I!One}
          /\ "relevance_unconfirmed" \in t.codes => t.dimensions["depth"] = I!Half /\ I!Less(t.confidence, <<1, 2>>)

\* The model moves a score by no more than its cap, and only what the rules could judge; it
\* adds no dimension, and never turns silence into an answer.
ASSUME ModelOnlyNudges ==
  \A a \in UNION {[1..n -> SampleClauses] : n \in 0..2}, s \in SignalSets, p \in Prompts,
     r \in UNION {[dims -> {I!Zero, I!Half, I!One, <<3, 2>>}] : dims \in SUBSET {"depth", "consistency", "charm"}} :
    LET base == Scored(a, s, p)
        x == I!AdjustWithLlm(base, {r})
    IN  /\ DOMAIN x.dimensions = DOMAIN base.dimensions /\ x.confidence = base.confidence
        /\ \A d \in DOMAIN x.dimensions :
             LET gap == I!Minus(x.dimensions[d], base.dimensions[d])
             IN  I!AtMost(gap, <<1, 5>>) /\ I!AtMost(<<-1, 5>>, gap) /\ I!Unit(x.dimensions[d])
        /\ x # base => s # {} /\ "depth" \in DOMAIN r

Turn(score) == [score |-> score, words |-> 30]
OldScore == [I!NoAnswer EXCEPT !.version = I!Legacy, !.insufficient = FALSE, !.dimensions = [d \in {"depth"} |-> I!One]]
TurnScores == {Scored(a, s, {}) : a \in UNION {[1..n -> SampleClauses] : n \in 0..2}, s \in SignalSets}

\* Answers that say nothing, or nothing of the question, cost no score and buy none, but
\* they are part of how much was answered; scores of two scorers are never one result.
ASSUME EmptyAnswersWeighNothing ==
  \A x, y \in TurnScores :
    LET one == I!Aggregate(3, <<Turn(x), Turn(y)>>)
        more == I!Aggregate(3, <<Turn(x), Turn(y), Turn(I!NoAnswer)>>)
        mixed == I!Aggregate(3, <<Turn(x), Turn(OldScore)>>)
    IN  /\ more.overall = one.overall /\ more.confidence = one.confidence /\ more.band = one.band
        /\ I!AtMost(one.confidence, one.coverage)
        /\ mixed.band = "insufficient_signal" /\ mixed.version = "mixed/unknown"

Verdicts == [1..2 -> {[claim |-> 1, probes |-> <<"a", "b", "c">>, missing |-> {}], [claim |-> 2, probes |-> <<"a", "">>, missing |-> {}],
                      [claim |-> 3, probes |-> <<"d">>, missing |-> {}]}]
\* A plan asks nothing twice, asks no claim more than twice, asks of flagged claims first,
\* and is between its bounds or is not made.
ASSUME PlansAskOnce ==
  \A v \in Verdicts, flagged \in SUBSET {2, 3}, limit \in 1..4, minimum \in 0..3 :
    \A plan \in I!BuildQuestionPlan({[experience |-> <<"x", "">>, skills |-> <<"a", "y">>]}, {[verdicts |-> v, flagged |-> flagged, deferred |-> {1}]}, <<"y", "z">>, limit, minimum) :
      /\ Len(plan) >= minimum /\ Len(plan) <= limit
      /\ \A i, j \in DOMAIN plan : plan[i].text = plan[j].text => i = j
      /\ v[1].claim # v[2].claim => \A c \in 1..3 : Cardinality({i \in DOMAIN plan : c \in plan[i].claim}) <= 2
      /\ \A i, j \in DOMAIN plan : i < j /\ plan[i].claim \cap flagged = {} => plan[j].claim \cap flagged = {}

SampleTurns == [channel : {"audio", "text"}, words : {0, 6, 60}, seconds : {-5, 1, 10}]
\* One sign alone is never elevated, typing alone is no sign, and a clock that ran backward
\* divides by nothing.
ASSUME ElevatedTakesTwo ==
  \A a, b \in SampleTurns, level \in 0..2, tells \in 0..2 :
    LET r == I!AssessProxyRisk(level, <<a, b>>, [tells |-> tells, likelihood |-> I!One])
        none == I!AssessProxyRisk(level, <<>>, [tells |-> tells, likelihood |-> I!One])
    IN  /\ r.band = "elevated" => Cardinality({x \in r.soft : x # "identity_assurance_none"}) >= 1
        /\ none.band # "elevated"
        /\ a.words = 0 /\ b.words = 0 /\ level > 0 /\ tells < 2 => r.band = "low"

----------------------------------------------------------------------------
\* Documents.

Role(words) == [employer |-> words, canonical |-> {}, name |-> {"engineer"},
                dates |-> [start |-> {[year |-> 1, month |-> {1}]}, end |-> {[year |-> 2, month |-> {12}]}, current |-> FALSE]]
Letter == [names |-> {}, titles |-> {}, months |-> {}, email |-> TRUE, employeeId |-> TRUE, signatory |-> TRUE,
           uan |-> FALSE, amounts |-> [gross |-> 9, deductions |-> 4, net |-> 5], created |-> {}, modified |-> {}, producer |-> FALSE]
Letters == {[Letter EXCEPT !.names = n, !.titles = t, !.months = m, !.created = c, !.modified = {9}]
              : n \in {{}, {<<"acme">>}, {<<"acme">>, <<"acme", "ltd">>}}, t \in {{}, {"engineer"}}, m \in {{}, {13}, {20, 40}, {70}}, c \in {{}, {1}, {9}}}
RoleLists == {<<>>} \cup {<<Role(<<"acme">>)>>, <<Role(<<"acme", "ltd">>)>>, <<Role(<<"other">>), Role(<<"acme">>)>>}
DocTables == [employers |-> <<Row(<<"acme">>, <<"acme">>)>>, legal |-> {"ltd", "india"}]
Kinds == {"experience_letter", "payslip"}
JudgedAnswer(kind, roles, letter, others) == D!Assess(kind, DocTables, roles, letter, others, 90, 5)
Hard(a) == \E f \in a.findings : f.severity = "hard"

\* A document fails for a hard reason and no other, is worth nothing then, and a legal form
\* at the end of the claimed employer's name is no reason.
ASSUME OnlyHardFindingsFail ==
  \A kind \in Kinds, roles \in RoleLists, l \in Letters :
    LET a == JudgedAnswer(kind, roles, l, {})
    IN  /\ (a.status = "failed") = Hard(a) /\ (a.strength = 0) = Hard(a)
        /\ roles = <<Role(<<"acme">>)>> => a = JudgedAnswer(kind, <<Role(<<"acme", "ltd">>)>>, l, {})

\* What the candidate's own profiles say changes no outcome.
ASSUME OwnProfilesDecideNothing ==
  \A kind \in Kinds, roles \in RoleLists, l \in Letters, others \in SUBSET {<<"acme", "india">>, <<"other">>} :
    LET a == JudgedAnswer(kind, roles, l, {})
        b == JudgedAnswer(kind, roles, l, others)
    IN  b.status = a.status /\ b.strength = a.strength /\ a.findings \subseteq b.findings

\* Amounts decide only whether they add up: two payslips that do leave the same findings.
ASSUME AmountsLeaveNoTrace ==
  \A roles \in RoleLists, x, y \in [gross : 8..11, deductions : {4}, net : 5..6] :
    LET of(amounts) == JudgedAnswer("payslip", roles, [Letter EXCEPT !.names = {<<"acme">>}, !.amounts = amounts], {})
        adds(v) == v.gross - v.deductions - v.net \in -1..1
    IN  adds(x) = adds(y) => of(x) = of(y)

OutcomeRows == [method : {"otp_email", "manual_review", "payslip"}, subject : {"identity", "employment_claim"},
                status : {"pending", "verified", "failed"}, expires : {{}, {2}}, findings : {{}}]
\* A document never speaks for who somebody is, nor an identity check for a job; another
\* failed or lapsed row takes nothing away; what is held is not listed as lapsed.
ASSUME LaddersStaySeparate ==
  \A a, b \in OutcomeRows, at \in {1, 2} :
    LET claim == {r \in {a, b} : r.subject = "employment_claim"}
        both == D!ComputeAssurance({a, b}, at)
        alone == D!ComputeAssurance({a}, at)
    IN  /\ both = D!ComputeAssurance({a, b} \ claim, at)
        /\ D!ComputeClaimEvidence({a, b}, at, {}) = D!ComputeClaimEvidence(claim, at, {})
        /\ alone.level <= both.level /\ both.methods \cap both.expired = {}
        /\ b.status # "verified" => both.level = alone.level
        /\ at = 2 /\ a.expires # {} => alone.level = 0

\* A look by an organization is recorded whether it saw anything or not, and what it asks
\* of somebody unknown leaves no record.
ASSUME LooksAreRecorded ==
  \A org, candidate, consent \in BOOLEAN, a \in OutcomeRows :
    \A r \in {D!AssuranceForOrg(org, candidate, consent, {a}, 1), D!ClaimsForOrg(org, candidate, consent, {a}, 1, {})} :
      /\ (r.answer # {}) = (org /\ candidate /\ consent)
      /\ (r.audit # <<>>) = (org /\ candidate)
      /\ \A i \in DOMAIN r.audit : r.audit[i].allowed = (r.answer # {})

Requests == [known : BOOLEAN, tooBig : BOOLEAN, longLabel : BOOLEAN, consent : BOOLEAN]
\* Whoever was erased, or withdrew, while the document was read leaves no row behind, and a
\* method with nobody behind it never writes one.
ASSUME ErasedWhileReadWritesNothing ==
  \A before, after \in Requests, m \in DOMAIN D!METHOD_SUBJECT, parsed \in {{}, {Letter}} :
    LET s == D!SubmitDocument(before, after, m, parsed, [status |-> "verified", findings |-> {}])
    IN  s.row # {} => before.known /\ after.known /\ parsed # {} /\ m \in Kinds

\* A code goes to the contact on file however its number is spelled, and nowhere else.
ASSUME CodesGoToTheContactOnFile ==
  LET ten == <<9, 8, 7, 6, 5, 4, 3, 2, 1, 0>>
  IN  /\ \A p \in {ten, <<0>> \o ten, <<9, 1, -1>> \o ten} : D!BindDestination("phone", {p}, E!NormalizePhone(ten)) = "ok"
      /\ D!BindDestination("phone", {[ten EXCEPT ![1] = 8]}, E!NormalizePhone(ten)) = "mismatch"
      /\ D!BindDestination("phone", {<<1, 2>>}, E!NormalizePhone(ten)) = "not_a_contact"

----------------------------------------------------------------------------
\* The contained PDF worker.

Object == [kind |-> "dict", pages |-> FALSE, entries |-> <<>>, kids |-> {}, parent |-> {}, resources |-> {}, contents |-> {},
           fonts |-> 0, xobjects |-> <<>>, ops |-> <<>>, filters |-> <<>>, size |-> 0, newline |-> TRUE, image |-> FALSE]
PdfLimits == [work |-> 60, decoded |-> 6, depth |-> 8, pages |-> 2, output |-> 5]

\* A page (1) that draws two forms (2, 3) through the resources (4) all of them inherit.
Drawings == UNION {[1..n -> {{}, {"A"}, {"B"}}] : n \in 0..2}
Drawn(page, a, b) ==
  <<[Object EXCEPT !.entries = <<2, 4>>, !.contents = {5}, !.resources = {4}],
    [Object EXCEPT !.kind = "stream", !.entries = <<4>>, !.resources = {4}, !.ops = a],
    [Object EXCEPT !.kind = "stream", !.entries = <<4>>, !.parent = {2}, !.ops = b],
    [Object EXCEPT !.entries = <<2, 3>>, !.xobjects = [A |-> 2, B |-> 3], !.fonts = 1],
    [Object EXCEPT !.kind = "stream", !.ops = page]>>

\* What running a page really does, form in form, as far as `fuel` goes.
RECURSIVE Runs(_, _, _)
Runs(ops, forms, fuel) ==
  IF fuel = 0 THEN 1000
  ELSE 1 + Len(ops) + FoldLeft(LAMBDA n, op : n + (IF op = {} THEN 0 ELSE Runs(forms[CHOOSE x \in op : TRUE], forms, fuel - 1)), 0, ops)

\* A form drawn by a form drawn twice is paid for each time, and one that draws itself never passes.
ASSUME FormsAreCharged ==
  \A page, a, b \in Drawings : \A work \in {18, 24, 60} :
    LET result == Worker!Preflight(Drawn(page, a, b), 1, 1, Worker!Budget([PdfLimits EXCEPT !.work = work]))
        really == Runs(page, [A |-> a, B |-> b], 5)
    IN  /\ result.budget.refused = {} => really <= work
        /\ "pdf_form_cycle" \in result.budget.refused => really >= 1000
        /\ work = 60 /\ really <= 12 => result.budget.refused = {}

\* A page tree in which a node is met twice, or that has no end, is no tree; what passes has
\* the pages it was counted to have.
KidLists == {{}} \cup {{<<>>}} \cup {{<<x>>} : x \in 1..3} \cup {{<<x, y>>} : x, y \in 1..3}
Tree(k) == [i \in 1..6 |-> IF i <= 3 THEN [Object EXCEPT !.pages = k[i] # {}, !.kids = IF k[i] = {} THEN {} ELSE {i + 3}]
                           ELSE [Object EXCEPT !.kind = "array", !.entries = IF k[i - 3] = {} THEN <<>> ELSE CHOOSE l \in k[i - 3] : TRUE]]
Walks(k) ==
  LET below(w) == UNION {{Append(w, l[j]) : j \in DOMAIN l} : l \in k[w[Len(w)]]}
      next(ws) == UNION {below(w) : w \in ws}
  IN  <<{<<1>>}, next({<<1>>}), next(next({<<1>>})), next(next(next({<<1>>})))>>
ASSUME PageTreesAreTrees ==
  \A k \in [1..3 -> KidLists] :
    LET b == Worker!PageTree(Tree(k), <<[id |-> 1, depth |-> 1]>>, {}, Worker!Budget(PdfLimits))
        walks == UNION {Walks(k)[n] : n \in 1..4}
    IN  b.refused = {} => /\ Walks(k)[4] = {} /\ Cardinality({w[Len(w)] : w \in walks}) = Cardinality(walks)
                          /\ b.pages = Cardinality({w \in walks : k[w[Len(w)]] = {}}) /\ b.pages <= PdfLimits.pages
                          /\ Len(Worker!PagesOf(Tree(k), 1)) = b.pages

Filters == [safe : BOOLEAN, out : {0, 3, 4, 9}, complete : BOOLEAN]
\* No chain of decoders hands on more than the document may expand to, and Flate never holds
\* more than one byte beyond it; the rest is refused, not shortened.
ASSUME DecodersAreBounded ==
  \A f, g \in Filters : \A used \in {0, 2, 6} :
    LET b == [Worker!Budget(PdfLimits) EXCEPT !.decoded = used]
        done == Worker!Decode(b, [Object EXCEPT !.filters = <<f, g>>])
    IN  /\ Worker!Decompress(b, f).allocated <= PdfLimits.decoded + 1 - used
        /\ (done.refused = {}) = (f.safe /\ g.safe /\ f.complete /\ g.complete /\ used + f.out + g.out <= PdfLimits.decoded)
        /\ done.refused = {} => done.decoded = used + f.out + g.out

\* The parts of a page are charged as often as they are named, though each was decoded once.
ASSUME RepeatedContentsAreCharged ==
  \A n \in 1..4, size \in 0..3, newline \in BOOLEAN :
    LET doc == <<[Object EXCEPT !.contents = {2}, !.entries = <<2>>], [Object EXCEPT !.kind = "array", !.entries = [i \in 1..n |-> 3]],
                 [Object EXCEPT !.kind = "stream", !.size = size, !.newline = newline]>>
        result == Worker!Preflight(doc, 1, 1, Worker!Budget(PdfLimits))
    IN  (result.budget.refused = {}) = (size + n * (size + (IF newline THEN 0 ELSE 1)) <= PdfLimits.decoded)

\* What comes back is within the output limit, separators and metadata included.
ASSUME OutputIsBounded ==
  \A n \in 0..3, meta \in 0..2, text \in [1..3 -> 0..2] :
    LET doc == [i \in 1..5 |-> IF i <= 3 THEN Object ELSE IF i = 4 THEN [Object EXCEPT !.pages = TRUE, !.kids = {5}]
                               ELSE [Object EXCEPT !.kind = "array", !.entries = [j \in 1..n |-> j]]]
        result == Worker!Parse(doc, 4, 4, FALSE, meta, text, [PdfLimits EXCEPT !.pages = 3])
        joined == FoldLeft(LAMBDA m, i : m + text[i], 0, [j \in 1..n |-> j]) + (IF n = 0 THEN 0 ELSE n - 1)
    IN  (result.refused = {}) = (meta + joined <= PdfLimits.output)

\* Without a memory limit nothing is parsed, and a limit never rises above the process's own.
ASSUME ContainedOrRefused ==
  \A platform \in {"linux", "win32", "darwin"} : \A hard \in {{}, {3}, {9}}, received \in {0, 4, 5} : \A refused \in {{}, {"pdf_page_limit"}} :
    LET m == Worker!WorkerMain(platform, hard, received, [memory |-> 6, input |-> 4], [refused |-> refused])
    IN  /\ m.error = {} => m.memory # {} /\ received = 4
        /\ platform = "linux" => \A c \in m.memory : c <= 6 /\ \A h \in hard : c <= h

----------------------------------------------------------------------------
\* Profile sources.

WebAnswers(bodies) == {[reached |-> FALSE, status |-> 0, body |-> {}], [reached |-> TRUE, status |-> 403, body |-> {}]}
                   \cup {[reached |-> TRUE, status |-> 200, body |-> b] : b \in bodies}
ByteCounts == {w \in WebAnswers({{[py |-> 4, go |-> 1]}, {[go |-> 3]}, {}}) : w.reached}
Repos == {[language |-> l, languages |-> b, fork |-> f, stars |-> 1, pushed |-> {}] : l \in {{}, {"go"}}, b \in ByteCounts, f \in BOOLEAN}
Order == [py |-> 2, go |-> 1]
Listings == {<<a, b>> : a, b \in Repos}
Account == [reached |-> TRUE, status |-> 200, body |-> {"user"}]
AnswerOf(list) == [reached |-> TRUE, status |-> 200, body |-> {list}]

\* A fork gives nothing, whatever it holds, and one more repository never takes away.
ASSUME ForksAndSilenceAddNothing ==
  \A list \in Listings : \A f \in {x \in Repos : x.fork /\ x.language = {"go"}} :
    LET got == Src!GatherUserSignal(Account, AnswerOf(list))
        more == Src!GatherUserSignal(Account, AnswerOf(Append(list, f)))
    IN  /\ got.raised = more.raised
        /\ \A a \in got.value, b \in more.value : Src!GithubSignal(a, Order) = Src!GithubSignal(b, Order) /\ a.requests = b.requests

\* The provider is asked no more than the limits allow, and what it weighs stays in order:
\* more bytes, no less confidence, nine tenths at most and for the largest.
ASSUME GithubWeighsInOrder ==
  \A list \in Listings : \A raw \in Src!GatherUserSignal(Account, AnswerOf(list)).value :
    LET skills == Src!GithubSignal(raw, Order).skills
        tenths(s) == (s.confidence[1] * 10) \div s.confidence[2]
    IN  /\ raw.requests <= 4
        /\ \A i, j \in DOMAIN skills : i < j => skills[i].weight >= skills[j].weight /\ tenths(skills[i]) >= tenths(skills[j])
        /\ \A i \in DOMAIN skills : tenths(skills[i]) \in 3..9 /\ (i = 1 => tenths(skills[1]) = 9)

\* A provider that fails is "unavailable", but one that answers no JSON is an error of the
\* call: gather_user_signal is said never to raise, and the route tells the caller that the
\* handle was wrong.
ASSUME NoJsonEscapes ==
  /\ \A user \in WebAnswers({{}}) : Src!GatherUserSignal(user, AnswerOf(<<>>)).raised = IF user.reached /\ user.status = 200 THEN {"ValueError"} ELSE {}
  /\ Src!GatherUserSignal(Account, [Account EXCEPT !.body = {}]).raised = {"ValueError"}

Cells == [key : {{"py"}, {"go"}}, shown : {"Py", "py"}, pad : {"none", "space", "control"}]
Positions == [tokens : SUBSET {"py", "go"}, employer : {{}, {"Acme"}}, finished : BOOLEAN]
Export(cells, positions, headline) ==
  [zip |-> TRUE, members |-> [skills |-> [corrupt |-> FALSE, rows |-> cells], positions |-> [corrupt |-> FALSE, rows |-> positions],
                              profile |-> [corrupt |-> FALSE, rows |-> <<[headline |-> headline]>>]]]

\* What a person lists twice counts once, and only what positions or headline mention is
\* more than a claim; a table that cannot be read takes the others along no more than itself.
ASSUME ExportsAreClaims ==
  \A c, d \in {x \in Cells : x.pad = "none"} : \A p \in Positions, headline \in {{}, {"py"}} :
    LET raw == Src!ParseLinkedinExport(Export(<<c, d>>, <<p>>, headline))
        signal == Src!LinkedinSignal(raw, Order)
        broken == Src!ParseLinkedinExport([Export(<<c, d>>, <<p>>, headline) EXCEPT !.members.positions.corrupt = TRUE])
    IN  /\ Len(signal.skills) = Cardinality(c.key \cup d.key)
        /\ \A i \in DOMAIN signal.skills :
             (signal.skills[i].confidence = "corroborated") = (signal.skills[i].key \in p.tokens \cup headline)
        /\ broken.skills = raw.skills /\ broken.headline = raw.headline /\ broken.warnings = 1 /\ broken.positions = <<>>

\* A curator sees at most one spelling of an unmapped skill, never one that hides characters,
\* and never one the vocabulary knows; an unreadable spelling does not hide a readable one.
ASSUME CuratorsSeeReviewableNames ==
  \A c, d \in Cells :
    LET raw == Src!ParseLinkedinExport(Export(<<c, d>>, <<>>, {}))
        captured == Src!CapturedNames(Src!LinkedinSignal(raw, Order).skills, raw.skills)
    IN  /\ Cardinality(captured) <= 1 /\ \A x \in captured : x.key = {"go"} /\ x.pad # "control"
        /\ (captured = {}) = (\A x \in {c, d} : x.key = {"go"} => x.pad = "control")

\* Rows past the limit do not count, wherever they came from.
ASSUME RowsAreCapped ==
  \A cells \in [1..4 -> {[key |-> {"py"}, shown |-> "Py", pad |-> "none"], [key |-> {}, shown |-> "", pad |-> "none"]}] :
    Src!ParseLinkedinExport(Export(cells, <<>>, {})) = Src!ParseLinkedinExport(Export(SubSeq(cells, 1, 3), <<>>, {}))

\* A closed client answers nothing more, and leaves a connection it was handed alone.
ASSUME ClosedStaysClosed ==
  \A open, owns \in BOOLEAN :
    LET client == Src!Aclose([closed |-> FALSE, open |-> open, owns |-> owns])
    IN  /\ Src!GetClient(client).raised = {"RuntimeError"} /\ Src!Aclose(client) = client /\ client.open = (open /\ ~owns)
        /\ Src!AcompleteJson("openrouter", client, {[object |-> TRUE]}).raised = {"RuntimeError"}
        /\ Src!AcompleteJson("null", client, {[object |-> TRUE]}).value = {}

SignalRows == [candidate : {"c1", "c2"}, type : {"github", "linkedin_export"}, at : {1, 2}, id : {1}]
ASSUME LatestSourceIsNewest ==
  \A rows \in {{a, b, c} : a, b, c \in SignalRows} : \A type \in {"github", "linkedin_export"} :
    \A l \in Src!LatestForSource(rows, "c1", type) :
      l.candidate = "c1" /\ l.type = type /\ \A r \in rows : r.candidate = "c1" /\ r.type = type => r.at <= l.at
=============================================================================
