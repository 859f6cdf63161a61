----------------------------- MODULE Extraction -----------------------------
(***************************************************************************)
(* Reading a resume: the language model's reply when it is wholly valid,   *)
(* the rules over its lines otherwise, and the check of what the rules may *)
(* have missed.  A resume is a sequence of lines; a line is a record of    *)
(* what the patterns of the extractor and of the check see in it, which is *)
(* not the same.                                                           *)
(***************************************************************************)
EXTENDS Normalize

CONSTANTS SectionAliases,  \* [name -> section], SECTION_ALIASES
          SeniorityHints   \* sequence of <<word, level>>

\* What a line is made of.  name: the words left when bullet, colon and parentheses are
\* gone; upper: those words are in capitals; short: at most five capitalised words.
BlankLine ==
  [name |-> "words", text |-> "words", bullet |-> "none", parens |-> FALSE, colon |-> FALSE,
   upper |-> FALSE, short |-> FALSE, listed |-> "none", looks |-> {},
   head |-> <<>>, dates |-> <<>>, present |-> "none", trailing |-> FALSE, mentions |-> {},
   segments |-> <<>>, degreeWord |-> FALSE, grade |-> {},
   label |-> {}, parts |-> <<>>, email |-> "none", phone |-> "none", urls |-> <<>>, city |-> {}, notice |-> {}]

Lowest(S) == {x \in S : \A y \in S : x <= y}
IndicesIn(lines, S) == SetToSortSeq(S \cap DOMAIN lines, <)

----------------------------------------------------------------------------
\* Dates.  A point is a year or a month of a year.

ParseDateRange(line) ==
  LET current == line.present = "present"
      points == line.dates
      end == IF Len(points) > 1 THEN {points[2]} ELSE {}
  IN  IF points = <<>> THEN [start |-> {}, end |-> {}, current |-> current]
      ELSE [start |-> {points[1]}, end |-> end, current |-> current /\ end = {}]

HasDateRange(line) == Len(line.dates) >= 2 \/ (Len(line.dates) = 1 /\ line.present = "present")

----------------------------------------------------------------------------
\* The extractor's sections.

\* Parentheses are dropped only from a line in capitals, or from one that is nothing else;
\* of the bullets only the dash is dropped.
HeaderKey(line) ==
  IF line.bullet = "dot" \/ (line.parens /\ ~(line.upper \/ line.name = "")) THEN "words" ELSE line.name
OpensSection(line) == HeaderKey(line) \in DOMAIN SectionAliases

SplitSections(lines) ==
  LET headers == {i \in DOMAIN lines : OpensSection(lines[i])}
      section(i) == LET before == {h \in headers : h < i}
                    IN  IF before = {} THEN "header" ELSE SectionAliases[HeaderKey(lines[Max(before)])]
  IN  [s \in {"header", "education", "experience", "skills", "projects", "certifications"} |->
         IndicesIn(lines, {i \in DOMAIN lines \ headers : section(i) = s})]

\* Name and headline: the first two lines of the head with no address in them.
HeaderIdentity(lines, at) ==
  LET prose == SelectSeq(at, LAMBDA i : lines[i].email = "none" /\ lines[i].urls = <<>>)
  IN  [name |-> {i \in {prose[k] : k \in DOMAIN prose \cap {1}} : "name" \in lines[i].looks},
       headline |-> {prose[k] : k \in DOMAIN prose \cap {2}}]

Contact(lines) ==
  [email |-> Lowest({i \in DOMAIN lines : lines[i].email = "plain"}),
   phone |-> Lowest({i \in DOMAIN lines : lines[i].phone = "indian"})]

Location(lines, at) == Lowest({i \in ToSet(at) : lines[i].city # {}})

\* The first line of the first form that any line has.
NoticeLine(lines) ==
  LET forms == {f \in DOMAIN NoticeForms : \E i \in DOMAIN lines : NoticeForms[f] \in lines[i].notice}
  IN  IF forms = {} THEN {} ELSE Lowest({i \in DOMAIN lines : NoticeForms[Min(forms)] \in lines[i].notice})

LinkType(url) ==
  CASE "github.com" \in url.parts -> "github" [] "linkedin.com" \in url.parts -> "linkedin" [] OTHER -> "other"
Links(lines) ==
  LET found == FlattenSeq([i \in DOMAIN lines |-> [k \in DOMAIN lines[i].urls |-> <<i, lines[i].urls[k]>>]])
      fresh == {k \in DOMAIN found : \A j \in 1..k - 1 : found[j][2] # found[k][2]}
  IN  [n \in 1..Cardinality(fresh) |->
         LET k == SetToSortSeq(fresh, <)[n] IN [url |-> found[k][2], type |-> LinkType(found[k][2]), span |-> found[k][1]]]

----------------------------------------------------------------------------
\* The sections' entries.

\* The degrees the extractor knows; the check knows more, and takes them from the line.
HasDegree(line) == \E s \in ToSet(line.segments) : s.degree
Cgpa(line) == {g \in line.grade : g.kind = "cgpa"}
Education(lines, at) ==
  LET entry(i) ==
        LET line == lines[i]
            segs == line.segments
            named == Lowest({k \in DOMAIN segs : segs[k].degree})
            place == Lowest({k \in DOMAIN segs : \E d \in named : d < k /\ ~segs[k].digits})
            percent == {g \in line.grade : g.kind = "percent"}
        IN  [degree |-> {segs[k].text : k \in named}, field |-> UNION {segs[k].field : k \in named},
             institution |-> {segs[k].text : k \in place},
             grade |-> IF Cgpa(line) # {} THEN {g.value : g \in Cgpa(line)} ELSE {g.value : g \in percent},
             scale |-> IF Cgpa(line) # {}
                       THEN UNION {IF g.outOf # {} THEN {<<"cgpa", d>> : d \in g.outOf}
                                   ELSE IF AtMost(g.value, Whole(10)) THEN {<<"cgpa", 10>>} ELSE {} : g \in Cgpa(line)}
                       ELSE {<<"percentage", 100>> : g \in percent},
             dates |-> ParseDateRange(line), span |-> i]
      kept == SelectSeq(at, LAMBDA i : HasDegree(lines[i]) \/ Cgpa(lines[i]) # {})
  IN  [k \in DOMAIN kept |-> entry(kept[k])]

\* A line that ends in its dates and says something before them.
LooksLikeRole(line) == line.dates # <<>> /\ line.head # <<>> /\ ~line.trailing

Bulleted(line) == line.bullet # "none"
SplitHead(head) ==
  LET ats == {k \in DOMAIN head : head[k] = "at" /\ k > 1 /\ k < Len(head)}
      commas == {k \in DOMAIN head : head[k] = ","}
      cut(k) == [title |-> {SubSeq(head, 1, k - 1)}, employer |-> {SubSeq(head, k + 1, Len(head))}]
  IN  IF ats # {} THEN cut(Max(ats)) ELSE IF commas # {} THEN cut(Max(commas))
      ELSE [title |-> IF head = <<>> THEN {} ELSE {head}, employer |-> {}]

EmploymentType(line) ==
  CASE "intern" \in line.mentions -> "internship" [] "freelance" \in line.mentions -> "freelance"
    [] "contract" \in line.mentions -> "contract" [] OTHER -> "unknown"
Seniority(title) ==
  LET said == {h \in DOMAIN SeniorityHints : \E t \in title : SeniorityHints[h][1] \in ToSet(t)}
  IN  {SeniorityHints[h][2] : h \in Lowest(said)}

\* A dated line under bullets is a duty, unless every dated line of the section is one and
\* it reads like a role.
OpensRole(lines, at, i) ==
  LET dated == {k \in ToSet(at) : HasDateRange(lines[k])}
  IN  /\ i \in dated
      /\ Bulleted(lines[i]) => (\A k \in dated : Bulleted(lines[k])) /\ LooksLikeRole(lines[i])
Experience(lines, at) ==
  LET kept == SelectSeq(at, LAMBDA i : OpensRole(lines, at, i))
      entry(i) == LET who == SplitHead(lines[i].head)
                  IN  [title |-> who.title, employer |-> who.employer, seniority |-> Seniority(who.title),
                       type |-> EmploymentType(lines[i]), dates |-> ParseDateRange(lines[i]), span |-> i]
  IN  [k \in DOMAIN kept |-> entry(kept[k])]

\* The words before a colon are a category only when a list follows it; otherwise they are
\* the skill's own name.
StripSkillLabel(line) ==
  IF line.label = {} \/ (line.listed = "comma" /\ Len(line.parts) > 1) THEN line.parts
  ELSE [line.parts EXCEPT ![1] = [words |-> (CHOOSE l \in line.label : TRUE).words \o @.words, length |-> @.length + 2]]
Skills(lines, at) ==
  LET all == FlattenSeq([k \in DOMAIN at |-> LET p == StripSkillLabel(lines[at[k]])
                                              IN  [n \in DOMAIN p |-> [name |-> p[n].words, length |-> p[n].length, span |-> at[k]]]])
      fits(k) == all[k].length \in 2..40
      fresh == {k \in DOMAIN all : fits(k) /\ \A j \in 1..k - 1 : fits(j) => all[j].name # all[k].name}
  IN  [n \in 1..Cardinality(fresh) |-> LET k == SetToSortSeq(fresh, <)[n] IN [name |-> all[k].name, span |-> all[k].span]]

\* A bulleted line describes the project above it, and nothing when there is none.
Projects(lines, at) ==
  LET opens(i) == ~Bulleted(lines[i]) /\ (lines[i].name # "" \/ lines[i].urls # <<>>)
      heads == SelectSeq(at, opens)
      below(k) == SelectSeq(at, LAMBDA i : /\ Bulleted(lines[i]) /\ i > heads[k]
                                           /\ k < Len(heads) => i < heads[k + 1])
  IN  [k \in DOMAIN heads |-> [span |-> heads[k], description |-> below(k),
                               named |-> lines[heads[k]].name # "", url |-> lines[heads[k]].urls # <<>>]]

Certifications(lines, at) ==
  LET kept == SelectSeq(at, LAMBDA i : "tiny" \notin lines[i].looks)
      dated(i) == "year-last" \in lines[i].looks
  IN  [k \in DOMAIN kept |->
         LET n == Len(lines[kept[k]].parts) - (IF dated(kept[k]) THEN 1 ELSE 0)
         IN  [name |-> n > 0, issuer |-> n > 1, year |-> dated(kept[k]), span |-> kept[k]]]

HeuristicProfile(lines) ==
  LET s == SplitSections(lines)
      who == HeaderIdentity(lines, s["header"])
      contact == Contact(lines)
  IN  [name |-> who.name, headline |-> who.headline, email |-> contact.email, phone |-> contact.phone,
       location |-> Location(lines, s["header"]), notice |-> NoticeLine(lines),
       education |-> Education(lines, s["education"]), experience |-> Experience(lines, s["experience"]),
       skills |-> Skills(lines, s["skills"]), projects |-> Projects(lines, s["projects"]),
       certifications |-> Certifications(lines, s["certifications"]), links |-> Links(lines)]

----------------------------------------------------------------------------
\* The language model's reply: its scalars and its collections' members, each with the
\* excerpt it quotes.  One bad part refuses the whole reply.

\* The excerpt as it stands, or else without regard to case; nowhere is no span.
FindSpan(lines, excerpt) ==
  LET same == {i \in DOMAIN lines : lines[i].text = excerpt.text}
  IN  IF excerpt.text = "" THEN {}
      ELSE IF Lowest(same) # {} /\ excerpt.cased THEN Lowest(same)
      ELSE Lowest({i \in DOMAIN lines : lines[i].text = excerpt.text})

ScalarOk(node) == node.object /\ node.excerpt.string /\ node.confident /\ node.value # "blank"
Scalar(lines, node) == [value |-> node.value, span |-> FindSpan(lines, node.excerpt)]

Collections == {"education", "experience", "skills", "projects", "certifications", "links"}
MemberOk(c, m) == m.object /\ m.excerpt.string /\ (c # "links" => m.confident) /\ m.name # "blank" /\ m.typed
ReplyOk(reply) == /\ \A f \in DOMAIN reply.scalars : \A n \in reply.scalars[f] : ScalarOk(n)
                  /\ \A c \in Collections : reply.lists[c].list /\ \A m \in ToSet(reply.lists[c].members) : MemberOk(c, m)
ParseLlmProfile(lines, reply) ==
  [scalars |-> [f \in DOMAIN reply.scalars |-> {Scalar(lines, n) : n \in reply.scalars[f]}],
   lists |-> [c \in Collections |-> LET ms == reply.lists[c].members
                                    IN  [k \in DOMAIN ms |-> [value |-> ms[k].name, span |-> FindSpan(lines, ms[k].excerpt)]]]]

IsEmptyReply(profile) == /\ \A f \in {"name", "email", "phone"} : profile.scalars[f] = {}
                         /\ \A c \in {"education", "experience", "skills"} : profile.lists[c] = <<>>

----------------------------------------------------------------------------
\* The check, by its own patterns.

\* A short capitalised line with no year and no list in it.
IsHeaderShaped(line) ==
  /\ line.name # "" \/ line.parens
  /\ line.short /\ line.dates = <<>> /\ line.email = "none" /\ line.listed = "none"
NormalizedHeader(line) == line.name
Recognized(line) == NormalizedHeader(line) \in DOMAIN SectionAliases

LooksAcademic(line) == line.degreeWord \/ line.grade # {}
LooksDatedRole(line) == Len(line.dates) >= 2 \/ (Len(line.dates) = 1 /\ line.present # "none")
LooksLikePhone(line) == line.phone # "none"

\* A header says so: by its capitals, its colon, its name, or by the line under it that is
\* neither a header nor the rest of a record.
IsStrongHeaderSignal(lines, i) ==
  \/ lines[i].upper \/ lines[i].colon \/ Recognized(lines[i])
  \/ /\ i < Len(lines) /\ ~IsHeaderShaped(lines[i + 1])
     /\ ~LooksDatedRole(lines[i + 1]) /\ ~LooksAcademic(lines[i + 1])

IsHeader(lines, i) == IsHeaderShaped(lines[i]) /\ IsStrongHeaderSignal(lines, i)
\* The header a line stands under, and the lines under a header.
Blocks(lines) ==
  LET headers == {i \in DOMAIN lines : IsHeader(lines, i)}
      head(i) == {h \in headers : h < i /\ \A g \in headers : g < i => g <= h}
  IN  [i \in DOMAIN lines \ headers |-> head(i)]

EduHeader(line) == "education" \in line.looks
SkillHeader(line) == "skills" \in line.looks
Gap(id, severity, field) == [id |-> id, severity |-> severity, field |-> field]

AssessCoverage(lines, enough, extracted, maxGaps) ==
  LET block == Blocks(lines)
      body == DOMAIN block
      headers == DOMAIN lines \ body
      under(h) == {i \in body : block[i] = {h}}
      roles == {i \in body : /\ \A h \in block[i] : ~EduHeader(lines[h])
                             /\ LooksDatedRole(lines[i]) /\ ~LooksAcademic(lines[i])}
      skilled == {h \in headers : SkillHeader(lines[h]) /\ under(h) # {}}
      reachable == \E i \in DOMAIN lines : lines[i].email # "none" \/ LooksLikePhone(lines[i])
      majors == (IF roles # {} /\ "experience" \notin extracted THEN {"experience"} ELSE {})
          \cup (IF (\E i \in body : LooksAcademic(lines[i])) /\ "education" \notin extracted THEN {"education"} ELSE {})
          \cup (IF skilled # {} /\ "skills" \notin extracted THEN {"skills"} ELSE {})
          \cup (IF reachable /\ "contact" \notin extracted THEN {"contact"} ELSE {})
      strange == {h \in headers : /\ ~Recognized(lines[h]) /\ under(h) # {}
                                  /\ \/ \E i \in under(h) : LooksDatedRole(lines[i]) \/ LooksAcademic(lines[i])
                                     \/ SkillHeader(lines[h])}
      gaps == SelectSeq(<<"experience", "education", "skills", "contact">>, LAMBDA f : f \in majors)
      all == [k \in DOMAIN gaps |-> Gap("not_extracted", "major", gaps[k])]
               \o [k \in 1..Cardinality(strange) |-> Gap("section_unrecognized", "minor", "none")]
      kept == Prefix(all, Min({Len(all), maxGaps}))
  IN  IF ~enough THEN [band |-> "insufficient_data", gaps |-> <<>>, truncated |-> FALSE]
      ELSE [gaps |-> kept, truncated |-> Len(all) > maxGaps,
            band |-> IF \E g \in ToSet(kept) : g.severity = "major" THEN "major_gaps"
                     ELSE IF kept # <<>> THEN "minor_gaps" ELSE "complete"]

----------------------------------------------------------------------------
\* The whole.  A reply is what the model answered: nothing at all after an error, the empty
\* object, or an object.

Extracted(profile) ==
  {c \in {"experience", "education", "skills"} : profile[c] # <<>>}
    \cup (IF profile.email # {} \/ profile.phone # {} THEN {"contact"} ELSE {})
RepliedWith(profile) ==
  {c \in {"experience", "education", "skills"} : profile.lists[c] # <<>>}
    \cup (IF profile.scalars["email"] # {} \/ profile.scalars["phone"] # {} THEN {"contact"} ELSE {})

ExtractProfile(lines, enough, answered, reply, maxGaps) ==
  LET bad == ~answered \/ \E r \in reply : ~ReplyOk(r)
      parsed == IF bad THEN {} ELSE {p \in {ParseLlmProfile(lines, r) : r \in reply} : ~IsEmptyReply(p)}
      floor == HeuristicProfile(lines)
      found == IF parsed = {} THEN Extracted(floor) ELSE UNION {RepliedWith(p) : p \in parsed}
  IN  [method |-> IF parsed = {} THEN "heuristic" ELSE "llm",
       profile |-> IF parsed = {} THEN {floor} ELSE parsed,
       warnings |-> IF bad THEN {"llm_extraction_failed"} ELSE {},
       coverage |-> AssessCoverage(lines, enough, found, maxGaps)]
=============================================================================
