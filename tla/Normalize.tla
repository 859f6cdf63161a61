----------------------------- MODULE Normalize -----------------------------
(***************************************************************************)
(* What a claimed value is called in the tables: degrees, grades, cities,  *)
(* notice periods, institutions, employers and contact data.  The tables   *)
(* are parameters.  A text is the sequence of its words without case and   *)
(* punctuation, and a value that is in no table stays unnamed: {}.         *)
(***************************************************************************)
EXTENDS Fractions

Prefix(words, n) == SubSeq(words, 1, n)
HasAt(words, alias, i) == i + Len(alias) - 1 <= Len(words) /\ SubSeq(words, i, i + Len(alias) - 1) = alias

\* A table is a sequence of rows [alias, length, to], the length being the letters of the
\* alias.  One alias may be claimed twice only for the same thing.
IndexBuilds(rows) == \A i, j \in DOMAIN rows : rows[i].alias = rows[j].alias => rows[i].to = rows[j].to
Exact(rows, words) == {rows[i].to : i \in {j \in DOMAIN rows : rows[j].alias = words}}

----------------------------------------------------------------------------
\* Degrees and grades.

\* The whole text, or else the longest alias that stands in it as words of its own.
NormalizeDegree(rows, words) ==
  IF words = <<>> THEN {}
  ELSE IF Exact(rows, words) # {} THEN Exact(rows, words)
  ELSE LET inside == {i \in DOMAIN rows : \E k \in DOMAIN words : HasAt(words, rows[i].alias, k)}
           longest == {i \in inside : \A j \in inside : rows[j].length <= rows[i].length}
       IN  {rows[i].to : i \in {k \in longest : \A j \in longest : k <= j}}

ToHundredths(x) == <<(200 * x[1] + x[2]) \div (2 * x[2]), 100>>
Between(low, x, high) == AtMost(Whole(low), x) /\ AtMost(x, Whole(high))

\* A grade on the scale of ten points, unless the claim is outside its own scale.
NormalizeGrade(value, scale) ==
  CASE scale = "cgpa_10" -> {ToHundredths(v) : v \in {x \in value : Between(0, x, 10)}}
    [] scale = "cgpa_4" -> {ToHundredths(Times(v, <<5, 2>>)) : v \in {x \in value : Between(0, x, 4)}}
    [] scale = "percentage" -> {ToHundredths(Lesser(Times(v, <<2, 19>>), Whole(10))) : v \in {x \in value : Between(0, x, 100)}}
    [] OTHER -> {}

----------------------------------------------------------------------------
\* Cities and notice periods.

\* The first city of the text, by its longest alias there.
FindCity(rows, words) ==
  LET hits == {<<k, i>> \in (DOMAIN words) \X (DOMAIN rows) : HasAt(words, rows[i].alias, k)}
      best == {h \in hits : \A g \in hits : h[1] < g[1] \/ (h[1] = g[1] /\ rows[g[2]].length <= rows[h[2]].length)}
  IN  {[to |-> rows[h[2]].to, start |-> h[1], end |-> h[1] + Len(rows[h[2]].alias) - 1] : h \in best}

UnitDays == [day |-> 1, week |-> 7, month |-> 30]
NoticeDays(amount) == IF amount.unit = "immediate" THEN 0 ELSE amount.num * UnitDays[amount.unit]

\* What the five patterns find in a text, tried in this order; someone who says only that
\* the notice is being served states a period without a number of days.
NoticeForms == <<"labelled", "inline", "immediate", "serving", "bare">>
ParseNoticePeriod(text) ==
  LET stated == {i \in DOMAIN NoticeForms : text[NoticeForms[i]] # {}}
      first == NoticeForms[Min(stated)]
  IN  IF stated = {} THEN {}
      ELSE {[form |-> first,
             days |-> CASE first = "immediate" -> {0} [] first = "serving" -> {}
                        [] OTHER -> {NoticeDays(a) : a \in text[first]}]}

----------------------------------------------------------------------------
\* Institutions and employers.

\* The table first; then the systems with many campuses, named by a prefix.
CanonicalizeInstitution(rows, systems, campusFix, words) ==
  IF words = <<>> THEN {}
  ELSE IF Exact(rows, words) # {} THEN Exact(rows, words)
  ELSE LET fits == {<<i, n>> \in (DOMAIN systems) \X (1..Len(words) - 1) : Prefix(words, n) \in systems[i].prefixes}
           campus(n) == SubSeq(words, n + 1, Len(words))
           fixed(c) == IF c \in DOMAIN campusFix THEN campusFix[c] ELSE c
       IN  {[system |-> systems[f[1]].name, campus |-> fixed(campus(f[2])), tier |-> systems[f[1]].tier]
              : f \in {g \in fits : \A h \in fits : g[1] <= h[1]}}

StripLegalSuffix(legal, words) ==
  LET kept == {n \in DOMAIN words : \A i \in n + 1..Len(words) : words[i] \in legal}
  IN  IF words = <<>> THEN words ELSE Prefix(words, Min(kept))

\* The longest beginning of the name that is in the table, when all that follows it is a
\* legal form.
CanonicalizeEmployer(rows, legal, words) ==
  LET fits == {n \in DOMAIN words : /\ Exact(rows, Prefix(words, n)) # {}
                                    /\ \A i \in n + 1..Len(words) : words[i] \in legal}
  IN  IF fits = {} THEN {} ELSE Exact(rows, Prefix(words, Max(fits)))

----------------------------------------------------------------------------
\* Contact data.  A phone is the sequence of its characters: digits, and others as -1.

NormalizePhone(phone) ==
  LET digits == SelectSeq(phone, LAMBDA c : c >= 0)
      start == Min({i \in 1..Len(digits) + 1 : i > Len(digits) \/ digits[i] # 0})
      number == SubSeq(digits, start, Len(digits))
      full == IF Len(number) = 10 THEN <<9, 1>> \o number ELSE number
  IN  IF Len(full) \in 11..15 THEN {full} ELSE {}

ApplyContactHashes(contact) ==
  [contact EXCEPT !.emailHash = IF contact.email = {} THEN @ ELSE contact.email,
                  !.phoneHash = IF UNION {NormalizePhone(p) : p \in contact.phone} = {} THEN @
                                ELSE UNION {NormalizePhone(p) : p \in contact.phone}]

----------------------------------------------------------------------------
\* The names are written beside the claims, which stay as they were; what no table knows
\* leaves the name that was there.

Named(old, found) == IF found = {} THEN old ELSE found
NormalizeProfile(tables, profile) ==
  [profile EXCEPT
     !.skills = [i \in DOMAIN @ |-> [@[i] EXCEPT !.canonical = Named(@, Exact(tables.skills, profile.skills[i].name))]],
     !.education = [i \in DOMAIN @ |->
        LET e == profile.education[i] IN
        [e EXCEPT !.degreeCanonical = Named(@, UNION {NormalizeDegree(tables.degrees, d) : d \in e.degree}),
                  !.cgpa = UNION {NormalizeGrade(e.grade, s) : s \in e.scale},
                  !.institutionCanonical = Named(@, UNION {CanonicalizeInstitution(tables.institutions, tables.systems, tables.campusFix, w) : w \in e.institution})]],
     !.experience = [i \in DOMAIN @ |->
        LET e == profile.experience[i] IN
        [e EXCEPT !.employerCanonical = IF e.employer \in {{}, {<<>>}} THEN @
                    ELSE UNION {CanonicalizeEmployer(tables.employers, tables.legal, w) : w \in e.employer}]],
     !.city = Named(@, UNION {{c.to : c \in FindCity(tables.cities, w)} : w \in profile.location}),
     !.noticeDays = LET found == UNION {ParseNoticePeriod(n) : n \in profile.notice}
                    IN  IF found = {} THEN @ ELSE UNION {f.days : f \in found}]
=============================================================================
