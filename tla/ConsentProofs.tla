---------------------------- MODULE ConsentProofs ----------------------------
(***************************************************************************)
(* What consent decides, proved for every number of people, rows and calls. *)
(* First the ledger: a call is opened, checked and committed in steps       *)
(* between which grants are revoked and people erased, and its invariant    *)
(* says what the world keeps (World) and what a call in flight may still    *)
(* rely on (AskSound).  Then the feature vectors: builds and uses in steps, *)
(* over people of whom only more is revoked and only more are gone.         *)
(***************************************************************************)
EXTENDS Ledger, Features, FiniteSetTheorems, TLAPS

Answers == {"none", "ok", "403", "404", "500", "missing", "withheld", "labelled", "masked"}
AskOps == EvidenceOps \cup QueryOps \cup {"comp", "event", "materialize", "label", "serve", "view"}

LedgerPeopleSet == Persons \cup {Nobody}
LedgerOrgSet == Orgs \cup {Nobody}

OrgRows == [st: {"free", "active", "gone"}, key: BOOLEAN, weight: Weights]
GrantRows == [st: {"free", "held", "gone"}, person: LedgerPeopleSet, org: LedgerOrgSet,
              purpose: {Read, Write}, from: Nat, until: Nat, revoked: Nat]
EvidenceRows == [st: {"free", "held", "gone"}, kind: EvidenceOps \cup {"event"}, org: LedgerOrgSet,
                 person: LedgerPeopleSet, grant: Grants \cup {Nobody}, parent: Evidence \cup {Nobody}]
AskRecs == [st: {"free", "open", "checked", "done"}, op: AskOps, org: LedgerOrgSet, person: LedgerPeopleSet,
            moment: Nat, under: SUBSET (Grants \cup Evidence), dead: SUBSET Grants, partial: BOOLEAN,
            answer: Answers]

LedgerTypeOK ==
  /\ today \in 0..Horizon
  /\ people \in [Persons -> {"new", "here", "erased"}]
  /\ orgs \in [Orgs -> OrgRows]
  /\ grants \in [Grants -> GrantRows]
  /\ evidence \in [Evidence -> EvidenceRows]
  /\ \A l \in accessLog : l.person \in Persons
  /\ revoking \in [Grants -> SUBSET (0..Horizon)]
  /\ asks \in [Asks -> AskRecs]

\* A grant was given in the past and revoked in the past, if at all.
GrantSound == \A g \in Grants :
  /\ \A t \in revoking[g] : t <= today
  /\ grants[g].st = "free" => revoking[g] = {}
  /\ Held(g) =>
       /\ Here(grants[g].person) /\ (grants[g].org = Nobody \/ Member(grants[g].org))
       /\ grants[g].from <= today
       /\ grants[g].revoked = Never \/ grants[g].revoked <= today

LogSound == \A l \in accessLog : Here(l.person)

RowHolds(row) == row.st = "held" =>
  /\ Here(row.person) /\ Member(row.org)
  /\ IF row.kind = "event"
     THEN /\ row.parent \in Evidence
          /\ evidence[row.parent].st = "held" /\ evidence[row.parent].kind # "event"
          /\ row.person = evidence[row.parent].person
     ELSE /\ row.parent = Nobody
          /\ Held(row.grant)
          /\ grants[row.grant].person = row.person
          /\ grants[row.grant].org \in {Nobody, row.org}
          /\ grants[row.grant].purpose = Write

EvidenceSound == \A e \in Evidence : RowHolds(evidence[e])

\* A revocation that was committed when the call began stays before the call's moment.
RevokedBy(g, m) ==
  \/ grants[g].st = "gone"
  \/ Held(g) /\ grants[g].revoked <= m /\ \A t \in revoking[g] : t <= m

Covers(g, c) ==
  \/ grants[g].st = "gone"
  \/ Held(g) /\ grants[g].person = c.person /\ grants[g].org \in {Nobody, c.org} /\ grants[g].purpose = Write

Witnessed(c, a) ==
  c.op \in QueryOps \cup {"materialize", "label"} /\ Here(c.person) => \E l \in accessLog : l.person = c.person /\ l.ref = a

AskKnown(c) == c.st # "free" /\ c.person \in Persons => people[c.person] \in {"here", "erased"}

AskDead(c) ==
  c.st \in {"open", "checked"} => c.moment <= today /\ \A g \in c.dead : RevokedBy(g, c.moment)

AskUnder(c) ==
  /\ c.st = "open" /\ c.op = "event" =>
       \A e \in c.under :
         /\ e \in Evidence
         /\ \/ evidence[e].st = "gone"
            \/ evidence[e].st = "held" /\ evidence[e].kind = "record" /\ evidence[e].org = c.org
  /\ c.st = "checked" /\ c.op # "view" =>
       /\ c.under \subseteq Grants /\ c.under \cap c.dead = {}
       /\ c.op \in EvidenceOps => \A g \in c.under : Covers(g, c)

AskAnswer(c, a) ==
  /\ c.st # "done" => c.answer = "none"
  /\ c.answer = "ok" => c.under \cap c.dead = {}
  /\ c.answer \in {"ok", "403", "withheld", "labelled"} => Witnessed(c, a)
  /\ c.partial => /\ c.person \in Persons => people[c.person] = "erased"
                  /\ c.op = "view" /\ (c.st = "checked" \/ c.answer = "404")

AskSound(c, a) == AskKnown(c) /\ AskDead(c) /\ AskUnder(c) /\ AskAnswer(c, a)

World == GrantSound /\ LogSound /\ EvidenceSound
AsksSound == \A a \in Asks : AskSound(asks[a], a)

LedgerInv == LedgerTypeOK /\ World /\ AsksSound

-----------------------------------------------------------------------------
LEMMA LedgerInitSound == ASSUME LedgerInit PROVE LedgerInv
<1> USE LedgerConstantsOK DEF LedgerInit, NoGrant, NoOrg, NoRow, NoAsk
<1>1. /\ today \in 0..Horizon /\ people \in [Persons -> {"new", "here", "erased"}]
      /\ revoking \in [Grants -> SUBSET (0..Horizon)] /\ \A l \in accessLog : l.person \in Persons
  OBVIOUS
<1>2. orgs \in [Orgs -> OrgRows]
  BY DEF OrgRows
<1>3. grants \in [Grants -> GrantRows]
  BY DEF GrantRows, LedgerPeopleSet, LedgerOrgSet, Never, Read
<1>4. evidence \in [Evidence -> EvidenceRows]
  BY DEF EvidenceRows, LedgerPeopleSet, LedgerOrgSet, EvidenceOps
<1>5. asks \in [Asks -> AskRecs]
  BY DEF AskRecs, LedgerPeopleSet, LedgerOrgSet, AskOps, EvidenceOps, Answers
<1>6. World
  BY DEF World, GrantSound, Held, LogSound, EvidenceSound, RowHolds
<1>7. AsksSound
  BY DEF AsksSound, AskSound, AskKnown, AskDead, AskUnder, AskAnswer
<1> QED
  BY <1>1, <1>2, <1>3, <1>4, <1>5, <1>6, <1>7 DEF LedgerInv, LedgerTypeOK

-----------------------------------------------------------------------------
(* The world only moves forward: what has gone stays gone, and what is held    *)
(* keeps whom it is about.                                                     *)

Evolves ==
  /\ today' \in 0..Horizon /\ today <= today'
  /\ \A p \in Persons : /\ people[p] \in {"here", "erased"} => people'[p] \in {"here", "erased"}
                        /\ people[p] = "erased" => people'[p] = "erased"
  /\ \A g \in Grants :
       /\ grants[g].st = "gone" => grants'[g].st = "gone"
       /\ Held(g) => \/ grants'[g].st = "gone"
                     \/ /\ Held(g)' /\ grants'[g].person = grants[g].person
                        /\ grants'[g].org = grants[g].org /\ grants'[g].purpose = grants[g].purpose
  /\ \A g \in Grants, m \in Nat : m <= today /\ RevokedBy(g, m) => RevokedBy(g, m)'
  /\ \A e \in Evidence :
       /\ evidence[e].st = "gone" => evidence'[e].st = "gone"
       /\ evidence[e].st = "held" => evidence'[e].st = "gone" \/ evidence'[e] = evidence[e]
  /\ \A l \in accessLog : Here(l.person)' => l \in accessLog'

LEMMA SoundEvolves ==
  ASSUME LedgerTypeOK, Evolves, NEW a \in Asks, NEW c \in AskRecs, AskSound(c, a)
  PROVE  AskSound(c, a)'
<1>0. /\ c.moment \in Nat /\ c.dead \subseteq Grants /\ today \in Nat /\ today' \in Nat
      /\ c.person \in Persons \cup {Nobody}
  BY LedgerConstantsOK DEF AskRecs, LedgerTypeOK, Evolves, LedgerPeopleSet
<1>1. AskKnown(c)'
  BY DEF Evolves, AskSound, AskKnown
<1>2. AskDead(c)'
  <2> SUFFICES ASSUME c.st \in {"open", "checked"}
               PROVE  c.moment <= today' /\ \A g \in c.dead : RevokedBy(g, c.moment)'
    BY DEF AskDead
  <2>1. c.moment <= today /\ \A g \in c.dead : RevokedBy(g, c.moment)
    BY DEF AskSound, AskDead
  <2>2. c.moment <= today'
    BY <1>0, <2>1 DEF Evolves
  <2> QED
    BY <1>0, <2>1, <2>2 DEF Evolves
<1>3. AskUnder(c)'
  <2>1. ASSUME c.st = "open", c.op = "event", NEW e \in c.under
        PROVE  /\ e \in Evidence
               /\ \/ evidence'[e].st = "gone"
                  \/ evidence'[e].st = "held" /\ evidence'[e].kind = "record" /\ evidence'[e].org = c.org
    BY <2>1 DEF Evolves, AskSound, AskUnder
  <2>2. ASSUME c.st = "checked", c.op # "view"
        PROVE  /\ c.under \subseteq Grants /\ c.under \cap c.dead = {}
               /\ c.op \in EvidenceOps => \A g \in c.under : Covers(g, c)'
    BY <2>2 DEF Evolves, AskSound, AskUnder, Covers
  <2> QED
    BY <2>1, <2>2 DEF AskUnder
<1>4. AskAnswer(c, a)'
  <2>1. ASSUME c.answer \in {"ok", "403", "withheld", "labelled"} PROVE Witnessed(c, a)'
    <3> SUFFICES ASSUME c.op \in QueryOps \cup {"materialize", "label"}, Here(c.person)'
                 PROVE  \E l \in accessLog' : l.person = c.person /\ l.ref = a
      BY DEF Witnessed
    <3>1. c.st # "free" /\ c.person \in Persons
      BY <2>1 DEF AskSound, AskAnswer, Here
    <3>2. Here(c.person)
      BY <3>1 DEF AskSound, AskKnown, Evolves, Here
    <3>3. PICK l \in accessLog : l.person = c.person /\ l.ref = a
      BY <2>1, <3>2 DEF AskSound, AskAnswer, Witnessed
    <3> QED
      BY <3>3 DEF Evolves
  <2> QED
    BY <2>1 DEF AskSound, AskAnswer, Evolves
<1> QED
  BY <1>1, <1>2, <1>3, <1>4 DEF AskSound

\* A step of the world alone, or of one call.
LEMMA WorldMoves ==
  ASSUME LedgerInv, LedgerTypeOK', Evolves, World', asks' = asks
  PROVE  LedgerInv'
<1>1. ASSUME NEW a \in Asks PROVE AskSound(asks[a], a)'
  <2>1. PICK c \in AskRecs : c = asks[a]
    BY DEF LedgerInv, LedgerTypeOK
  <2>2. AskSound(c, a)'
    BY <2>1, SoundEvolves DEF LedgerInv, AsksSound
  <2> QED
    BY <2>1, <2>2
<1> QED
  BY <1>1 DEF LedgerInv, AsksSound

LEMMA AskMoves ==
  ASSUME LedgerInv, NEW a \in Asks, NEW c \in AskRecs, asks' = [asks EXCEPT ![a] = c], AskSound(c, a),
         UNCHANGED <<today, people, orgs, grants, evidence, accessLog, revoking>>
  PROVE  LedgerInv'
<1>1. LedgerTypeOK'
  BY DEF LedgerInv, LedgerTypeOK
<1>2. World'
  BY DEF LedgerInv, World, GrantSound, Held, Here, Member, LogSound, EvidenceSound, RowHolds
<1>3. ASSUME NEW b \in Asks PROVE AskSound(asks[b], b)'
  <2>1. PICK d \in AskRecs : d = asks'[b] /\ AskSound(d, b)
    BY DEF LedgerInv, LedgerTypeOK, AsksSound
  <2>2. AskSound(d, b)'
    BY <2>1 DEF AskSound, AskKnown, AskDead, RevokedBy, Held, AskUnder, Covers, AskAnswer, Witnessed, Here
  <2> QED
    BY <2>1, <2>2
<1> QED
  BY <1>1, <1>2, <1>3 DEF LedgerInv, AsksSound

\* A call that writes: one more entry in the log of its person, and perhaps a row.
LEMMA AskWrites ==
  ASSUME LedgerInv, NEW a \in Asks, NEW c \in AskRecs, asks' = [asks EXCEPT ![a] = c],
         c.st = "done", c.answer = "ok" => c.under \cap c.dead = {}, ~c.partial,
         AskKnown(c), 
         NEW p, Here(p), NEW actor, NEW action, accessLog' = accessLog \cup {LogEntry(p, actor, action, a)},
         p = c.person \/ c.op \notin QueryOps \cup {"materialize", "label"},
         \/ evidence' = evidence
         \/ \E e \in Evidence, row \in EvidenceRows :
              /\ evidence[e].st = "free" /\ row.st = "held" /\ RowHolds(row)
              /\ evidence' = [evidence EXCEPT ![e] = row],
         UNCHANGED <<today, people, orgs, grants, revoking>>
  PROVE  LedgerInv'
<1>t. /\ today \in 0..Horizon /\ evidence \in [Evidence -> EvidenceRows] /\ asks \in [Asks -> AskRecs]
      /\ p \in Persons
  BY DEF LedgerInv, LedgerTypeOK, Here
<1>1. LogEntry(p, actor, action, a).person = p /\ LogEntry(p, actor, action, a).ref = a
  BY DEF LogEntry
<1>2. /\ evidence' \in [Evidence -> EvidenceRows]
      /\ \A e \in Evidence : evidence[e].st # "free" => evidence'[e] = evidence[e]
      /\ \A e \in Evidence : evidence'[e] = evidence[e] \/ RowHolds(evidence'[e])
  BY <1>t DEF EvidenceRows
<1>3. LedgerTypeOK'
  BY <1>1, <1>2, <1>t DEF LedgerInv, LedgerTypeOK
<1>4. Evolves
  <2>1. \A g \in Grants, m \in Nat : RevokedBy(g, m) => RevokedBy(g, m)'
    BY DEF RevokedBy, Held
  <2> QED
    BY <1>2, <1>t, <2>1, LedgerConstantsOK DEF Evolves, Held
<1>5. World'
  <2>1. GrantSound'
    BY DEF LedgerInv, World, GrantSound, Held, Here, Member
  <2>2. LogSound'
    BY <1>1 DEF LedgerInv, World, LogSound, Here
  <2>3. EvidenceSound'
    <3> SUFFICES ASSUME NEW e \in Evidence PROVE RowHolds(evidence[e])'
      BY DEF EvidenceSound
    <3>1. PICK row \in EvidenceRows : row = evidence'[e]
      BY <1>2
    <3>2. RowHolds(row)
      BY <1>2, <3>1 DEF LedgerInv, World, EvidenceSound
    <3>3. RowHolds(row)'
      BY <1>2, <3>2 DEF RowHolds, Here, Member, Held
    <3> QED
      BY <3>1, <3>3
  <2> QED
    BY <2>1, <2>2, <2>3 DEF World
<1>6. ASSUME NEW b \in Asks PROVE AskSound(asks[b], b)'
  <2>1. CASE b = a
    <3>1. AskSound(c, a)'
      <4>1. LogEntry(p, actor, action, a) \in accessLog'
        OBVIOUS
      <4>2. c.answer \in {"ok", "403", "withheld", "labelled"} => Witnessed(c, a)'
        BY <1>1, <4>1 DEF Witnessed
      <4> QED
        BY <4>2 DEF AskSound, AskKnown, AskDead, AskUnder, AskAnswer
    <3> QED
      BY <1>t, <2>1, <3>1
  <2>2. CASE b # a
    <3>1. PICK d \in AskRecs : d = asks[b] /\ AskSound(d, b)
      BY <1>t DEF LedgerInv, AsksSound
    <3>2. AskSound(d, b)'
      BY <1>4, <3>1, SoundEvolves DEF LedgerInv
    <3> QED
      BY <1>t, <2>2, <3>1, <3>2
  <2> QED
    BY <2>1, <2>2
<1> QED
  BY <1>3, <1>5, <1>6 DEF LedgerInv, AsksSound

-----------------------------------------------------------------------------
(* Calls: opened, checked, closed.                                             *)

LEMMA OpenKeepsInv ==
  ASSUME LedgerInv, NEW a \in Asks, NEW operation \in AskOps, NEW o \in LedgerOrgSet, NEW p \in LedgerPeopleSet,
         p \in Persons => people[p] # "new", NEW under \in SUBSET (Grants \cup Evidence),
         operation = "event" =>
           \A e \in under : e \in Evidence /\ evidence[e].st = "held" /\ evidence[e].kind = "record"
                            /\ evidence[e].org = o,
         OpenAsk(a, operation, o, p, under)
  PROVE  LedgerInv'
<1> DEFINE dead == {g \in Grants : Held(g) /\ grants[g].revoked # Never}
           c == [NoAsk EXCEPT !.st = "open", !.op = operation, !.org = o, !.person = p, !.moment = today,
                              !.under = under, !.dead = dead]
<1>1. /\ c \in AskRecs /\ c.st = "open" /\ c.op = operation /\ c.org = o /\ c.person = p /\ c.moment = today
      /\ c.under = under /\ c.dead = dead /\ c.partial = FALSE /\ c.answer = "none"
  <2>1. today \in Nat
    BY LedgerConstantsOK DEF LedgerInv, LedgerTypeOK
  <2> QED
    BY <2>1 DEF AskRecs, NoAsk, Answers
<1>2. asks' = [asks EXCEPT ![a] = c]
  BY DEF OpenAsk
<1>3. UNCHANGED <<today, people, orgs, grants, evidence, accessLog, revoking>>
  BY DEF OpenAsk
<1> HIDE DEF c
<1>4. AskKnown(c)
  BY <1>1 DEF AskKnown, LedgerInv, LedgerTypeOK
<1>5. AskDead(c)
  <2>1. today <= today
    BY LedgerConstantsOK DEF LedgerInv, LedgerTypeOK
  <2> QED
    BY <1>1, <2>1 DEF AskDead, RevokedBy, LedgerInv, World, GrantSound
<1>6. AskUnder(c) /\ AskAnswer(c, a)
  BY <1>1 DEF AskUnder, AskAnswer
<1> QED
  BY <1>1, <1>2, <1>3, <1>4, <1>5, <1>6, AskMoves DEF AskSound

LEMMA CloseKeepsInv ==
  ASSUME LedgerInv, NEW a \in Asks, NEW answer \in Answers, NEW under \in SUBSET (Grants \cup Evidence),
         asks[a].st \in {"open", "checked"}, Close(a, answer, under),
         answer = "ok" => under \cap asks[a].dead = {},
         answer \in {"ok", "403", "withheld", "labelled"} => Witnessed(asks[a], a),
         asks[a].partial => answer = "404",
         UNCHANGED <<today, people, orgs, grants, evidence, accessLog, revoking>>
  PROVE  LedgerInv'
<1> DEFINE c == [NoAsk EXCEPT !.st = "done", !.op = asks[a].op, !.person = asks[a].person,
                              !.dead = asks[a].dead, !.partial = asks[a].partial,
                              !.under = under, !.answer = answer]
<1>t. asks[a] \in AskRecs
  BY DEF LedgerInv, LedgerTypeOK
<1>1. /\ c \in AskRecs /\ c.st = "done" /\ c.op = asks[a].op /\ c.person = asks[a].person
      /\ c.under = under /\ c.dead = asks[a].dead /\ c.partial = asks[a].partial /\ c.answer = answer
  BY <1>t DEF AskRecs, NoAsk, LedgerOrgSet
<1>2. asks' = [asks EXCEPT ![a] = c]
  BY DEF Close
<1> HIDE DEF c
<1>3. AskKnown(asks[a]) /\ AskAnswer(asks[a], a)
  BY DEF LedgerInv, AsksSound, AskSound
<1>4. AskKnown(c) /\ AskDead(c) /\ AskUnder(c)
  BY <1>1, <1>3 DEF AskKnown, AskDead, AskUnder
<1>5. AskAnswer(c, a)
  BY <1>1, <1>3 DEF AskAnswer, Witnessed
<1> QED
  BY <1>1, <1>2, <1>4, <1>5, AskMoves DEF AskSound

LEMMA CheckKeepsInv ==
  ASSUME LedgerInv, NEW a \in Asks, NEW under \in SUBSET Grants, asks[a].st = "open", Checked(a, under),
         under \cap asks[a].dead = {},
         asks[a].op \in EvidenceOps => \A g \in under : Covers(g, asks[a]),
         UNCHANGED <<today, people, orgs, grants, evidence, accessLog, revoking>>
  PROVE  LedgerInv'
<1> DEFINE c == [asks[a] EXCEPT !.st = "checked", !.under = under]
<1>t. asks[a] \in AskRecs /\ asks \in [Asks -> AskRecs]
  BY DEF LedgerInv, LedgerTypeOK
<1>1. /\ c \in AskRecs /\ c.st = "checked" /\ c.op = asks[a].op /\ c.person = asks[a].person
      /\ c.org = asks[a].org /\ c.moment = asks[a].moment
      /\ c.under = under /\ c.dead = asks[a].dead /\ c.partial = asks[a].partial /\ c.answer = asks[a].answer
  BY <1>t DEF AskRecs
<1>2. asks' = [asks EXCEPT ![a] = c]
  BY <1>t DEF Checked
<1> HIDE DEF c
<1>3. AskSound(asks[a], a)
  BY DEF LedgerInv, AsksSound
<1>4. AskKnown(c) /\ AskDead(c)
  BY <1>1, <1>3 DEF AskSound, AskKnown, AskDead
<1>5. AskUnder(c)
  BY <1>1 DEF AskUnder, Covers
<1>6. AskAnswer(c, a)
  BY <1>1, <1>3 DEF AskSound, AskAnswer
<1> QED
  BY <1>1, <1>2, <1>4, <1>5, <1>6, AskMoves DEF AskSound

\* What the checks find: a held grant of the person that is in force at the time.
LEMMA ConsentFound ==
  ASSUME NEW p, NEW o, NEW purpose, NEW at, NEW g,
         g \in CheckConsent(p, o, purpose, at) \/ g \in HasAnyActive(p, purpose, at)
  PROVE  /\ g \in Grants /\ grants[g].st = "held" /\ grants[g].person = p /\ grants[g].purpose = purpose
         /\ InWindow(grants[g], at)
         /\ g \in CheckConsent(p, o, purpose, at) => grants[g].org \in {Nobody, o}
BY DEF CheckConsent, HasAnyActive, Preferred, GrantsFor, IsActive

\* A grant in force at the call's moment or later was not revoked before the call.
LEMMA LiveIsNotDead ==
  ASSUME LedgerInv, NEW a \in Asks, asks[a].st \in {"open", "checked"}, NEW g \in Grants, grants[g].st = "held",
         NEW at \in Nat, asks[a].moment <= at, InWindow(grants[g], at)
  PROVE  g \notin asks[a].dead
<1>1. asks[a].moment \in Nat /\ grants[g].revoked \in Nat
  BY DEF LedgerInv, LedgerTypeOK, AskRecs, GrantRows
<1>2. ASSUME g \in asks[a].dead PROVE FALSE
  <2>1. grants[g].revoked <= asks[a].moment
    BY <1>2 DEF LedgerInv, AsksSound, AskSound, AskDead, RevokedBy
  <2> QED
    BY <1>1, <2>1 DEF InWindow
<1> QED
  BY <1>2

\* The checks of a submission, a query and a materialization.
LEMMA ChecksKeepInv ==
  ASSUME LedgerInv, NEW a \in Asks, SubmitCheck(a) \/ QueryCheck(a) \/ MaterializationCheck(a)
  PROVE  LedgerInv'
<1> DEFINE c == asks[a]
<1>t. c \in AskRecs /\ c.moment \in Nat /\ c.moment <= c.moment
  BY DEF LedgerInv, LedgerTypeOK, AskRecs
<1>1. /\ c.st = "open" /\ c.op \in EvidenceOps \cup QueryOps \cup {"materialize"}
      /\ UNCHANGED <<today, people, orgs, grants, evidence, accessLog, revoking>>
  BY DEF SubmitCheck, QueryCheck, MaterializationCheck, AtStage
<1>2. ~c.partial
  BY <1>1 DEF LedgerInv, AsksSound, AskSound, AskAnswer
<1>3. ASSUME NEW answer \in {"404", "missing"}, Close(a, answer, {}) PROVE LedgerInv'
  BY <1>1, <1>2, <1>3, CloseKeepsInv DEF Answers
<1>4. ASSUME c.op \in EvidenceOps, Close(a, "403", {}) PROVE LedgerInv'
  <2>1. Witnessed(asks[a], a)
    BY <1>4 DEF Witnessed, EvidenceOps, QueryOps
  <2> QED
    BY <1>1, <1>2, <1>4, <2>1, CloseKeepsInv DEF Answers
<1>5. ASSUME c.op \notin EvidenceOps, Checked(a, {}) PROVE LedgerInv'
  BY <1>1, <1>5, CheckKeepsInv
<1>6. ASSUME NEW g,
             \/ c.op \in EvidenceOps /\ g \in CheckConsent(c.person, c.org, Write, c.moment)
             \/ c.op \notin EvidenceOps /\ g \in CheckConsent(c.person, c.org, Read, c.moment)
             \/ c.op \notin EvidenceOps /\ g \in HasAnyActive(c.person, Read, c.moment),
             Checked(a, {g})
      PROVE  LedgerInv'
  <2>1. g \in Grants /\ grants[g].st = "held" /\ InWindow(grants[g], c.moment)
    BY <1>6, ConsentFound
  <2>2. g \notin c.dead
    BY <1>1, <1>t, <2>1, LiveIsNotDead
  <2>3. c.op \in EvidenceOps => Covers(g, c)
    BY <1>6, <2>1, ConsentFound DEF Covers, Held
  <2> HIDE DEF c
  <2>4. {g} \in SUBSET Grants /\ {g} \cap c.dead = {} /\ (c.op \in EvidenceOps => \A h \in {g} : Covers(h, c))
    BY <2>1, <2>2, <2>3
  <2> QED
    BY <1>1, <1>6, <2>4, CheckKeepsInv DEF c
<1>7. CASE SubmitCheck(a)
  BY <1>3, <1>4, <1>6, <1>7 DEF SubmitCheck, AtStage
<1>8. CASE QueryCheck(a)
  <2>1. c.op \notin EvidenceOps
    BY <1>8 DEF QueryCheck, AtStage, EvidenceOps, QueryOps
  <2> QED
    BY <1>3, <1>5, <1>6, <1>8, <2>1 DEF QueryCheck
<1>9. CASE MaterializationCheck(a)
  <2>1. c.op \notin EvidenceOps
    BY <1>9 DEF MaterializationCheck, AtStage, EvidenceOps
  <2> QED
    BY <1>3, <1>5, <1>6, <1>9, <2>1 DEF MaterializationCheck
<1> QED
  BY <1>7, <1>8, <1>9

-----------------------------------------------------------------------------
(* Commits: a row, an entry in the log, an answer.                             *)

LEMMA CommitKeepsInv ==
  ASSUME LedgerInv, NEW a \in Asks, NEW answer \in Answers, NEW under \in SUBSET (Grants \cup Evidence),
         asks[a].st \in {"open", "checked"}, ~asks[a].partial, Close(a, answer, under),
         answer = "ok" => under \cap asks[a].dead = {},
         NEW p, Here(p), NEW actor, NEW action, accessLog' = accessLog \cup {LogEntry(p, actor, action, a)},
         p = asks[a].person \/ asks[a].op \notin QueryOps \cup {"materialize", "label"},
         \/ evidence' = evidence
         \/ \E e \in Evidence, row \in EvidenceRows :
              /\ evidence[e].st = "free" /\ row.st = "held" /\ RowHolds(row)
              /\ evidence' = [evidence EXCEPT ![e] = row],
         UNCHANGED <<today, people, orgs, grants, revoking>>
  PROVE  LedgerInv'
<1> DEFINE c == [NoAsk EXCEPT !.st = "done", !.op = asks[a].op, !.person = asks[a].person,
                              !.dead = asks[a].dead, !.partial = asks[a].partial,
                              !.under = under, !.answer = answer]
<1>t. asks[a] \in AskRecs
  BY DEF LedgerInv, LedgerTypeOK
<1>1. /\ c \in AskRecs /\ c.st = "done" /\ c.op = asks[a].op /\ c.person = asks[a].person
      /\ c.under = under /\ c.dead = asks[a].dead /\ c.partial = asks[a].partial /\ c.answer = answer
  BY <1>t DEF AskRecs, NoAsk, LedgerOrgSet
<1>2. asks' = [asks EXCEPT ![a] = c]
  BY DEF Close
<1> HIDE DEF c
<1>3. AskKnown(c)
  BY <1>1 DEF LedgerInv, AsksSound, AskSound, AskKnown
<1>4. /\ c.answer = "ok" => c.under \cap c.dead = {}
      /\ ~c.partial
      /\ p = c.person \/ c.op \notin QueryOps \cup {"materialize", "label"}
  BY <1>1
<1> QED
  BY <1>1, <1>2, <1>3, <1>4, AskWrites

\* Only a view may have read a part too late.
LEMMA OnlyViewsArePartial ==
  ASSUME LedgerInv, NEW a \in Asks, asks[a].st \in {"open", "checked"}, asks[a].op # "view"
  PROVE  ~asks[a].partial
BY DEF LedgerInv, AsksSound, AskSound, AskAnswer

LEMMA SubmitKeepsInv ==
  ASSUME LedgerInv, NEW a \in Asks, NEW kind \in EvidenceOps, SubmitCommit(a, kind)
  PROVE  LedgerInv'
<1>t. asks[a] \in AskRecs
  BY DEF LedgerInv, LedgerTypeOK
<1>1. /\ asks[a].st = "checked" /\ asks[a].op = kind /\ asks[a].op # "view"
      /\ UNCHANGED <<today, people, orgs, grants, revoking>>
  BY DEF SubmitCommit, AtStage, EvidenceOps
<1>2. ~asks[a].partial
  BY <1>1, OnlyViewsArePartial
<1>3. /\ asks[a].under \subseteq Grants /\ asks[a].under \cap asks[a].dead = {}
      /\ \A g \in asks[a].under : Covers(g, asks[a])
  BY <1>1 DEF LedgerInv, AsksSound, AskSound, AskUnder
<1>4. ASSUME Close(a, "500", {}), UNCHANGED <<evidence, accessLog>> PROVE LedgerInv'
  BY <1>1, <1>2, <1>4, CloseKeepsInv DEF Answers
<1>5. ASSUME NEW g \in asks[a].under, NEW e \in Evidence,
             Member(asks[a].org), Here(asks[a].person), Held(g), evidence[e].st = "free",
             evidence' = [evidence EXCEPT ![e] = [NoRow EXCEPT !.st = "held", !.kind = kind, !.org = asks[a].org,
                                                               !.person = asks[a].person, !.grant = g]],
             accessLog' = accessLog \cup {LogEntry(asks[a].person, asks[a].org, kind, a)},
             Close(a, "ok", {g})
      PROVE  LedgerInv'
  <2> DEFINE row == [NoRow EXCEPT !.st = "held", !.kind = kind, !.org = asks[a].org,
                                  !.person = asks[a].person, !.grant = g]
  <2>1. /\ row \in EvidenceRows /\ row.st = "held" /\ row.kind = kind /\ row.org = asks[a].org
        /\ row.person = asks[a].person /\ row.grant = g /\ row.parent = Nobody
    BY <1>t, <1>3, <1>5 DEF EvidenceRows, NoRow, AskRecs
  <2>2. evidence' = [evidence EXCEPT ![e] = row]
    BY <1>5
  <2> HIDE DEF row
  <2>3. RowHolds(row)
    <3>1. kind # "event"
      BY DEF EvidenceOps
    <3>2. Covers(g, asks[a]) /\ grants[g].st = "held"
      BY <1>3, <1>5 DEF Held
    <3> QED
      BY <1>5, <2>1, <3>1, <3>2 DEF RowHolds, Covers
  <2>4. {g} \in SUBSET (Grants \cup Evidence) /\ {g} \cap asks[a].dead = {} /\ "ok" \in Answers
    BY <1>3 DEF Answers
  <2> QED
    BY <1>1, <1>2, <1>5, <2>1, <2>2, <2>3, <2>4, CommitKeepsInv
<1> QED
  BY <1>4, <1>5 DEF SubmitCommit

LEMMA AppendKeepsInv ==
  ASSUME LedgerInv, NEW a \in Asks, AppendEvent(a)
  PROVE  LedgerInv'
<1>t. asks[a] \in AskRecs
  BY DEF LedgerInv, LedgerTypeOK
<1>1. /\ asks[a].st = "open" /\ asks[a].op = "event"
      /\ UNCHANGED <<today, people, orgs, grants, revoking>>
  BY DEF AppendEvent, AtStage
<1>2. ~asks[a].partial
  BY <1>1, OnlyViewsArePartial
<1>3. \A e \in asks[a].under :
         /\ e \in Evidence
         /\ \/ evidence[e].st = "gone"
            \/ evidence[e].st = "held" /\ evidence[e].kind = "record" /\ evidence[e].org = asks[a].org
  BY <1>1 DEF LedgerInv, AsksSound, AskSound, AskUnder
<1>4. ASSUME Close(a, "404", {}), UNCHANGED <<evidence, accessLog>> PROVE LedgerInv'
  BY <1>1, <1>2, <1>4, CloseKeepsInv DEF Answers
<1>5. ASSUME NEW r \in asks[a].under, NEW e \in Evidence, evidence[r].st = "held", evidence[e].st = "free",
             evidence' = [evidence EXCEPT ![e] = [NoRow EXCEPT !.st = "held", !.kind = "event", !.org = asks[a].org,
                                                               !.person = evidence[r].person, !.parent = r]],
             accessLog' = accessLog \cup {LogEntry(evidence[r].person, asks[a].org, "event", a)},
             Close(a, "ok", {})
      PROVE  LedgerInv'
  <2> DEFINE row == [NoRow EXCEPT !.st = "held", !.kind = "event", !.org = asks[a].org,
                                  !.person = evidence[r].person, !.parent = r]
  <2>0. r \in Evidence /\ evidence[r] \in EvidenceRows
    BY <1>3, <1>5 DEF LedgerInv, LedgerTypeOK
  <2>1. /\ row \in EvidenceRows /\ row.st = "held" /\ row.kind = "event" /\ row.org = asks[a].org
        /\ row.person = evidence[r].person /\ row.parent = r
    BY <1>t, <2>0 DEF EvidenceRows, NoRow, AskRecs
  <2>2. evidence' = [evidence EXCEPT ![e] = row]
    BY <1>5
  <2> HIDE DEF row
  <2>3. Here(evidence[r].person) /\ Member(evidence[r].org) /\ evidence[r].kind = "record" /\ evidence[r].org = asks[a].org
    BY <1>3, <1>5, <2>0 DEF LedgerInv, World, EvidenceSound, RowHolds
  <2>4. RowHolds(row)
    BY <1>5, <2>0, <2>1, <2>3 DEF RowHolds
  <2>5. {} \in SUBSET (Grants \cup Evidence) /\ "ok" \in Answers /\ "event" \notin QueryOps \cup {"materialize", "label"}
    BY DEF Answers, QueryOps
  <2> QED
    BY <1>1, <1>2, <1>5, <2>1, <2>2, <2>3, <2>4, <2>5, CommitKeepsInv
<1> QED
  BY <1>4, <1>5 DEF AppendEvent

LEMMA QueryKeepsInv ==
  ASSUME LedgerInv, NEW a \in Asks, NEW operation \in QueryOps, QueryCommit(a, operation)
  PROVE  LedgerInv'
<1>t. asks[a] \in AskRecs
  BY DEF LedgerInv, LedgerTypeOK
<1>1. /\ asks[a].st = "checked" /\ asks[a].op = operation /\ asks[a].op # "view"
      /\ UNCHANGED <<today, people, orgs, grants, evidence, revoking>>
  BY DEF QueryCommit, AtStage, QueryOps
<1>2. ~asks[a].partial
  BY <1>1, OnlyViewsArePartial
<1>3. asks[a].under \subseteq Grants /\ asks[a].under \cap asks[a].dead = {}
  BY <1>1 DEF LedgerInv, AsksSound, AskSound, AskUnder
<1>4. ASSUME Close(a, "500", {}), UNCHANGED accessLog PROVE LedgerInv'
  BY <1>1, <1>2, <1>4, CloseKeepsInv DEF Answers
<1>5. ASSUME Here(asks[a].person), NEW answer \in {"403", "ok"},
             accessLog' = accessLog \cup {LogEntry(asks[a].person, asks[a].org, operation, a)},
             Close(a, answer, asks[a].under)
      PROVE  LedgerInv'
  BY <1>1, <1>2, <1>3, <1>5, CommitKeepsInv DEF Answers
<1> QED
  BY <1>4, <1>5 DEF QueryCommit

LEMMA PlatformAuditKeepsInv ==
  ASSUME LedgerInv, NEW a \in Asks, NEW answer \in {"withheld", "ok", "labelled"}, PlatformAudit(a, answer),
         \/ AtStage(a, "checked", {"materialize"})
         \/ AtStage(a, "open", {"label"}) /\ answer = "labelled"
  PROVE  LedgerInv'
<1>t. asks[a] \in AskRecs
  BY DEF LedgerInv, LedgerTypeOK
<1>1. /\ asks[a].st \in {"open", "checked"} /\ asks[a].op # "view"
      /\ UNCHANGED <<today, people, orgs, grants, evidence, revoking>>
  BY DEF AtStage, PlatformAudit
<1>2. ~asks[a].partial
  BY <1>1, OnlyViewsArePartial
<1>3. /\ asks[a].under \subseteq Grants \cup Evidence
      /\ answer = "ok" => asks[a].under \cap asks[a].dead = {}
  BY <1>t DEF LedgerInv, AsksSound, AskSound, AskUnder, AtStage, AskRecs
<1>4. ASSUME Close(a, "missing", {}), UNCHANGED accessLog PROVE LedgerInv'
  BY <1>1, <1>2, <1>4, CloseKeepsInv DEF Answers
<1>5. ASSUME Here(asks[a].person),
             accessLog' = accessLog \cup {LogEntry(asks[a].person, Nobody, asks[a].op, a)},
             Close(a, answer, asks[a].under)
      PROVE  LedgerInv'
  BY <1>1, <1>2, <1>3, <1>5, CommitKeepsInv DEF Answers
<1> QED
  BY <1>4, <1>5 DEF PlatformAudit

\* The figures on offers count no grant that was revoked before the call.
LEMMA OffersKeepInv ==
  ASSUME LedgerInv, NEW a \in Asks, ObservedOffersForComp(a)
  PROVE  LedgerInv'
<1> DEFINE c == asks[a]
           offers == {e \in Evidence : evidence[e].st = "held" /\ evidence[e].kind = "offer"}
           counted == {e \in offers : IsActive(grants[evidence[e].grant], evidence[e].org, Write, c.moment)}
           under == {evidence[e].grant : e \in counted}
<1>1. /\ c.st = "open" /\ c.op = "comp" /\ Close(a, "ok", under)
      /\ UNCHANGED <<today, people, orgs, grants, evidence, accessLog, revoking>>
  BY DEF ObservedOffersForComp, AtStage
<1>2. c \in AskRecs /\ c.moment \in Nat /\ c.moment <= c.moment
  BY DEF LedgerInv, LedgerTypeOK, AskRecs
<1>3. ASSUME NEW g \in under PROVE g \in Grants /\ g \notin c.dead
  <2>1. PICK e \in counted : g = evidence[e].grant
    BY <1>3
  <2>2. g \in Grants /\ grants[g].st = "held" /\ InWindow(grants[g], c.moment)
    BY <2>1 DEF LedgerInv, World, EvidenceSound, RowHolds, Held, IsActive
  <2> QED
    BY <1>1, <1>2, <2>2, LiveIsNotDead
<1>4. ~c.partial
  BY <1>1, OnlyViewsArePartial
<1>5. under \in SUBSET (Grants \cup Evidence) /\ under \cap c.dead = {}
  BY <1>3
<1>6. Witnessed(c, a)
  BY <1>1 DEF Witnessed, QueryOps
<1> HIDE DEF under
<1> QED
  BY <1>1, <1>4, <1>5, <1>6, CloseKeepsInv DEF Answers

LEMMA ServeKeepsInv ==
  ASSUME LedgerInv, NEW a \in Asks, CurrentConsent(a)
  PROVE  LedgerInv'
<1>1. /\ asks[a].st = "open" /\ asks[a].op = "serve"
      /\ UNCHANGED <<today, people, orgs, grants, evidence, accessLog, revoking>>
  BY DEF CurrentConsent, AtStage
<1>2. ~asks[a].partial /\ Witnessed(asks[a], a)
  BY <1>1, OnlyViewsArePartial DEF Witnessed, QueryOps
<1>3. CASE Close(a, "masked", {})
  BY <1>1, <1>2, <1>3, CloseKeepsInv DEF Answers
<1>4. ASSUME NEW g, \/ g \in HasAnyActive(asks[a].person, Read, today)
                    \/ g \in CheckConsent(asks[a].person, asks[a].org, Read, today),
             Close(a, "ok", {g})
      PROVE  LedgerInv'
  <2>1. g \in Grants /\ grants[g].st = "held" /\ InWindow(grants[g], today)
    BY <1>4, ConsentFound
  <2>2. today \in Nat /\ asks[a].moment <= today
    BY <1>1, LedgerConstantsOK DEF LedgerInv, LedgerTypeOK, AsksSound, AskSound, AskDead
  <2>3. g \notin asks[a].dead
    BY <1>1, <2>1, <2>2, LiveIsNotDead
  <2> QED
    BY <1>1, <1>2, <1>4, <2>1, <2>3, CloseKeepsInv DEF Answers
<1> QED
  BY <1>3, <1>4 DEF CurrentConsent

\* A view of oneself: what was read after the erasure is not shown.
LEMMA ViewKeepsInv ==
  ASSUME LedgerInv, NEW a \in Asks, ReadPart(a) \/ ShowView(a)
  PROVE  LedgerInv'
<1>t. asks[a] \in AskRecs /\ AskSound(asks[a], a) /\ "view" \notin QueryOps \cup {"materialize", "label"} \cup EvidenceOps
  BY DEF LedgerInv, LedgerTypeOK, AsksSound, QueryOps, EvidenceOps
<1>1. CASE ReadPart(a)
  <2> DEFINE c == [asks[a] EXCEPT !.st = "checked", !.partial = ~Here(asks[a].person)]
  <2>1. /\ asks[a].st = "open" /\ asks[a].op = "view"
        /\ UNCHANGED <<today, people, orgs, grants, evidence, accessLog, revoking>>
    BY <1>1 DEF ReadPart, AtStage
  <2>2. /\ c \in AskRecs /\ c.st = "checked" /\ c.op = "view" /\ c.person = asks[a].person /\ c.org = asks[a].org
        /\ c.moment = asks[a].moment /\ c.under = asks[a].under /\ c.dead = asks[a].dead
        /\ c.partial = ~Here(asks[a].person) /\ c.answer = "none"
    BY <1>t, <2>1 DEF AskRecs, AskSound, AskAnswer
  <2>3. asks' = [asks EXCEPT ![a] = c]
    BY <1>1, <1>t DEF ReadPart, LedgerInv, LedgerTypeOK
  <2> HIDE DEF c
  <2>4. AskKnown(c) /\ AskDead(c)
    BY <1>t, <2>1, <2>2 DEF AskSound, AskKnown, AskDead
  <2>5. AskUnder(c) /\ AskAnswer(c, a)
    BY <1>t, <2>1, <2>2 DEF AskSound, AskUnder, AskAnswer, AskKnown, Here
  <2> QED
    BY <2>1, <2>2, <2>3, <2>4, <2>5, AskMoves DEF AskSound
<1>2. CASE ShowView(a)
  <2>1. /\ asks[a].st = "checked" /\ asks[a].op = "view"
        /\ UNCHANGED <<today, people, orgs, grants, evidence, accessLog, revoking>>
    BY <1>2 DEF ShowView, AtStage
  <2>2. Witnessed(asks[a], a)
    BY <1>t, <2>1 DEF Witnessed
  <2>3. asks[a].partial => ~Here(asks[a].person)
    BY <1>t DEF AskSound, AskAnswer, Here
  <2> QED
    BY <1>2, <2>1, <2>2, <2>3, CloseKeepsInv DEF ShowView, RequireCandidate, Answers
<1> QED
  BY <1>1, <1>2

LEMMA AskStartKeepsInv ==
  ASSUME LedgerInv, NEW a \in Asks, AskStart(a)
  PROVE  LedgerInv'
<1>1. ASSUME NEW operation \in EvidenceOps \cup QueryOps, OrgCall(a, operation) PROVE LedgerInv'
  <2>1. operation \in AskOps /\ operation # "event"
    BY DEF AskOps, EvidenceOps, QueryOps
  <2> QED
    BY <1>1, <2>1, OpenKeepsInv DEF OrgCall, LedgerOrgSet, LedgerPeopleSet
<1>2. CASE CompCall(a)
  BY <1>2, OpenKeepsInv, LedgerConstantsOK DEF CompCall, AskOps, LedgerOrgSet, LedgerPeopleSet
<1>3. CASE EventCall(a)
  <2>1. PICK o \in Orgs, e \in Evidence :
          /\ evidence[e].st = "held" /\ evidence[e].kind = "record" /\ evidence[e].org = o
          /\ OpenAsk(a, "event", o, evidence[e].person, {e})
    BY <1>3 DEF EventCall
  <2>2. Here(evidence[e].person)
    BY <2>1 DEF LedgerInv, World, EvidenceSound, RowHolds
  <2>3. PICK p \in Persons : p = evidence[e].person /\ people[p] # "new"
    BY <2>2 DEF Here
  <2>4. \A d \in {e} : d \in Evidence /\ evidence[d].st = "held" /\ evidence[d].kind = "record" /\ evidence[d].org = o
    BY <2>1
  <2>5. OpenAsk(a, "event", o, p, {e})
    BY <2>1, <2>3
  <2>6. {e} \in SUBSET (Grants \cup Evidence)
    OBVIOUS
  <2> QED
    BY <2>3, <2>4, <2>5, <2>6, OpenKeepsInv DEF AskOps, LedgerOrgSet, LedgerPeopleSet, Here
<1>4. CASE PlatformCall(a)
  BY <1>4, OpenKeepsInv DEF PlatformCall, AskOps, LedgerOrgSet, LedgerPeopleSet
<1>5. CASE EmployerServe(a)
  BY <1>5, OpenKeepsInv DEF EmployerServe, AskOps, LedgerOrgSet, LedgerPeopleSet
<1>6. CASE PortalViewCall(a)
  BY <1>6, OpenKeepsInv DEF PortalViewCall, AskOps, LedgerOrgSet, LedgerPeopleSet, Here
<1> QED
  BY <1>1, <1>2, <1>3, <1>4, <1>5, <1>6
  DEF AskStart, SubmitRecordCall, SubmitCodingRoundCall, SubmitOfferCall, QueryRecordsCall,
      QueryCodingRoundsCall, ReputationCall, EvidenceOps, QueryOps

-----------------------------------------------------------------------------
(* The world's own steps.                                                      *)

\* A deletion takes with it all that refers to what was deleted, and the calls in
\* flight only find less than there was.
LEMMA CascadeKeepsInv ==
  ASSUME LedgerInv, NEW os \in SUBSET Orgs, NEW ps \in SUBSET Persons, Cascade(GoneWith(os, ps)),
         people' \in [Persons -> {"new", "here", "erased"}], orgs' \in [Orgs -> OrgRows],
         \A p \in Persons : people'[p] = IF p \in ps THEN "erased" ELSE people[p],
         \A o \in Orgs \ os : orgs'[o] = orgs[o],
         accessLog' = {l \in accessLog : l.person \notin ps},
         UNCHANGED <<today, revoking, asks>>
  PROVE  LedgerInv'
<1> DEFINE gs == {g \in Grants : Held(g) /\ (grants[g].org \in os \/ grants[g].person \in ps)}
           rs == {e \in Evidence : /\ evidence[e].st = "held"
                                   /\ \/ evidence[e].org \in os
                                      \/ evidence[e].person \in ps
                                      \/ evidence[e].grant \in gs}
           es == rs \cup {e \in Evidence : evidence[e].st = "held" /\ evidence[e].parent \in rs}
           goneGrant == [NoGrant EXCEPT !.st = "gone"]
           goneRow == [NoRow EXCEPT !.st = "gone"]
<1>t. /\ today \in 0..Horizon /\ today <= today /\ grants \in [Grants -> GrantRows]
      /\ evidence \in [Evidence -> EvidenceRows]
  BY LedgerConstantsOK DEF LedgerInv, LedgerTypeOK
<1>1. goneGrant \in GrantRows /\ goneGrant.st = "gone" /\ goneRow \in EvidenceRows /\ goneRow.st = "gone"
  BY LedgerConstantsOK DEF GrantRows, EvidenceRows, NoGrant, NoRow, LedgerPeopleSet, LedgerOrgSet, Never, Read,
                           EvidenceOps
<1>2. /\ grants' = [g \in Grants |-> IF g \in gs THEN goneGrant ELSE grants[g]]
      /\ evidence' = [e \in Evidence |-> IF e \in es THEN goneRow ELSE evidence[e]]
  BY DEF Cascade, GoneWith
<1>a. \A g \in Grants : g \in gs <=> Held(g) /\ (grants[g].org \in os \/ grants[g].person \in ps)
  OBVIOUS
<1>b. \A e \in Evidence : e \in rs <=> /\ evidence[e].st = "held"
                                       /\ \/ evidence[e].org \in os
                                          \/ evidence[e].person \in ps
                                          \/ evidence[e].grant \in gs
  OBVIOUS
<1>z. rs \subseteq Evidence
  OBVIOUS
<1>c. \A e \in Evidence : e \in es <=> (e \in rs \/ (evidence[e].st = "held" /\ evidence[e].parent \in rs))
  OBVIOUS
<1> HIDE DEF gs, rs, es, goneGrant, goneRow
<1>3. /\ \A g \in Grants : grants'[g] = IF g \in gs THEN goneGrant ELSE grants[g]
      /\ \A e \in Evidence : evidence'[e] = IF e \in es THEN goneRow ELSE evidence[e]
  BY <1>2
<1>4. LedgerTypeOK'
  BY <1>1, <1>2, <1>t DEF LedgerInv, LedgerTypeOK
<1>5. \A g \in Grants : Held(g) =>
         IF g \in gs THEN grants'[g].st = "gone"
         ELSE grants'[g] = grants[g] /\ grants[g].org \notin os /\ grants[g].person \notin ps
  BY <1>1, <1>3, <1>a
<1>6. \A g \in Grants : grants[g].st # "held" => g \notin gs /\ grants'[g] = grants[g]
  BY <1>3, <1>a DEF Held
<1>7. Evolves
  <2>1. \A p \in Persons : /\ people[p] \in {"here", "erased"} => people'[p] \in {"here", "erased"}
                           /\ people[p] = "erased" => people'[p] = "erased"
    OBVIOUS
  <2>2. ASSUME NEW g \in Grants
        PROVE  /\ grants[g].st = "gone" => grants'[g].st = "gone"
               /\ Held(g) => \/ grants'[g].st = "gone"
                             \/ Held(g)' /\ grants'[g].person = grants[g].person
                                /\ grants'[g].org = grants[g].org /\ grants'[g].purpose = grants[g].purpose
               /\ \A m \in Nat : RevokedBy(g, m) => RevokedBy(g, m)'
    BY <1>5, <1>6 DEF Held, RevokedBy
  <2>3. ASSUME NEW e \in Evidence
        PROVE  /\ evidence[e].st = "gone" => evidence'[e].st = "gone"
               /\ evidence[e].st = "held" => evidence'[e].st = "gone" \/ evidence'[e] = evidence[e]
    BY <1>1, <1>3
  <2>4. \A l \in accessLog : Here(l.person)' => l \in accessLog'
    BY DEF Here
  <2> QED
    BY <1>t, <2>1, <2>2, <2>3, <2>4 DEF Evolves
<1>8. GrantSound'
  <2> SUFFICES ASSUME NEW g \in Grants
               PROVE  /\ \A t \in revoking[g] : t <= today
                      /\ grants'[g].st = "free" => revoking[g] = {}
                      /\ Held(g)' =>
                           /\ Here(grants[g].person)' /\ (grants'[g].org = Nobody \/ Member(grants[g].org)')
                           /\ grants'[g].from <= today
                           /\ grants'[g].revoked = Never \/ grants'[g].revoked <= today
    BY DEF GrantSound
  <2>1. /\ \A t \in revoking[g] : t <= today
        /\ grants[g].st = "free" => revoking[g] = {}
        /\ Held(g) => /\ Here(grants[g].person) /\ (grants[g].org = Nobody \/ Member(grants[g].org))
                      /\ grants[g].from <= today
                      /\ grants[g].revoked = Never \/ grants[g].revoked <= today
    BY DEF LedgerInv, World, GrantSound
  <2>2. CASE g \in gs
    BY <1>1, <1>3, <2>1, <2>2 DEF Held
  <2>3. CASE g \notin gs
    <3>1. grants'[g] = grants[g]
      BY <1>3, <2>3
    <3>2. Held(g) => grants[g].org \notin os /\ grants[g].person \notin ps
      BY <1>5, <2>3
    <3> QED
      BY <2>1, <3>1, <3>2 DEF Held, Here, Member
  <2> QED
    BY <2>2, <2>3
<1>9. LogSound'
  BY DEF LedgerInv, World, LogSound, Here
<1>10. EvidenceSound'
  <2> SUFFICES ASSUME NEW e \in Evidence, evidence'[e].st = "held" PROVE RowHolds(evidence[e])'
    BY DEF EvidenceSound, RowHolds
  <2>1. e \notin es /\ evidence'[e] = evidence[e] /\ evidence[e].st = "held" /\ RowHolds(evidence[e])
    BY <1>1, <1>3 DEF LedgerInv, World, EvidenceSound
  <2>2. e \notin rs /\ evidence[e].org \notin os /\ evidence[e].person \notin ps /\ evidence[e].grant \notin gs
        /\ evidence[e].parent \notin rs
    BY <1>b, <1>c, <2>1
  <2>3. Here(evidence[e].person)' /\ Member(evidence[e].org)'
    BY <2>1, <2>2 DEF RowHolds, Here, Member
  <2>4. CASE evidence[e].kind = "event"
    <3>1. PICK d \in Evidence : /\ d = evidence[e].parent /\ evidence[d].st = "held" /\ evidence[d].kind # "event"
                                /\ evidence[e].person = evidence[d].person
      BY <2>1, <2>4 DEF RowHolds
    <3>2. d \notin es
      <4>1. RowHolds(evidence[d])
        BY DEF LedgerInv, World, EvidenceSound
      <4>2. evidence[d].parent = Nobody
        BY <3>1, <4>1 DEF RowHolds
      <4>3. evidence[d].parent \notin rs
        BY <4>2, LedgerConstantsOK, <1>z
      <4> QED
        BY <1>c, <2>2, <3>1, <4>3
    <3>3. evidence'[d] = evidence[d]
      BY <1>3, <3>2
    <3> QED
      BY <2>1, <2>3, <2>4, <3>1, <3>3 DEF RowHolds
  <2>5. CASE evidence[e].kind # "event"
    <3>1. PICK g \in Grants : g = evidence[e].grant /\ grants'[g] = grants[g]
      BY <1>3, <2>1, <2>2, <2>5 DEF RowHolds, Held
    <3> QED
      BY <2>1, <2>3, <2>5, <3>1 DEF RowHolds, Held
  <2> QED
    BY <2>4, <2>5
<1> QED
  BY <1>4, <1>7, <1>8, <1>9, <1>10, WorldMoves DEF World

LEMMA DeletionsKeepInv ==
  ASSUME LedgerInv, \/ \E o \in Orgs : DeleteOrganization(o)
                    \/ \E p \in Persons : ErasePerson(p)
  PROVE  LedgerInv'
<1>t. people \in [Persons -> {"new", "here", "erased"}] /\ orgs \in [Orgs -> OrgRows]
  BY DEF LedgerInv, LedgerTypeOK
<1>1. ASSUME NEW o \in Orgs, DeleteOrganization(o) PROVE LedgerInv'
  <2>1. [NoOrg EXCEPT !.st = "gone"] \in OrgRows
    BY LedgerConstantsOK DEF NoOrg, OrgRows
  <2>2. /\ Cascade(GoneWith({o}, {})) /\ {o} \in SUBSET Orgs /\ {} \in SUBSET Persons
        /\ people' = people /\ orgs' \in [Orgs -> OrgRows] /\ \A q \in Orgs \ {o} : orgs'[q] = orgs[q]
        /\ accessLog' = {l \in accessLog : l.person \notin {}}
        /\ UNCHANGED <<today, revoking, asks>>
    BY <1>1, <1>t, <2>1 DEF DeleteOrganization
  <2> QED
    BY <1>t, <2>2, CascadeKeepsInv
<1>2. ASSUME NEW p \in Persons, ErasePerson(p) PROVE LedgerInv'
  <2>2. /\ Cascade(GoneWith({}, {p})) /\ {p} \in SUBSET Persons /\ {} \in SUBSET Orgs
        /\ people' \in [Persons -> {"new", "here", "erased"}]
        /\ \A q \in Persons : people'[q] = IF q \in {p} THEN "erased" ELSE people[q]
        /\ orgs' = orgs
        /\ accessLog' = {l \in accessLog : l.person \notin {p}}
        /\ UNCHANGED <<today, revoking, asks>>
    BY <1>2, <1>t DEF ErasePerson
  <2> QED
    BY <1>t, <2>2, CascadeKeepsInv
<1> QED
  BY <1>1, <1>2

\* Organizations are registered and changed, people appear, time passes.
LEMMA PlainMovesKeepInv ==
  ASSUME LedgerInv,
         \/ \E o \in Orgs : \/ CreateOrganization(o) \/ IssueApiKey(o)
                            \/ \E w \in Weights : SetOrgReliability(o, w)
         \/ \E p \in Persons : Appear(p)
         \/ LedgerTick
  PROVE  LedgerInv'
<1>t. LedgerTypeOK /\ today \in 0..Horizon /\ today \in Nat /\ Horizon \in Nat
  BY LedgerConstantsOK DEF LedgerInv, LedgerTypeOK
<1>1. UNCHANGED <<grants, evidence, accessLog, revoking, asks>>
  BY DEF CreateOrganization, IssueApiKey, SetOrgReliability, Appear, LedgerTick
<1>2. /\ orgs' \in [Orgs -> OrgRows] /\ \A o \in Orgs : Member(o) => Member(o)'
  <2>1. ASSUME NEW o \in Orgs, CreateOrganization(o) \/ IssueApiKey(o) \/ \E w \in Weights : SetOrgReliability(o, w)
        PROVE  /\ orgs' \in [Orgs -> OrgRows] /\ \A q \in Orgs : Member(q) => Member(q)'
    BY <1>t, <2>1 DEF CreateOrganization, IssueApiKey, SetOrgReliability, LedgerTypeOK, OrgRows, Member
  <2>2. CASE orgs' = orgs
    BY <1>t, <2>2 DEF LedgerTypeOK, Member
  <2> QED
    BY <2>1, <2>2 DEF Appear, LedgerTick
<1>3. /\ people' \in [Persons -> {"new", "here", "erased"}]
      /\ \A p \in Persons : people'[p] = people[p] \/ (people[p] = "new" /\ people'[p] = "here")
  <2>1. ASSUME NEW p \in Persons, Appear(p)
        PROVE  /\ people' \in [Persons -> {"new", "here", "erased"}]
               /\ \A q \in Persons : people'[q] = people[q] \/ (people[q] = "new" /\ people'[q] = "here")
    BY <1>t, <2>1 DEF Appear, LedgerTypeOK
  <2>2. CASE people' = people
    BY <1>t, <2>2 DEF LedgerTypeOK
  <2> QED
    BY <2>1, <2>2 DEF CreateOrganization, IssueApiKey, SetOrgReliability, LedgerTick
<1>4. today' \in 0..Horizon /\ today <= today'
  <2>1. today' = today \/ LedgerTick
    BY DEF CreateOrganization, IssueApiKey, SetOrgReliability, Appear
  <2> QED
    BY <1>t, <2>1 DEF LedgerTick
<1>5. LedgerTypeOK'
  BY <1>1, <1>2, <1>3, <1>4, <1>t DEF LedgerTypeOK
<1>6. \A p : Here(p) => Here(p)'
  BY <1>3 DEF Here
<1>7. Evolves
  <2>1. \A p \in Persons : /\ people[p] \in {"here", "erased"} => people'[p] \in {"here", "erased"}
                           /\ people[p] = "erased" => people'[p] = "erased"
    BY <1>3
  <2>2. \A g \in Grants, m \in Nat : RevokedBy(g, m) => RevokedBy(g, m)'
    BY <1>1 DEF RevokedBy, Held
  <2> QED
    BY <1>1, <1>4, <2>1, <2>2 DEF Evolves, Held
<1>8. GrantSound'
  <2> SUFFICES ASSUME NEW g \in Grants
               PROVE  /\ \A t \in revoking[g] : t <= today'
                      /\ grants[g].st = "free" => revoking[g] = {}
                      /\ grants[g].st = "held" =>
                           /\ Here(grants[g].person)' /\ (grants[g].org = Nobody \/ Member(grants[g].org)')
                           /\ grants[g].from <= today'
                           /\ grants[g].revoked = Never \/ grants[g].revoked <= today'
    BY <1>1 DEF GrantSound, Held
  <2>1. /\ \A t \in revoking[g] : t <= today
        /\ grants[g].st = "free" => revoking[g] = {}
        /\ grants[g].st = "held" =>
              /\ Here(grants[g].person) /\ (grants[g].org = Nobody \/ Member(grants[g].org))
              /\ grants[g].from <= today
              /\ grants[g].revoked = Never \/ grants[g].revoked <= today
    BY DEF LedgerInv, World, GrantSound, Held
  <2>2. grants[g].from \in Nat /\ grants[g].revoked \in Nat /\ \A t \in revoking[g] : t \in Nat
    BY <1>t DEF LedgerTypeOK, GrantRows
  <2>3. today' \in Nat
    BY <1>4, <1>t
  <2>4. PICK row \in GrantRows : row = grants[g] /\ row = grants'[g]
    BY <1>1, <1>t DEF LedgerTypeOK
  <2>5. /\ Here(row.person) => Here(row.person)'
        /\ Member(row.org) => Member(row.org)'
    BY <1>2, <1>6 DEF Member
  <2>6. (Here(row.person)' <=> Here(grants[g].person)') /\ (Member(row.org)' <=> Member(grants[g].org)')
    BY <2>4 DEF Here, Member
  <2>7. \A t \in revoking[g] : t <= today'
    BY <1>4, <1>t, <2>1, <2>2, <2>3
  <2>8. grants[g].st = "held" => /\ grants[g].from <= today'
                                 /\ grants[g].revoked = Never \/ grants[g].revoked <= today'
    BY <1>4, <1>t, <2>1, <2>2, <2>3
  <2> QED
    BY <2>1, <2>4, <2>5, <2>6, <2>7, <2>8
<1>9. LogSound'
  BY <1>1, <1>6 DEF LedgerInv, World, LogSound
<1>10. EvidenceSound'
  <2> SUFFICES ASSUME NEW e \in Evidence PROVE RowHolds(evidence[e])'
    BY DEF EvidenceSound
  <2>1. RowHolds(evidence[e])
    BY DEF LedgerInv, World, EvidenceSound
  <2>2. Member(evidence[e].org) => Member(evidence[e].org)'
    BY <1>1, <1>2 DEF Member
  <2> QED
    BY <1>1, <1>6, <2>1, <2>2 DEF RowHolds, Held
<1> QED
  BY <1>5, <1>7, <1>8, <1>9, <1>10, <1>1, WorldMoves DEF LedgerInv, World

LEMMA GrantKeepsInv ==
  ASSUME LedgerInv, NEW g \in Grants, NEW p \in Persons, NEW o \in Orgs \cup {Nobody}, NEW purpose \in {Read, Write},
         NEW until \in Nat, GrantConsent(g, p, o, purpose, until)
  PROVE  LedgerInv'
<1> DEFINE row == [st |-> "held", person |-> p, org |-> o, purpose |-> purpose,
                   from |-> today, until |-> until, revoked |-> Never]
<1>t. /\ LedgerTypeOK /\ today \in 0..Horizon /\ today \in Nat /\ today <= today /\ Never \in Nat
      /\ grants \in [Grants -> GrantRows]
  BY LedgerConstantsOK DEF LedgerInv, LedgerTypeOK, Never
<1>1. /\ row \in GrantRows /\ row.st = "held" /\ row.person = p /\ row.org = o /\ row.from = today
      /\ row.revoked = Never
  BY <1>t DEF GrantRows, LedgerPeopleSet, LedgerOrgSet
<1>2. /\ grants[g].st = "free" /\ Here(p) /\ (o = Nobody \/ Member(o))
      /\ grants' = [grants EXCEPT ![g] = row]
      /\ accessLog' = accessLog \cup {LogEntry(p, p, "grant", g)}
      /\ UNCHANGED <<today, people, orgs, evidence, asks, revoking>>
  BY DEF GrantConsent
<1> HIDE DEF row
<1>3. grants'[g] = row /\ \A h \in Grants : h # g => grants'[h] = grants[h]
  BY <1>2, <1>t
<1>4. \A h \in Grants : grants[h].st # "free" => grants'[h] = grants[h]
  BY <1>2, <1>3
<1>5. LedgerTypeOK'
  BY <1>1, <1>2, <1>t DEF LedgerTypeOK, LogEntry
<1>6. Evolves
  <2>1. \A h \in Grants, m \in Nat : RevokedBy(h, m) => RevokedBy(h, m)'
    BY <1>2, <1>4 DEF RevokedBy, Held
  <2>2. \A h \in Grants : Held(h) => Held(h)' /\ grants'[h] = grants[h]
    BY <1>4 DEF Held
  <2> QED
    BY <1>2, <1>4, <1>t, <2>1, <2>2 DEF Evolves
<1>7. GrantSound'
  BY <1>1, <1>2, <1>3, <1>t DEF LedgerInv, World, GrantSound, Held, Here, Member
<1>8. LogSound'
  BY <1>2 DEF LedgerInv, World, LogSound, Here, LogEntry
<1>9. EvidenceSound'
  <2> SUFFICES ASSUME NEW e \in Evidence PROVE RowHolds(evidence[e])'
    BY DEF EvidenceSound
  <2>1. RowHolds(evidence[e])
    BY DEF LedgerInv, World, EvidenceSound
  <2> QED
    BY <1>2, <1>4, <2>1 DEF RowHolds, Held, Here, Member
<1> QED
  BY <1>2, <1>5, <1>6, <1>7, <1>8, <1>9, WorldMoves DEF World

\* A revocation reads at one time and writes that time at another.
LEMMA RevokeKeepsInv ==
  ASSUME LedgerInv, NEW g \in Grants, RevokeRead(g) \/ RevokeConsent(g)
  PROVE  LedgerInv'
<1>t. /\ LedgerTypeOK /\ today \in 0..Horizon /\ today \in Nat /\ Horizon \in Nat /\ today <= today
      /\ Never = Horizon + 1 /\ grants \in [Grants -> GrantRows] /\ revoking \in [Grants -> SUBSET (0..Horizon)]
  BY LedgerConstantsOK DEF LedgerInv, LedgerTypeOK, Never
<1>s. GrantSound /\ LogSound /\ EvidenceSound
  BY DEF LedgerInv, World
<1>1. CASE RevokeRead(g)
  <2>1. /\ Held(g) /\ grants[g].revoked = Never
        /\ revoking' = [revoking EXCEPT ![g] = @ \cup {today}]
        /\ UNCHANGED <<today, people, orgs, grants, evidence, accessLog, asks>>
    BY <1>1 DEF RevokeRead, RevokeCall, PortalRevokeCall
  <2>2. LedgerTypeOK'
    BY <1>t, <2>1 DEF LedgerTypeOK
  <2>3. ASSUME NEW h \in Grants, NEW m \in Nat, m <= today, RevokedBy(h, m) PROVE RevokedBy(h, m)'
    <3>1. h # g
      BY <1>t, <2>1, <2>3 DEF RevokedBy, Held
    <3> QED
      BY <1>t, <2>1, <2>3, <3>1 DEF RevokedBy, Held
  <2>4. Evolves
    BY <1>t, <2>1, <2>3 DEF Evolves, Held
  <2>5. World'
    BY <1>s, <1>t, <2>1 DEF World, GrantSound, LogSound, EvidenceSound, RowHolds, Held, Here, Member
  <2> QED
    BY <2>1, <2>2, <2>4, <2>5, WorldMoves
<1>2. CASE RevokeConsent(g)
  <2>1. PICK read \in revoking[g] :
          /\ revoking' = [revoking EXCEPT ![g] = @ \ {read}]
          /\ grants' = IF Held(g) THEN [grants EXCEPT ![g].revoked = read] ELSE grants
          /\ accessLog' = IF Held(g) THEN accessLog \cup {LogEntry(grants[g].person, grants[g].person, "revoke", g)}
                          ELSE accessLog
          /\ UNCHANGED <<today, people, orgs, evidence, asks>>
    BY <1>2 DEF RevokeConsent
  <2>2. read \in 0..Horizon /\ read \in Nat /\ read <= today
    BY <1>s, <1>t DEF GrantSound
  <2>3. \A h \in Grants : /\ grants'[h].st = grants[h].st /\ grants'[h].person = grants[h].person
                          /\ grants'[h].org = grants[h].org /\ grants'[h].purpose = grants[h].purpose
                          /\ grants'[h].from = grants[h].from
                          /\ grants'[h].revoked = grants[h].revoked
                             \/ (h = g /\ Held(g) /\ grants'[h].revoked = read)
                          /\ revoking'[h] \subseteq revoking[h]
    BY <1>t, <2>1 DEF GrantRows
  <2>4. LedgerTypeOK'
    <3>1. grants' \in [Grants -> GrantRows]
      BY <1>t, <2>1, <2>2 DEF GrantRows
    <3>2. Held(g) => grants[g].person \in Persons
      BY <1>s DEF GrantSound, Here
    <3>3. \A l \in accessLog' : l.person \in Persons
      BY <1>t, <2>1, <3>2 DEF LedgerTypeOK, LogEntry
    <3>4. revoking' \in [Grants -> SUBSET (0..Horizon)]
      BY <1>t, <2>1
    <3> QED
      BY <1>t, <2>1, <3>1, <3>3, <3>4 DEF LedgerTypeOK
  <2>5. Evolves
    <3>1. ASSUME NEW h \in Grants, NEW m \in Nat, RevokedBy(h, m) PROVE RevokedBy(h, m)'
      BY <2>3, <3>1 DEF RevokedBy, Held
    <3>2. accessLog \subseteq accessLog'
      BY <2>1
    <3> QED
      BY <1>t, <2>1, <2>3, <3>1, <3>2 DEF Evolves, Held
  <2>6. GrantSound'
    BY <1>s, <2>1, <2>2, <2>3 DEF GrantSound, Held, Here, Member
  <2>7. LogSound'
    BY <1>s, <2>1 DEF LogSound, GrantSound, Here, LogEntry
  <2>8. EvidenceSound'
    <3> SUFFICES ASSUME NEW e \in Evidence PROVE RowHolds(evidence[e])'
      BY DEF EvidenceSound
    <3>1. RowHolds(evidence[e])
      BY <1>s DEF EvidenceSound
    <3> QED
      BY <2>1, <2>3, <3>1 DEF RowHolds, Held, Here, Member
  <2> QED
    BY <2>1, <2>4, <2>5, <2>6, <2>7, <2>8, WorldMoves DEF World
<1> QED
  BY <1>1, <1>2

-----------------------------------------------------------------------------
LEMMA LedgerStepSound == ASSUME LedgerInv, [LedgerNext]_ledgerVars PROVE LedgerInv'
<1>1. CASE UNCHANGED ledgerVars
  <2>1. LedgerTypeOK'
    BY <1>1 DEF ledgerVars, LedgerInv, LedgerTypeOK
  <2>2. World'
    BY <1>1 DEF ledgerVars, LedgerInv, World, GrantSound, Held, Here, Member, LogSound, EvidenceSound, RowHolds
  <2>3. AsksSound'
    BY <1>1 DEF ledgerVars, LedgerInv, AsksSound, AskSound, AskKnown, AskDead, RevokedBy, Held, AskUnder, Covers,
                AskAnswer, Witnessed, Here
  <2> QED
    BY <2>1, <2>2, <2>3 DEF LedgerInv
<1>2. CASE LedgerTick
  BY <1>2, PlainMovesKeepInv
<1>3. CASE LedgerAdmin
  BY <1>3, PlainMovesKeepInv, DeletionsKeepInv DEF LedgerAdmin
<1>4. CASE LedgerPeople
  <2>1. ASSUME NEW p \in Persons, NEW g \in Grants, NEW o \in Orgs \cup {Nobody}, NEW purpose \in {Read, Write},
               NEW until \in {today + ConsentTTL, today + 1}, GrantConsent(g, p, o, purpose, until)
        PROVE  LedgerInv'
    <3>1. until \in Nat
      BY LedgerConstantsOK DEF LedgerInv, LedgerTypeOK
    <3> QED
      BY <2>1, <3>1, GrantKeepsInv
  <2> QED
    BY <1>4, <2>1, PlainMovesKeepInv, DeletionsKeepInv, RevokeKeepsInv DEF LedgerPeople
<1>5. ASSUME NEW a \in Asks, AskStep(a) PROVE LedgerInv'
  <2>1. CASE SubmitInterviewRecord(a) \/ SubmitCodingRound(a) \/ SubmitObservedOffer(a)
    BY <2>1, SubmitKeepsInv DEF SubmitInterviewRecord, SubmitCodingRound, SubmitObservedOffer, EvidenceOps
  <2>2. CASE QueryRecordsForOrg(a) \/ QueryCodingRoundsForOrg(a) \/ ReputationForOrg(a)
    BY <2>2, QueryKeepsInv DEF QueryRecordsForOrg, QueryCodingRoundsForOrg, ReputationForOrg, QueryOps
  <2>3. CASE MaterializationConsent(a)
    BY <2>3, PlatformAuditKeepsInv DEF MaterializationConsent
  <2>4. CASE AuditTrainingLabel(a)
    BY <2>4, PlatformAuditKeepsInv DEF AuditTrainingLabel
  <2> QED
    BY <1>5, <2>1, <2>2, <2>3, <2>4, ChecksKeepInv, AppendKeepsInv, OffersKeepInv, ServeKeepsInv, ViewKeepsInv
    DEF AskStep
<1> QED
  BY <1>1, <1>2, <1>3, <1>4, <1>5, AskStartKeepsInv DEF LedgerNext

\* What grants, evidence, log entries and calls in flight owe each other holds at every
\* commit of the ledger's store and service, for any number of each (`ledger/store.py`).
THEOREM LedgerInvariance == LedgerSpec => []LedgerInv
BY LedgerInitSound, LedgerStepSound, PTL DEF LedgerSpec

\* No call that began after a revocation was answered uses the grant revoked, for any
\* number of people, organizations, grants and calls: `is_grant_active` is asked of
\* rows read earlier, and `revoke_consent` may be overtaken by another of its kind.
THEOREM RevocationsAreHonoured == LedgerSpec => []RevocationHonoured
<1>1. LedgerInv => RevocationHonoured
  BY DEF LedgerInv, AsksSound, AskSound, AskAnswer, RevocationHonoured
<1> QED
  BY <1>1, LedgerInvariance, PTL

\* Every grant, log entry and evidence row belongs to a person and an organization
\* that are still there, and evidence stands under a grant that covers it: what the
\* foreign keys of the ledger's tables keep through every erasure (`ledger/store.py`).
THEOREM TheLedgerHolds == LedgerSpec => []LedgerHolds
<1>1. LedgerInv => LedgerHolds
  <2> SUFFICES ASSUME LedgerInv PROVE LedgerHolds
    OBVIOUS
  <2>1. ASSUME NEW g \in Grants, Held(g)
        PROVE  /\ Here(grants[g].person) /\ (grants[g].org = Nobody \/ Member(grants[g].org))
               /\ (ConsentState(grants[g], today) = "active") = InWindow(grants[g], today)
    <3>1. /\ today \in Nat /\ Horizon \in Nat /\ today <= Horizon /\ grants[g] \in GrantRows
      BY LedgerConstantsOK DEF LedgerInv, LedgerTypeOK
    <3>2. /\ Here(grants[g].person) /\ (grants[g].org = Nobody \/ Member(grants[g].org))
          /\ grants[g].from <= today
          /\ grants[g].revoked = Never \/ grants[g].revoked <= today
      BY <2>1 DEF LedgerInv, World, GrantSound
    <3>3. grants[g].until \in Nat /\ grants[g].revoked \in Nat
      BY <3>1 DEF GrantRows
    <3>4. (ConsentState(grants[g], today) = "active") <=> InWindow(grants[g], today)
      BY <3>1, <3>2, <3>3 DEF ConsentState, InWindow, Never
    <3>5. (ConsentState(grants[g], today) = "active") \in BOOLEAN /\ InWindow(grants[g], today) \in BOOLEAN
      BY <3>1, <3>3 DEF InWindow
    <3> QED
      BY <3>2, <3>4, <3>5
  <2>2. \A l \in accessLog : Here(l.person)
    BY DEF LedgerInv, World, LogSound
  <2>3. ASSUME NEW e \in Evidence, evidence[e].st = "held"
        PROVE  /\ Here(evidence[e].person) /\ Member(evidence[e].org)
               /\ IF evidence[e].kind = "event"
                  THEN evidence[evidence[e].parent].st = "held"
                  ELSE /\ Held(evidence[e].grant)
                       /\ grants[evidence[e].grant].person = evidence[e].person
                       /\ grants[evidence[e].grant].org \in {Nobody, evidence[e].org}
                       /\ grants[evidence[e].grant].purpose = Write
    BY <2>3 DEF LedgerInv, World, EvidenceSound, RowHolds
  <2> QED
    BY <2>1, <2>2, <2>3 DEF LedgerHolds
<1> QED
  BY <1>1, LedgerInvariance, PTL

\* Whoever was answered about a person, with data or with a refusal, stands in that
\* person's log, and no view shows what was read after the erasure (`_audit`,
\* `require_candidate`).
THEOREM EveryAnswerIsWitnessed == LedgerSpec => []AnswersAreWitnessed
<1>1. LedgerInv => AnswersAreWitnessed
  BY DEF LedgerInv, AsksSound, AskSound, AskAnswer, Witnessed, AnswersAreWitnessed, AuditForCandidate
<1> QED
  BY <1>1, LedgerInvariance, PTL

-----------------------------------------------------------------------------
(* Feature vectors.                                                            *)

PermitRows == [granted: Cuts \cup {Unknown}, ends: Ends, covers: BOOLEAN, revoked: Cuts \cup {Unknown}]
OutcomeRows == [who: Talents \cup {Unknown}, on: Cuts, result: Results]
VectorRows == [st: {"none", "computed", "stored"}, allowed: BOOLEAN, plain: {0, 1},
               gated: Nat \cup {Unknown}, seen: SUBSET Outcomes]
BuildRecs == [st: {"free", "context", "skipped", "computed", "decided", "saving", "saved", "failed"},
              who: Talents \cup {Unknown}, cut: Cuts, vector: VectorRows, update: BOOLEAN]
LabelRows == [e: Outcomes, on: Cuts, result: Results]
UseRecs == [st: {"free", "kept", "mask", "join", "fetch", "fetched", "example", "recheck", "exists", "used", "omitted"},
            kind: {"search", "view", "training"}, scoped: BOOLEAN, who: Talents \cup {Unknown}, cut: Cuts,
            vector: VectorRows, allowed: BOOLEAN, label: {Unknown} \cup SUBSET LabelRows, dead: BOOLEAN, gone: BOOLEAN]

FeatureTypeOK ==
  /\ moment \in Cuts /\ talents \subseteq Talents
  /\ permits \in [Talents -> PermitRows]
  /\ outcomes \in [Outcomes -> OutcomeRows]
  /\ vectors \in [Talents -> [Cuts -> VectorRows]]
  /\ builds \in [Builds -> BuildRecs]
  /\ uses \in [Uses -> UseRecs]

\* Whoever is gone has no records, and no revocation lies ahead.
PeopleSound ==
  /\ \A e \in Outcomes : outcomes[e].who \in talents \cup {Unknown}
  /\ \A p \in Talents : Revoked(p) => permits[p].revoked <= moment
  /\ \A p \in Talents \ talents : Revoked(p)

\* What a vector counted were the person's records at its cut, and still are unless
\* the person has gone; what it holds of the ledger was granted by then.
SeenSound(v, p, cut) == \A e \in v.seen : p \in talents => outcomes[e].who = p /\ outcomes[e].on <= cut

GatedSound(v, p, cut) ==
  v.gated # Unknown => v.allowed /\ (p \in talents => /\ permits[p].granted # Unknown
                                                 /\ permits[p].granted <= cut /\ cut < permits[p].ends)

StoreSound ==
  \A p \in Talents, c \in Cuts : vectors[p][c].st = "stored" =>
    p \in talents /\ SeenSound(vectors[p][c], p, c) /\ GatedSound(vectors[p][c], p, c)

BuildSound(b) ==
  /\ b.st \in {"context", "computed", "decided", "saving"} => b.who \in Talents
  /\ b.st \in {"computed", "decided", "saving"} => SeenSound(b.vector, b.who, b.cut)
  /\ b.st \in {"decided", "saving"} => GatedSound(b.vector, b.who, b.cut)

UseSound(x) ==
  /\ x.st # "free" => /\ x.who \in Talents
                      /\ x.dead => Spent(x.who, x.scoped)
                      /\ x.gone => x.who \notin talents
  /\ x.st = "kept" => ~x.dead
  /\ x.st \in {"kept", "join", "fetch"} => SeenSound(x.vector, x.who, x.cut)
  /\ x.st = "fetched" => x.label \subseteq LabelRows /\ \A r \in x.label : r.e \in x.vector.seen => r.on <= x.cut
  /\ x.st \in {"kept", "mask"} => x.label = Unknown
  /\ x.st \in {"example", "recheck", "exists", "used"} =>
       (x.label # Unknown => \A r \in x.label : r.e \notin x.vector.seen)
  /\ x.st \in {"exists", "used"} /\ x.dead => x.vector.gated = Unknown /\ x.label = Unknown
  /\ x.st = "used" /\ x.gone => x.kind = "search"

FeatureInv ==
  /\ FeatureTypeOK /\ PeopleSound /\ StoreSound
  /\ \A m \in Builds : BuildSound(builds[m])
  /\ \A u \in Uses : UseSound(uses[u])

-----------------------------------------------------------------------------
LEMMA FeatureInitSound == ASSUME FeatureInit PROVE FeatureInv
<1> USE FeatureConstantsOK DEF FeatureInit, NoPermit, NoOutcome, NoVector, NoBuild, NoUse
<1>0. 0 \in Cuts
  BY DEF Cuts
<1>1. permits \in [Talents -> PermitRows] /\ outcomes \in [Outcomes -> OutcomeRows]
  BY <1>0 DEF PermitRows, Ends, OutcomeRows, Results
<1>2. NoVector \in VectorRows /\ NoVector.st = "none"
  BY DEF VectorRows
<1>3. vectors \in [Talents -> [Cuts -> VectorRows]]
  BY <1>2
<1>4. builds \in [Builds -> BuildRecs]
  BY <1>0, <1>2 DEF BuildRecs
<1>5. uses \in [Uses -> UseRecs]
  BY <1>0, <1>2 DEF UseRecs
<1>6. PeopleSound /\ StoreSound
  BY <1>2 DEF PeopleSound, Revoked, StoreSound
<1>7. (\A m \in Builds : BuildSound(builds[m])) /\ (\A u \in Uses : UseSound(uses[u]))
  BY DEF BuildSound, UseSound
<1> QED
  BY <1>0, <1>1, <1>3, <1>4, <1>5, <1>6, <1>7 DEF FeatureInv, FeatureTypeOK

\* People only go, a grant that is spent stays so, and the grants and records of those who stay
\* are only added to.
PeopleEvolve ==
  /\ talents' \subseteq talents
  /\ \A p \in Talents, scoped \in BOOLEAN : Spent(p, scoped) => Spent(p, scoped)'
  /\ \A p \in talents' : permits[p].granted # Unknown =>
       permits'[p].granted = permits[p].granted /\ permits'[p].ends = permits[p].ends
  /\ \A e \in Outcomes : outcomes[e].who \in talents' => outcomes'[e] = outcomes[e]

LEMMA VectorKept ==
  ASSUME FeatureTypeOK, PeopleEvolve, NEW v \in VectorRows, NEW p \in Talents, NEW cut \in Cuts
  PROVE  /\ SeenSound(v, p, cut) => SeenSound(v, p, cut)'
         /\ GatedSound(v, p, cut) => GatedSound(v, p, cut)'
<1>1. v.seen \subseteq Outcomes
  BY DEF VectorRows
<1>2. ASSUME SeenSound(v, p, cut) PROVE SeenSound(v, p, cut)'
  BY <1>1, <1>2 DEF SeenSound, PeopleEvolve
<1>3. ASSUME GatedSound(v, p, cut) PROVE GatedSound(v, p, cut)'
  BY <1>3 DEF GatedSound, PeopleEvolve
<1> QED
  BY <1>2, <1>3

LEMMA BuildKept ==
  ASSUME FeatureTypeOK, PeopleEvolve, NEW b \in BuildRecs, BuildSound(b)
  PROVE  BuildSound(b)'
BY VectorKept DEF BuildRecs, BuildSound

LEMMA UseKept ==
  ASSUME FeatureTypeOK, PeopleEvolve, NEW x \in UseRecs, UseSound(x)
  PROVE  UseSound(x)'
<1>1. x.vector \in VectorRows /\ x.cut \in Cuts
  BY DEF UseRecs
<1>2. x.st # "free" => /\ x.who \in Talents
                       /\ x.dead => Spent(x.who, x.scoped)'
                       /\ x.gone => x.who \notin talents'
  BY DEF UseSound, PeopleEvolve, UseRecs
<1>3. x.st \in {"kept", "join", "fetch"} => SeenSound(x.vector, x.who, x.cut)'
  BY <1>1, <1>2, VectorKept DEF UseSound
<1> QED
  BY <1>2, <1>3 DEF UseSound

\* A step of one build, or of one use.
LEMMA BuildMoves ==
  ASSUME FeatureInv, NEW m \in Builds, NEW b \in BuildRecs, BuildSound(b), builds' = [builds EXCEPT ![m] = b],
         UNCHANGED <<moment, talents, permits, outcomes, vectors, uses>>
  PROVE  FeatureInv'
<1>1. FeatureTypeOK'
  BY DEF FeatureInv, FeatureTypeOK
<1>2. PeopleSound' /\ StoreSound'
  BY DEF FeatureInv, PeopleSound, StoreSound, SeenSound, GatedSound, Revoked
<1>3. PeopleEvolve
  BY DEF PeopleEvolve, Spent, Revoked
<1>4. ASSUME NEW n \in Builds PROVE BuildSound(builds[n])'
  <2>1. PICK d \in BuildRecs : d = builds'[n] /\ BuildSound(d)
    BY DEF FeatureInv, FeatureTypeOK
  <2>2. BuildSound(d)'
    BY <1>3, <2>1, BuildKept DEF FeatureInv
  <2> QED
    BY <2>1, <2>2
<1>5. ASSUME NEW u \in Uses PROVE UseSound(uses[u])'
  <2>1. PICK x \in UseRecs : x = uses[u] /\ x = uses'[u] /\ UseSound(x)
    BY DEF FeatureInv, FeatureTypeOK
  <2>2. UseSound(x)'
    BY <1>3, <2>1, UseKept DEF FeatureInv
  <2> QED
    BY <2>1, <2>2
<1> QED
  BY <1>1, <1>2, <1>4, <1>5 DEF FeatureInv

LEMMA UseMoves ==
  ASSUME FeatureInv, NEW u \in Uses, NEW x \in UseRecs, UseSound(x), uses' = [uses EXCEPT ![u] = x],
         UNCHANGED <<moment, talents, permits, outcomes, vectors, builds>>
  PROVE  FeatureInv'
<1>1. FeatureTypeOK'
  BY DEF FeatureInv, FeatureTypeOK
<1>2. PeopleSound' /\ StoreSound'
  BY DEF FeatureInv, PeopleSound, StoreSound, SeenSound, GatedSound, Revoked
<1>3. PeopleEvolve
  BY DEF PeopleEvolve, Spent, Revoked
<1>4. ASSUME NEW n \in Builds PROVE BuildSound(builds[n])'
  <2>1. PICK d \in BuildRecs : d = builds[n] /\ d = builds'[n] /\ BuildSound(d)
    BY DEF FeatureInv, FeatureTypeOK
  <2>2. BuildSound(d)'
    BY <1>3, <2>1, BuildKept DEF FeatureInv
  <2> QED
    BY <2>1, <2>2
<1>5. ASSUME NEW w \in Uses PROVE UseSound(uses[w])'
  <2>1. PICK y \in UseRecs : y = uses'[w] /\ UseSound(y)
    BY DEF FeatureInv, FeatureTypeOK
  <2>2. UseSound(y)'
    BY <1>3, <2>1, UseKept DEF FeatureInv
  <2> QED
    BY <2>1, <2>2
<1> QED
  BY <1>1, <1>2, <1>4, <1>5 DEF FeatureInv

\* A step of the world, which no build and no use takes part in.
LEMMA PeopleMove ==
  ASSUME FeatureInv, FeatureTypeOK', PeopleEvolve, PeopleSound', StoreSound', UNCHANGED <<builds, uses>>
  PROVE  FeatureInv'
<1>1. ASSUME NEW n \in Builds PROVE BuildSound(builds[n])'
  <2>1. PICK d \in BuildRecs : d = builds[n] /\ d = builds'[n] /\ BuildSound(d)
    BY DEF FeatureInv, FeatureTypeOK
  <2>2. BuildSound(d)'
    BY <2>1, BuildKept DEF FeatureInv
  <2> QED
    BY <2>1, <2>2
<1>2. ASSUME NEW w \in Uses PROVE UseSound(uses[w])'
  <2>1. PICK y \in UseRecs : y = uses[w] /\ y = uses'[w] /\ UseSound(y)
    BY DEF FeatureInv, FeatureTypeOK
  <2>2. UseSound(y)'
    BY <2>1, UseKept DEF FeatureInv
  <2> QED
    BY <2>1, <2>2
<1> QED
  BY <1>1, <1>2 DEF FeatureInv

-----------------------------------------------------------------------------
(* The world.                                                                  *)

\* The stored vectors of a step that leaves them, and takes nobody away.
LEMMA StoreKept ==
  ASSUME FeatureTypeOK, PeopleEvolve, StoreSound, talents' = talents, vectors' = vectors
  PROVE  StoreSound'
<1> SUFFICES ASSUME NEW p \in Talents, NEW c \in Cuts, vectors'[p][c].st = "stored"
             PROVE  p \in talents' /\ SeenSound(vectors[p][c], p, c)' /\ GatedSound(vectors[p][c], p, c)'
  BY DEF StoreSound
<1>1. PICK v \in VectorRows : v = vectors[p][c] /\ v = vectors'[p][c]
  BY DEF FeatureTypeOK
<1>2. p \in talents /\ SeenSound(v, p, c) /\ GatedSound(v, p, c)
  BY <1>1 DEF StoreSound
<1>3. SeenSound(v, p, c)' /\ GatedSound(v, p, c)'
  BY <1>2, VectorKept
<1> QED
  BY <1>1, <1>2, <1>3

LEMMA WorldKeepsFeatureInv ==
  ASSUME FeatureInv,
         \/ FeatureTick
         \/ \E p \in Talents : \/ \E ends \in Ends, covers \in BOOLEAN : Permit(p, ends, covers)
                               \/ Withdraw(p)
                               \/ \E e \in Outcomes, on \in Cuts, result \in Results : FileOutcome(e, p, on, result)
  PROVE  FeatureInv'
<1>t. /\ FeatureTypeOK /\ PeopleSound /\ StoreSound /\ moment \in Nat /\ moment <= LastCut /\ LastCut \in Nat
      /\ moment <= moment
  BY FeatureConstantsOK DEF FeatureInv, FeatureTypeOK, Cuts
<1>u. UNCHANGED <<talents, vectors, builds, uses>>
  BY DEF FeatureTick, Permit, Withdraw, FileOutcome
<1>1. CASE FeatureTick
  <2>1. moment' \in Cuts /\ moment <= moment' /\ UNCHANGED <<permits, outcomes>>
    BY <1>1, <1>t DEF FeatureTick, Cuts
  <2>2. FeatureTypeOK'
    BY <1>t, <1>u, <2>1 DEF FeatureTypeOK
  <2>3. PeopleEvolve
    <3>1. \A q \in Talents : permits[q].ends \in Nat
      BY <1>t DEF FeatureTypeOK, PermitRows, Ends
    <3>2. moment' \in Nat
      BY <2>1, <1>t DEF Cuts
    <3>3. \A q \in Talents, scoped \in BOOLEAN : Spent(q, scoped) => Spent(q, scoped)'
      BY <1>t, <2>1, <3>1, <3>2 DEF Spent, Revoked
    <3> QED
      BY <1>u, <2>1, <3>3 DEF PeopleEvolve
  <2>4. PeopleSound'
    <3>1. \A p \in Talents : Revoked(p) => permits[p].revoked \in Nat
      BY <1>t DEF FeatureTypeOK, PermitRows, Revoked, Cuts
    <3>2. moment' \in Nat
      BY <2>1, <1>t DEF Cuts
    <3>3. \A p \in Talents : Revoked(p)' => permits'[p].revoked <= moment'
      BY <1>t, <2>1, <3>1, <3>2 DEF PeopleSound, Revoked
    <3> QED
      BY <1>t, <1>u, <2>1, <3>3 DEF PeopleSound, Revoked
  <2> QED
    BY <1>t, <1>u, <2>2, <2>3, <2>4, StoreKept, PeopleMove
<1>2. ASSUME NEW p \in Talents, NEW ends \in Ends, NEW covers \in BOOLEAN, Permit(p, ends, covers)
      PROVE  FeatureInv'
  <2>1. /\ p \in talents /\ permits[p] = NoPermit
        /\ permits' = [permits EXCEPT ![p] = [granted |-> moment, ends |-> ends, covers |-> covers,
                                               revoked |-> Unknown]]
        /\ UNCHANGED <<moment, outcomes>>
    BY <1>2 DEF Permit
  <2>2. FeatureTypeOK'
    BY <1>t, <1>u, <2>1 DEF FeatureTypeOK, PermitRows
  <2>3. \A q \in Talents : /\ permits'[q].revoked = permits[q].revoked
                           /\ q # p => permits'[q] = permits[q]
    BY <1>t, <2>1 DEF FeatureTypeOK, NoPermit
  <2>4. PeopleEvolve
    BY <1>t, <1>u, <2>1, <2>3 DEF PeopleEvolve, Spent, Revoked, NoPermit, FeatureTypeOK
  <2>5. PeopleSound'
    BY <1>t, <1>u, <2>1, <2>3 DEF PeopleSound, Revoked
  <2> QED
    BY <1>t, <1>u, <2>2, <2>4, <2>5, StoreKept, PeopleMove
<1>3. ASSUME NEW p \in Talents, Withdraw(p) PROVE FeatureInv'
  <2>1. /\ permits[p].revoked = Unknown /\ permits' = [permits EXCEPT ![p].revoked = moment]
        /\ UNCHANGED <<moment, outcomes>>
    BY <1>3 DEF Withdraw, Revoked
  <2>2. FeatureTypeOK'
    BY <1>t, <1>u, <2>1 DEF FeatureTypeOK, PermitRows
  <2>3. \A q \in Talents : /\ permits'[q].granted = permits[q].granted /\ permits'[q].ends = permits[q].ends
                           /\ permits'[q].covers = permits[q].covers
                           /\ permits'[q].revoked = IF q = p THEN moment ELSE permits[q].revoked
    BY <1>t, <2>1 DEF FeatureTypeOK, PermitRows
  <2>4. moment # Unknown
    BY <1>t, FeatureConstantsOK
  <2>5. PeopleEvolve
    BY <1>t, <1>u, <2>1, <2>3, <2>4 DEF PeopleEvolve, Spent, Revoked, FeatureTypeOK
  <2>6. PeopleSound'
    BY <1>t, <1>u, <2>1, <2>3, <2>4 DEF PeopleSound, Revoked
  <2> QED
    BY <1>t, <1>u, <2>2, <2>5, <2>6, StoreKept, PeopleMove
<1>4. ASSUME NEW p \in Talents, NEW e \in Outcomes, NEW on \in Cuts, NEW result \in Results,
             FileOutcome(e, p, on, result)
      PROVE  FeatureInv'
  <2>1. /\ outcomes[e].who = Unknown /\ p \in talents
        /\ outcomes' = [outcomes EXCEPT ![e] = [who |-> p, on |-> on, result |-> result]]
        /\ UNCHANGED <<moment, permits>>
    BY <1>4 DEF FileOutcome
  <2>2. FeatureTypeOK'
    BY <1>t, <1>u, <2>1 DEF FeatureTypeOK, OutcomeRows
  <2>3. PeopleEvolve
    BY <1>t, <1>u, <2>1, FeatureConstantsOK DEF PeopleEvolve, Spent, Revoked, FeatureTypeOK
  <2>4. PeopleSound'
    BY <1>t, <1>u, <2>1 DEF PeopleSound, Revoked, FeatureTypeOK
  <2> QED
    BY <1>t, <1>u, <2>2, <2>3, <2>4, StoreKept, PeopleMove
<1> QED
  BY <1>1, <1>2, <1>3, <1>4

LEMMA ErasureKeepsFeatureInv ==
  ASSUME FeatureInv, NEW p \in Talents, EraseTalent(p)
  PROVE  FeatureInv'
<1>t. /\ FeatureTypeOK /\ PeopleSound /\ StoreSound /\ moment \in Nat /\ moment <= moment /\ moment # Unknown
  BY FeatureConstantsOK DEF FeatureInv, FeatureTypeOK, Cuts
<1>1. /\ p \in talents /\ talents' = talents \ {p}
      /\ permits' = [permits EXCEPT ![p] = [NoPermit EXCEPT !.revoked = moment]]
      /\ outcomes' = [e \in Outcomes |-> IF outcomes[e].who = p THEN NoOutcome ELSE outcomes[e]]
      /\ vectors' = [vectors EXCEPT ![p] = [c \in Cuts |-> NoVector]]
      /\ UNCHANGED <<moment, builds, uses>>
  BY DEF EraseTalent
<1>2. FeatureTypeOK'
  <2>0. 0 \in Ends /\ 0 \in Cuts /\ moment \in Cuts
    BY <1>t, FeatureConstantsOK DEF Ends, Cuts, FeatureTypeOK
  <2>1. /\ [NoPermit EXCEPT !.revoked = moment] \in PermitRows
        /\ NoOutcome \in OutcomeRows
        /\ NoVector \in VectorRows
    <3>1. [NoPermit EXCEPT !.revoked = moment] \in PermitRows
      BY <2>0 DEF NoPermit, PermitRows
    <3>2. NoOutcome \in OutcomeRows /\ NoVector \in VectorRows
      BY <2>0 DEF NoOutcome, OutcomeRows, NoVector, VectorRows, Results
    <3> QED
      BY <3>1, <3>2
  <2> QED
    BY <1>1, <1>t, <2>1 DEF FeatureTypeOK
<1>3. /\ \A q \in Talents : permits'[q].revoked = IF q = p THEN moment ELSE permits[q].revoked
      /\ \A q \in Talents \ {p} : permits'[q] = permits[q] /\ vectors'[q] = vectors[q]
      /\ \A c \in Cuts : vectors'[p][c].st = "none"
      /\ \A e \in Outcomes : \/ outcomes[e].who = p /\ outcomes'[e].who = Unknown
                             \/ outcomes[e].who # p /\ outcomes'[e] = outcomes[e]
  BY <1>1, <1>t DEF FeatureTypeOK, NoPermit, NoVector, NoOutcome
<1>4. PeopleEvolve
  BY <1>1, <1>3, <1>t DEF PeopleEvolve, Spent, Revoked, FeatureTypeOK
<1>5. PeopleSound'
  BY <1>1, <1>3, <1>t DEF PeopleSound, Revoked
<1>6. StoreSound'
  <2> SUFFICES ASSUME NEW q \in Talents, NEW c \in Cuts, vectors'[q][c].st = "stored"
               PROVE  q \in talents' /\ SeenSound(vectors[q][c], q, c)' /\ GatedSound(vectors[q][c], q, c)'
    BY DEF StoreSound
  <2>1. q # p
    BY <1>3
  <2>2. PICK v \in VectorRows : v = vectors[q][c] /\ v = vectors'[q][c]
    BY <1>3, <1>t, <2>1 DEF FeatureTypeOK
  <2>3. q \in talents /\ SeenSound(v, q, c) /\ GatedSound(v, q, c)
    BY <1>t, <2>2 DEF StoreSound
  <2>4. SeenSound(v, q, c)' /\ GatedSound(v, q, c)'
    BY <1>4, <1>t, <2>3, VectorKept
  <2> QED
    BY <1>1, <2>1, <2>2, <2>3, <2>4
<1> QED
  BY <1>1, <1>2, <1>4, <1>5, <1>6, PeopleMove

-----------------------------------------------------------------------------
(* Builds.                                                                     *)

\* What is masked holds nothing of the ledger.
LEMMA MaskedIsEmpty ==
  ASSUME NEW v \in VectorRows, NEW allowed \in BOOLEAN
  PROVE  /\ MaskUnless(allowed, v) \in VectorRows
         /\ MaskUnless(allowed, v).seen \subseteq v.seen
         /\ MaskUnless(allowed, v).st = v.st /\ MaskUnless(allowed, v).allowed = v.allowed
         /\ MaskUnless(allowed, v).gated \in {v.gated, Unknown}
         /\ ~allowed => MaskUnless(allowed, v).gated = Unknown
BY DEF MaskUnless, Masked, VectorRows

LEMMA BuildsBegin ==
  ASSUME FeatureInv, NEW m \in Builds, NEW p \in Talents, NEW cut \in Cuts, BeginBuild(m, p, cut)
  PROVE  FeatureInv'
<1> DEFINE b == [NoBuild EXCEPT !.st = IF p \in talents THEN "context" ELSE "skipped", !.who = p, !.cut = cut]
<1>1. b \in BuildRecs /\ b.st \in {"context", "skipped"} /\ b.who = p
  BY FeatureConstantsOK DEF BuildRecs, NoBuild, NoVector, VectorRows
<1>2. builds' = [builds EXCEPT ![m] = b] /\ UNCHANGED <<moment, talents, permits, outcomes, vectors, uses>>
  BY DEF BeginBuild
<1> HIDE DEF b
<1>3. BuildSound(b)
  BY <1>1 DEF BuildSound
<1> QED
  BY <1>1, <1>2, <1>3, BuildMoves

LEMMA BuildsSeeTheirCut ==
  ASSUME FeatureInv, NEW m \in Builds, BuildContext(m)
  PROVE  FeatureInv'
<1> DEFINE seen == {e \in RecordsOf(builds[m].who) : outcomes[e].on <= builds[m].cut}
           v == [st |-> "computed", allowed |-> FALSE, plain |-> 1, gated |-> Cardinality(seen), seen |-> seen]
           b == [builds[m] EXCEPT !.st = "computed", !.vector = v]
<1>t. builds[m] \in BuildRecs /\ builds \in [Builds -> BuildRecs]
  BY DEF FeatureInv, FeatureTypeOK
<1>1. seen \in SUBSET Outcomes /\ \A e \in seen : outcomes[e].who = builds[m].who /\ outcomes[e].on <= builds[m].cut
  BY DEF RecordsOf
<1>2. Cardinality(seen) \in Nat
  BY <1>1, FS_Subset, FS_CardinalityType, FeatureConstantsOK
<1>3. v \in VectorRows /\ v.seen = seen
  BY <1>1, <1>2 DEF VectorRows
<1> HIDE DEF v, seen
<1>4. b \in BuildRecs /\ b.st = "computed" /\ b.who = builds[m].who /\ b.cut = builds[m].cut /\ b.vector = v
  BY <1>3, <1>t DEF BuildRecs
<1>5. /\ builds' = [builds EXCEPT ![m] = b] /\ builds[m].st = "context"
      /\ UNCHANGED <<moment, talents, permits, outcomes, vectors, uses>>
  BY <1>t DEF BuildContext, v, seen
<1> HIDE DEF b
<1>6. BuildSound(b)
  BY <1>1, <1>3, <1>4, <1>5 DEF BuildSound, SeenSound, FeatureInv
<1> QED
  BY <1>4, <1>5, <1>6, BuildMoves

LEMMA ConsentKeepsInv ==
  ASSUME FeatureInv, NEW m \in Builds, ApplyConsent(m)
  PROVE  FeatureInv'
<1> DEFINE allowed == Permitted(builds[m].who, builds[m].cut, FALSE)
           w == [builds[m].vector EXCEPT !.st = "stored", !.allowed = allowed]
           v == MaskUnless(allowed, w)
           b == [builds[m] EXCEPT !.st = IF builds[m].who \in talents THEN "decided" ELSE "skipped", !.vector = v]
<1>t. /\ builds[m] \in BuildRecs /\ builds \in [Builds -> BuildRecs] /\ BuildSound(builds[m])
      /\ builds[m].cut \in Cuts
  BY DEF FeatureInv, FeatureTypeOK, BuildRecs
<1>1. /\ builds[m].st = "computed" /\ builds[m].who \in Talents /\ SeenSound(builds[m].vector, builds[m].who, builds[m].cut)
  BY <1>t DEF ApplyConsent, BuildSound
<1>2. permits[builds[m].who] \in PermitRows
  BY <1>1 DEF FeatureInv, FeatureTypeOK
<1>3. allowed \in BOOLEAN
  BY <1>2, <1>t DEF Permitted, PermitRows, Cuts
<1>4. allowed => /\ permits[builds[m].who].granted # Unknown /\ permits[builds[m].who].granted <= builds[m].cut
                 /\ builds[m].cut < permits[builds[m].who].ends
  BY DEF Permitted
<1>5. builds' = [builds EXCEPT ![m] = b] /\ UNCHANGED <<moment, talents, permits, outcomes, vectors, uses>>
  BY <1>t DEF ApplyConsent
<1> HIDE DEF allowed
<1>6. w \in VectorRows /\ w.seen = builds[m].vector.seen /\ w.allowed = allowed
  BY <1>3, <1>t DEF VectorRows, BuildRecs
<1> HIDE DEF w
<1>7. v \in VectorRows /\ v.seen \subseteq builds[m].vector.seen /\ v.allowed = allowed /\ (~allowed => v.gated = Unknown)
  BY <1>3, <1>6, MaskedIsEmpty
<1> HIDE DEF v
<1>8. b \in BuildRecs /\ b.st \in {"decided", "skipped"} /\ b.who = builds[m].who /\ b.cut = builds[m].cut /\ b.vector = v
  BY <1>7, <1>t DEF BuildRecs
<1> HIDE DEF b
<1>9. BuildSound(b)
  BY <1>1, <1>4, <1>7, <1>8 DEF BuildSound, SeenSound, GatedSound
<1> QED
  BY <1>5, <1>8, <1>9, BuildMoves

LEMMA LookUpKeepsInv ==
  ASSUME FeatureInv, NEW m \in Builds, LookUpVector(m)
  PROVE  FeatureInv'
<1> DEFINE update == vectors[builds[m].who][builds[m].cut].st = "stored"
           b == [builds[m] EXCEPT !.st = "saving", !.update = update]
<1>t. builds[m] \in BuildRecs /\ builds \in [Builds -> BuildRecs] /\ BuildSound(builds[m])
  BY DEF FeatureInv, FeatureTypeOK
<1>1. /\ b \in BuildRecs /\ b.st = "saving" /\ b.who = builds[m].who /\ b.cut = builds[m].cut
      /\ b.vector = builds[m].vector
  BY <1>t DEF BuildRecs
<1>2. /\ builds' = [builds EXCEPT ![m] = b] /\ builds[m].st = "decided"
      /\ UNCHANGED <<moment, talents, permits, outcomes, vectors, uses>>
  BY <1>t DEF LookUpVector
<1> HIDE DEF b
<1>3. BuildSound(b)
  BY <1>1, <1>2, <1>t DEF BuildSound
<1> QED
  BY <1>1, <1>2, <1>3, BuildMoves

\* The row is written of a person who is there, with what was decided.
LEMMA UpsertKeepsInv ==
  ASSUME FeatureInv, NEW m \in Builds, UpsertVector(m)
  PROVE  FeatureInv'
<1> DEFINE p == builds[m].who
           cut == builds[m].cut
           v == builds[m].vector
<1>t. /\ builds[m] \in BuildRecs /\ builds \in [Builds -> BuildRecs] /\ BuildSound(builds[m])
      /\ cut \in Cuts /\ v \in VectorRows /\ vectors \in [Talents -> [Cuts -> VectorRows]]
  BY DEF FeatureInv, FeatureTypeOK, BuildRecs
<1>1. /\ builds[m].st = "saving" /\ p \in Talents /\ SeenSound(v, p, cut) /\ GatedSound(v, p, cut)
      /\ UNCHANGED <<moment, talents, permits, outcomes, uses>>
  BY <1>t DEF UpsertVector, BuildSound
<1>2. ASSUME NEW st \in {"skipped", "saved", "failed"}
      PROVE  [NoBuild EXCEPT !.st = st] \in BuildRecs /\ BuildSound([NoBuild EXCEPT !.st = st])
  <2> DEFINE b == [NoBuild EXCEPT !.st = st]
  <2>1. NoVector \in VectorRows /\ 0 \in Cuts
    BY FeatureConstantsOK DEF NoVector, VectorRows, Cuts
  <2>2. b \in BuildRecs /\ b.st = st
    BY <2>1 DEF BuildRecs, NoBuild
  <2> HIDE DEF b
  <2>3. BuildSound(b)
    BY <2>2 DEF BuildSound
  <2> QED
    BY <2>2, <2>3 DEF b
<1>3. ASSUME NEW st \in {"skipped", "saved", "failed"}, builds' = [builds EXCEPT ![m] = [NoBuild EXCEPT !.st = st]],
             UNCHANGED vectors
      PROVE  FeatureInv'
  BY <1>1, <1>2, <1>3, BuildMoves
<1>4. ASSUME p \in talents, vectors' = [vectors EXCEPT ![p][cut] = v],
             builds' = [builds EXCEPT ![m] = [NoBuild EXCEPT !.st = "saved"]]
      PROVE  FeatureInv'
  <2> HIDE DEF p, cut, v
  <2>1. PICK b \in BuildRecs : b = [NoBuild EXCEPT !.st = "saved"] /\ BuildSound(b)
    BY <1>2
  <2>2. FeatureTypeOK'
    BY <1>1, <1>4, <1>t, <2>1 DEF FeatureInv, FeatureTypeOK
  <2>3. PeopleEvolve
    BY <1>1 DEF PeopleEvolve, Spent, Revoked
  <2>4. PeopleSound'
    BY <1>1 DEF FeatureInv, PeopleSound, Revoked
  <2>5. StoreSound'
    <3> SUFFICES ASSUME NEW q \in Talents, NEW c \in Cuts, vectors'[q][c].st = "stored"
                 PROVE  q \in talents' /\ SeenSound(vectors[q][c], q, c)' /\ GatedSound(vectors[q][c], q, c)'
      BY DEF StoreSound
    <3>1. PICK x \in VectorRows : x = vectors'[q][c]
      BY <2>2 DEF FeatureTypeOK
    <3>2. q \in talents /\ SeenSound(x, q, c) /\ GatedSound(x, q, c)
      <4>1. CASE q = p /\ c = cut
        BY <1>1, <1>4, <1>t, <3>1, <4>1
      <4>2. CASE ~(q = p /\ c = cut)
        <5>1. vectors'[q][c] = vectors[q][c]
          BY <1>1, <1>4, <1>t, <4>2
        <5> QED
          BY <3>1, <5>1 DEF FeatureInv, StoreSound
      <4> QED
        BY <4>1, <4>2
    <3>3. SeenSound(x, q, c)' /\ GatedSound(x, q, c)'
      BY <2>3, <3>2, VectorKept DEF FeatureInv
    <3> QED
      BY <1>1, <3>1, <3>2, <3>3
  <2>6. ASSUME NEW n \in Builds PROVE BuildSound(builds[n])'
    <3>1. PICK d \in BuildRecs : d = builds'[n] /\ BuildSound(d)
      BY <1>4, <1>t, <2>1 DEF FeatureInv
    <3>2. BuildSound(d)'
      BY <2>3, <3>1, BuildKept DEF FeatureInv
    <3> QED
      BY <3>1, <3>2
  <2>7. ASSUME NEW w \in Uses PROVE UseSound(uses[w])'
    <3>1. PICK y \in UseRecs : y = uses[w] /\ y = uses'[w] /\ UseSound(y)
      BY <1>1 DEF FeatureInv, FeatureTypeOK
    <3>2. UseSound(y)'
      BY <2>3, <3>1, UseKept DEF FeatureInv
    <3> QED
      BY <3>1, <3>2
  <2> QED
    BY <2>2, <2>4, <2>5, <2>6, <2>7 DEF FeatureInv
<1> QED
  BY <1>3, <1>4 DEF UpsertVector

-----------------------------------------------------------------------------
(* Uses.                                                                       *)

\* A grant that was spent when a call began permits nothing afterwards.
LEMMA SpentPermitsNothing ==
  ASSUME FeatureInv, NEW p \in Talents, NEW scoped \in BOOLEAN, Spent(p, scoped)
  PROVE  ~Permitted(p, moment, scoped)
<1>1. /\ permits[p] \in PermitRows /\ moment \in Nat
      /\ permits[p].revoked # Unknown => permits[p].revoked <= moment
  BY DEF FeatureInv, FeatureTypeOK, PeopleSound, Revoked, Cuts
<1>2. permits[p].ends \in Nat /\ (permits[p].revoked # Unknown => permits[p].revoked \in Nat)
  BY <1>1 DEF PermitRows, Cuts, Ends
<1> QED
  BY <1>1, <1>2 DEF Permitted, Spent, Revoked

LEMMA PermittedIsBoolean ==
  ASSUME FeatureInv, NEW p \in Talents, NEW at \in Cuts, NEW scoped \in BOOLEAN
  PROVE  Permitted(p, at, scoped) \in BOOLEAN
BY DEF FeatureInv, FeatureTypeOK, PermitRows, Permitted

LEMMA SpentIsBoolean ==
  ASSUME NEW p, NEW scoped \in BOOLEAN PROVE Spent(p, scoped) \in BOOLEAN
BY DEF Spent, Revoked

LEMMA TakeKeepsInv ==
  ASSUME FeatureInv, NEW u \in Uses, NEW kind \in {"search", "view", "training"}, NEW p \in Talents, NEW cut \in Cuts,
         TakeVector(u, kind, p, cut)
  PROVE  FeatureInv'
<1> DEFINE v == vectors[p][cut]
           row == [NoUse EXCEPT !.kind = kind, !.who = p, !.cut = cut, !.vector = v]
           x == IF kind = "search" THEN Called([row EXCEPT !.st = "mask"]) ELSE [row EXCEPT !.st = "kept"]
<1>1. /\ vectors[p][cut].st = "stored" /\ uses' = [uses EXCEPT ![u] = x]
      /\ UNCHANGED <<moment, talents, permits, outcomes, vectors, builds>>
  BY DEF TakeVector
<1>2. /\ v \in VectorRows /\ p \in talents /\ SeenSound(v, p, cut)
  BY <1>1 DEF FeatureInv, FeatureTypeOK, StoreSound
<1>3. Spent(p, FALSE) \in BOOLEAN /\ (p \notin talents) = FALSE
  BY <1>2, SpentIsBoolean
<1> HIDE DEF v
<1>4. /\ x \in UseRecs /\ x.who = p /\ x.cut = cut /\ x.vector = v /\ x.label = Unknown
      /\ x.scoped = FALSE /\ x.gone = FALSE
      /\ \/ x.st = "mask" /\ x.dead = Spent(p, FALSE)
         \/ x.st = "kept" /\ x.dead = FALSE
  <2>1. row \in UseRecs /\ row.who = p /\ row.cut = cut /\ row.vector = v /\ row.label = Unknown
        /\ row.scoped = FALSE /\ row.gone = FALSE /\ row.dead = FALSE
    BY <1>2 DEF UseRecs, NoUse
  <2> HIDE DEF row
  <2>2. CASE kind = "search"
    BY <1>2, <1>3, <2>1, <2>2 DEF UseRecs, Called
  <2>3. CASE kind # "search"
    BY <2>1, <2>3 DEF UseRecs
  <2> QED
    BY <2>2, <2>3
<1> HIDE DEF x
<1>5. UseSound(x)
  BY <1>2, <1>4 DEF UseSound
<1> QED
  BY <1>1, <1>4, <1>5, UseMoves

\* A call that begins over a row or an example that was kept knows what is so now.
LEMMA CallsBegin ==
  ASSUME FeatureInv, NEW u \in Uses, NEW scoped \in BOOLEAN, NEW st \in {"mask", "recheck"},
         uses[u].st = IF st = "recheck" THEN "example" ELSE "kept",
         SetUse(u, Called([uses[u] EXCEPT !.st = st, !.scoped = scoped]))
  PROVE  FeatureInv'
<1> DEFINE y == uses[u]
           z == [y EXCEPT !.st = st, !.scoped = scoped]
           x == Called(z)
<1>1. y \in UseRecs /\ UseSound(y) /\ y.st # "free"
  BY DEF FeatureInv, FeatureTypeOK
<1>2. uses' = [uses EXCEPT ![u] = x] /\ UNCHANGED <<moment, talents, permits, outcomes, vectors, builds>>
  BY DEF SetUse
<1>3. Spent(y.who, scoped) \in BOOLEAN /\ (y.who \notin talents) \in BOOLEAN
  BY SpentIsBoolean
<1>4. z \in UseRecs /\ z.st = st /\ z.scoped = scoped /\ z.who = y.who /\ z.cut = y.cut /\ z.vector = y.vector /\ z.label = y.label
  BY <1>1 DEF UseRecs
<1> HIDE DEF z
<1>5. /\ x \in UseRecs /\ x.st = st /\ x.scoped = scoped /\ x.who = y.who /\ x.cut = y.cut
      /\ x.vector = y.vector /\ x.label = y.label
      /\ x.dead = Spent(y.who, scoped) /\ x.gone = (y.who \notin talents)
  BY <1>3, <1>4 DEF UseRecs, Called
<1> HIDE DEF x
<1>6. UseSound(x)
  BY <1>1, <1>5 DEF UseSound
<1> QED
  BY <1>2, <1>5, <1>6, UseMoves

LEMMA JoinBegins ==
  ASSUME FeatureInv, NEW u \in Uses, BuildTrainingSet(u)
  PROVE  FeatureInv'
<1> DEFINE y == uses[u]
<1>1. y \in UseRecs /\ UseSound(y) /\ y.st = "kept"
  BY DEF FeatureInv, FeatureTypeOK, BuildTrainingSet
<1>2. PICK scoped \in BOOLEAN : SetUse(u, [y EXCEPT !.st = "join", !.scoped = scoped])
  BY DEF BuildTrainingSet
<1> DEFINE x == [y EXCEPT !.st = "join", !.scoped = scoped]
<1>3. uses' = [uses EXCEPT ![u] = x] /\ UNCHANGED <<moment, talents, permits, outcomes, vectors, builds>>
  BY <1>2 DEF SetUse
<1>4. /\ x \in UseRecs /\ x.st = "join" /\ x.who = y.who /\ x.cut = y.cut /\ x.vector = y.vector
      /\ x.dead = y.dead /\ x.gone = y.gone
  BY <1>1 DEF UseRecs
<1> HIDE DEF x
<1>5. UseSound(x)
  BY <1>1, <1>4 DEF UseSound
<1> QED
  BY <1>3, <1>4, <1>5, UseMoves

LEMMA MaskKeepsInv ==
  ASSUME FeatureInv, NEW u \in Uses, CurrentConsentVectors(u)
  PROVE  FeatureInv'
<1> DEFINE y == uses[u]
           allowed == Permitted(y.who, moment, y.scoped)
           v == MaskUnless(allowed, y.vector)
           st == IF y.kind = "search" THEN "used" ELSE "exists"
           x == [y EXCEPT !.vector = v, !.st = st]
<1>1. /\ y \in UseRecs /\ UseSound(y) /\ uses \in [Uses -> UseRecs] /\ moment \in Cuts
  BY DEF FeatureInv, FeatureTypeOK
<1>2. /\ y.st = "mask" /\ y.who \in Talents /\ y.label = Unknown
  BY <1>1 DEF CurrentConsentVectors, UseSound
<1>3. allowed \in BOOLEAN /\ (y.dead => ~allowed)
  BY <1>1, <1>2, PermittedIsBoolean, SpentPermitsNothing DEF UseSound, UseRecs
<1>4. /\ uses' = [uses EXCEPT ![u] = x]
      /\ UNCHANGED <<moment, talents, permits, outcomes, vectors, builds>>
  BY <1>1 DEF CurrentConsentVectors, SetUse
<1> HIDE DEF allowed
<1>5. v \in VectorRows /\ (~allowed => v.gated = Unknown)
  BY <1>1, <1>3, MaskedIsEmpty DEF UseRecs
<1> HIDE DEF v
<1>6. /\ x \in UseRecs /\ x.st = st /\ x.who = y.who /\ x.vector = v /\ x.label = Unknown /\ x.scoped = y.scoped /\ x.dead = y.dead
      /\ x.gone = y.gone /\ x.kind = y.kind
  BY <1>1, <1>2, <1>5 DEF UseRecs
<1> HIDE DEF x
<1>7. UseSound(x)
  BY <1>1, <1>2, <1>3, <1>5, <1>6 DEF UseSound
<1> QED
  BY <1>4, <1>6, <1>7, UseMoves

\* The steps of a training export up to the label.
LEMMA JoinKeepsInv ==
  ASSUME FeatureInv, NEW u \in Uses, CheckBeforeJoin(u) \/ FetchOutcomes(u)
  PROVE  FeatureInv'
<1> DEFINE y == uses[u]
<1>t. /\ y \in UseRecs /\ UseSound(y) /\ uses \in [Uses -> UseRecs] /\ moment \in Cuts
      /\ outcomes \in [Outcomes -> OutcomeRows]
  BY DEF FeatureInv, FeatureTypeOK
<1>1. CASE CheckBeforeJoin(u)
  <2> DEFINE allowed == y.vector.allowed /\ Permitted(y.who, moment, y.scoped)
             x == [y EXCEPT !.allowed = allowed, !.st = "fetch"]
  <2>1. y.st = "join" /\ y.who \in Talents
    BY <1>1, <1>t DEF CheckBeforeJoin, UseSound
  <2>2. allowed \in BOOLEAN
    BY <1>t, <2>1, PermittedIsBoolean DEF UseRecs, VectorRows
  <2>3. uses' = [uses EXCEPT ![u] = x] /\ UNCHANGED <<moment, talents, permits, outcomes, vectors, builds>>
    BY <1>1, <1>t DEF CheckBeforeJoin, SetUse
  <2> HIDE DEF allowed
  <2>4. /\ x \in UseRecs /\ x.st = "fetch" /\ x.who = y.who /\ x.cut = y.cut /\ x.vector = y.vector
        /\ x.scoped = y.scoped /\ x.dead = y.dead /\ x.gone = y.gone
    BY <1>t, <2>2 DEF UseRecs
  <2> HIDE DEF x
  <2>5. UseSound(x)
    BY <1>t, <2>1, <2>4 DEF UseSound
  <2> QED
    BY <2>3, <2>4, <2>5, UseMoves
<1>2. CASE FetchOutcomes(u)
  <2> DEFINE found == {[e |-> e, on |-> outcomes[e].on, result |-> outcomes[e].result] : e \in RecordsOf(y.who)}
             label == IF y.allowed THEN found ELSE {}
             x == [y EXCEPT !.st = "fetched", !.label = label]
  <2>1. y.st = "fetch" /\ y.who \in Talents /\ SeenSound(y.vector, y.who, y.cut)
    BY <1>2, <1>t DEF FetchOutcomes, UseSound
  <2>2. uses' = [uses EXCEPT ![u] = x] /\ UNCHANGED <<moment, talents, permits, outcomes, vectors, builds>>
    BY <1>2, <1>t DEF FetchOutcomes, SetUse
  <2>3. ASSUME NEW r \in label PROVE r \in LabelRows /\ (r.e \in y.vector.seen => r.on <= y.cut)
    <3>1. PICK e \in RecordsOf(y.who) : r = [e |-> e, on |-> outcomes[e].on, result |-> outcomes[e].result]
      BY <2>3
    <3>2. e \in Outcomes /\ outcomes[e].who = y.who /\ r.e = e /\ r.on = outcomes[e].on
      BY <3>1 DEF RecordsOf
    <3>3. y.who \in talents
      BY <2>1, <3>2, FeatureConstantsOK DEF FeatureInv, PeopleSound
    <3>4. r \in LabelRows
      BY <1>t, <3>1, <3>2 DEF LabelRows, OutcomeRows
    <3> QED
      BY <2>1, <3>2, <3>3, <3>4 DEF SeenSound
  <2> HIDE DEF label
  <2>4. /\ x \in UseRecs /\ x.st = "fetched" /\ x.who = y.who /\ x.cut = y.cut /\ x.vector = y.vector
        /\ x.scoped = y.scoped /\ x.dead = y.dead /\ x.gone = y.gone /\ x.label = label
    <3>1. label \in SUBSET LabelRows
      BY <2>3
    <3> QED
      BY <1>t, <3>1 DEF UseRecs
  <2> HIDE DEF x
  <2>5. UseSound(x)
    BY <1>t, <2>1, <2>3, <2>4 DEF UseSound
  <2> QED
    BY <2>2, <2>4, <2>5, UseMoves
<1> QED
  BY <1>1, <1>2

\* A label is of outcomes after the cut, none of which a vector of the cut has seen.
LEMMA LabelIsAfterCut ==
  ASSUME NEW records, NEW cut \in Cuts, NEW r \in BuildLabel(records, cut)
  PROVE  r \in records /\ r.on > cut
BY DEF BuildLabel

LEMMA LabelKeepsInv ==
  ASSUME FeatureInv, NEW u \in Uses, JoinLabel(u)
  PROVE  FeatureInv'
<1> DEFINE y == uses[u]
           allowed == y.allowed /\ Permitted(y.who, moment, y.scoped)
           st == IF y.who \in talents THEN "example" ELSE "omitted"
           v == MaskUnless(allowed, y.vector)
           label == IF allowed THEN BuildLabel(y.label, y.cut) ELSE Unknown
           x == [y EXCEPT !.st = st, !.allowed = allowed, !.vector = v, !.label = label]
<1>1. /\ y \in UseRecs /\ UseSound(y) /\ uses \in [Uses -> UseRecs] /\ moment \in Cuts
  BY DEF FeatureInv, FeatureTypeOK
<1>2. y.st = "fetched" /\ y.who \in Talents /\ y.label \subseteq LabelRows /\ \A r \in y.label : r.e \in y.vector.seen => r.on <= y.cut
  BY <1>1 DEF JoinLabel, UseSound
<1>3. allowed \in BOOLEAN
  BY <1>1, <1>2, PermittedIsBoolean DEF UseRecs
<1>4. uses' = [uses EXCEPT ![u] = x] /\ UNCHANGED <<moment, talents, permits, outcomes, vectors, builds>>
  BY <1>1 DEF JoinLabel, SetUse
<1> HIDE DEF allowed
<1>5. v \in VectorRows /\ v.seen \subseteq y.vector.seen
  BY <1>1, <1>3, MaskedIsEmpty DEF UseRecs
<1>6. /\ label \in {Unknown} \cup SUBSET LabelRows
      /\ label # Unknown => \A r \in label : r.e \notin v.seen
  <2>1. y.cut \in Cuts
    BY <1>1 DEF UseRecs
  <2>2. CASE ~allowed
    BY <2>2
  <2>3. CASE allowed
    <3>1. ASSUME NEW r \in BuildLabel(y.label, y.cut) PROVE r \in LabelRows /\ r.e \notin v.seen
      <4>1. r \in y.label /\ r.on > y.cut /\ r \in LabelRows
        BY <1>2, <2>1, LabelIsAfterCut
      <4>2. r.on \in Int /\ y.cut \in Int
        BY <2>1, <4>1 DEF LabelRows, Cuts
      <4> QED
        BY <1>2, <1>5, <4>1, <4>2
    <3> QED
      BY <2>3, <3>1
  <2> QED
    BY <1>3, <2>2, <2>3
<1> HIDE DEF label, v
<1>7. /\ x \in UseRecs /\ x.st = st /\ x.who = y.who /\ x.vector = v /\ x.label = label /\ x.scoped = y.scoped /\ x.dead = y.dead
      /\ x.gone = y.gone
  BY <1>1, <1>2, <1>3, <1>5, <1>6 DEF UseRecs
<1> HIDE DEF x
<1>8. UseSound(x)
  BY <1>1, <1>2, <1>6, <1>7 DEF UseSound
<1> QED
  BY <1>4, <1>7, <1>8, UseMoves

LEMMA ExportKeepsInv ==
  ASSUME FeatureInv, NEW u \in Uses, CurrentTrainingExample(u) \/ CandidateExists(u)
  PROVE  FeatureInv'
<1> DEFINE y == uses[u]
<1>t. y \in UseRecs /\ UseSound(y) /\ uses \in [Uses -> UseRecs] /\ moment \in Cuts
  BY DEF FeatureInv, FeatureTypeOK
<1>1. CASE CurrentTrainingExample(u)
  <2> DEFINE allowed == Permitted(y.who, moment, y.scoped)
             v == MaskUnless(allowed, y.vector)
             label == IF allowed THEN y.label ELSE Unknown
             x == [y EXCEPT !.st = "exists", !.vector = v, !.label = label]
  <2>1. y.st = "recheck" /\ y.who \in Talents
    BY <1>1, <1>t DEF CurrentTrainingExample, UseSound
  <2>2. allowed \in BOOLEAN /\ (y.dead => ~allowed)
    BY <1>t, <2>1, PermittedIsBoolean, SpentPermitsNothing DEF UseSound, UseRecs
  <2>3. uses' = [uses EXCEPT ![u] = x] /\ UNCHANGED <<moment, talents, permits, outcomes, vectors, builds>>
    BY <1>1, <1>t DEF CurrentTrainingExample, SetUse
  <2> HIDE DEF allowed
  <2>4. v \in VectorRows /\ v.seen \subseteq y.vector.seen /\ (~allowed => v.gated = Unknown)
    BY <1>t, <2>2, MaskedIsEmpty DEF UseRecs
  <2> HIDE DEF v
  <2>5. /\ x \in UseRecs /\ x.st = "exists" /\ x.who = y.who /\ x.vector = v /\ x.label = label /\ x.scoped = y.scoped /\ x.dead = y.dead
        /\ x.gone = y.gone
    BY <1>t, <2>2, <2>4 DEF UseRecs
  <2> HIDE DEF x
  <2>6. UseSound(x)
    BY <1>t, <2>1, <2>2, <2>4, <2>5 DEF UseSound
  <2> QED
    BY <2>3, <2>5, <2>6, UseMoves
<1>2. CASE CandidateExists(u)
  <2> DEFINE st == IF y.who \in talents THEN "used" ELSE "omitted"
             x == [y EXCEPT !.st = st]
  <2>1. y.st = "exists" /\ y.who \in Talents
    BY <1>2, <1>t DEF CandidateExists, UseSound
  <2>2. uses' = [uses EXCEPT ![u] = x] /\ UNCHANGED <<moment, talents, permits, outcomes, vectors, builds>>
    BY <1>2, <1>t DEF CandidateExists, SetUse
  <2>3. /\ x \in UseRecs /\ x.st = st /\ x.who = y.who /\ x.vector = y.vector /\ x.label = y.label /\ x.scoped = y.scoped /\ x.dead = y.dead
        /\ x.gone = y.gone
    BY <1>t DEF UseRecs
  <2> HIDE DEF x
  <2>4. UseSound(x)
    BY <1>t, <2>1, <2>3 DEF UseSound
  <2> QED
    BY <2>2, <2>3, <2>4, UseMoves
<1> QED
  BY <1>1, <1>2

-----------------------------------------------------------------------------
LEMMA FeatureStepSound == ASSUME FeatureInv, [FeatureNext]_featureVars PROVE FeatureInv'
<1>1. CASE UNCHANGED featureVars
  <2>1. FeatureTypeOK' /\ PeopleEvolve /\ PeopleSound' /\ UNCHANGED <<builds, uses, talents, vectors>>
    BY <1>1 DEF featureVars, FeatureInv, FeatureTypeOK, PeopleEvolve, PeopleSound, Spent, Revoked
  <2> QED
    BY <2>1, StoreKept, PeopleMove DEF FeatureInv
<1>2. ASSUME NEW m \in Builds, \/ \E p \in Talents, cut \in Cuts : BeginBuild(m, p, cut)
                               \/ BuildContext(m) \/ ApplyConsent(m) \/ LookUpVector(m) \/ UpsertVector(m)
      PROVE  FeatureInv'
  BY <1>2, BuildsBegin, BuildsSeeTheirCut, ConsentKeepsInv, LookUpKeepsInv, UpsertKeepsInv
<1>3. ASSUME NEW u \in Uses, Search(u) \/ KeepRow(u) PROVE FeatureInv'
  BY <1>3, TakeKeepsInv DEF Search, KeepRow, LatestAt
<1>4. ASSUME NEW u \in Uses, ExportView(u) \/ BuildTrainingSet(u) \/ ExportTraining(u) PROVE FeatureInv'
  BY <1>4, CallsBegin, JoinBegins DEF ExportView, ExportTraining
<1>5. ASSUME NEW u \in Uses, \/ CurrentConsentVectors(u) \/ CheckBeforeJoin(u) \/ FetchOutcomes(u) \/ JoinLabel(u)
                             \/ CurrentTrainingExample(u) \/ CandidateExists(u)
      PROVE  FeatureInv'
  BY <1>5, MaskKeepsInv, JoinKeepsInv, LabelKeepsInv, ExportKeepsInv
<1>6. ASSUME NEW p \in Talents, (\E ends \in Ends, covers \in BOOLEAN : Permit(p, ends, covers)) \/
             Withdraw(p) \/ EraseTalent(p) \/ (\E e \in Outcomes, on \in Cuts, result \in Results : FileOutcome(e, p, on, result))
      PROVE  FeatureInv'
  BY <1>6, WorldKeepsFeatureInv, ErasureKeepsFeatureInv
<1> QED
  BY <1>1, <1>2, <1>3, <1>4, <1>5, <1>6, WorldKeepsFeatureInv DEF FeatureNext

\* What stored vectors and the calls that build and use them know of consent holds at
\* every commit, for any number of people, cuts and calls (`features/materialize.py`, `features/training.py`).
THEOREM FeatureInvariance == FeatureSpec => []FeatureInv
BY FeatureInitSound, FeatureStepSound, PTL DEF FeatureSpec

\* What a person had withdrawn when a call began, or had granted only to others or only
\* until then, is in no vector, example or row it answers with, for any number of
\* people, builds and uses (`current_consent_vectors`, `current_training_example`).
THEOREM ConsentIsHonoured == FeatureSpec => []UsesHonourConsent
<1>1. FeatureInv => UsesHonourConsent
  BY DEF FeatureInv, UseSound, UsesHonourConsent
<1> QED
  BY <1>1, FeatureInvariance, PTL

\* No outcome is in both a vector and its label, at whatever cuts and whenever the
\* outcome was filed (`build_label`, `visible_at`).
THEOREM LabelsDoNotLeak == FeatureSpec => []NoLeakage
<1>1. FeatureInv => NoLeakage
  BY DEF FeatureInv, UseSound, NoLeakage
<1> QED
  BY <1>1, FeatureInvariance, PTL

\* A stored vector is of a person who is there, with gated values only under a grant
\* given by its cut that ended after it (`upsert_vector`, `apply_consent`).
THEOREM StoredVectorsHold == FeatureSpec => []VectorsHold
<1>1. FeatureInv => VectorsHold
  BY DEF FeatureInv, StoreSound, GatedSound, VectorsHold
<1> QED
  BY <1>1, FeatureInvariance, PTL

=============================================================================
