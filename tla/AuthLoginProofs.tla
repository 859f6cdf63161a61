--------------------------- MODULE AuthLoginProofs ---------------------------
(***************************************************************************)
(* A code opens one session, in time and for the address it was mailed to, *)
(* for any number of planes, addresses, codes, calls and erasures, any     *)
(* lifetime, cooldown and budget.                                          *)
(*                                                                         *)
(* The argument: a code is reserved by one call and has no history until   *)
(* it is sent (CodesFit); when live it stands in one scope of its own      *)
(* address with the expiry of its reservation and every guess that was     *)
(* charged to it (LiveCodesFit, OnePlace); and what a call saw before is   *)
(* only believed as far as the row still says so, because the redeeming    *)
(* transaction reads that row again (Consumable).                          *)
(***************************************************************************)
EXTENDS AuthLogin, TLAPS

\* What a call in flight carries.
CallFits(q, issued) ==
  /\ q.pc \in {"asked", "allowed", "sending"} =>
       [plane |-> q.plane, purpose |-> q.purpose, email |-> q.email] \in Scopes
  /\ q.pc = "sending" => /\ q.code \in Codes /\ issued[q.code].st # "free"
                         /\ issued[q.code].email = q.email
  /\ q.pc \in {"looking", "judging"} =>
       /\ q.plane \in Planes /\ q.email \in Emails
       /\ q.plane # "org" => q.seen["signup"] = NoChal
  /\ q.pc = "looking" => q.plane = "org" /\ q.purpose = "login"
  /\ q.pc = "resolved" => q.email \in Emails

CallsFit == \A k \in Calls : CallFits(call[k], issuance)

\* A code that is not yet sent has no history.
CodesFit == \A i \in Codes :
  /\ issuance[i].st # "free" => issuance[i].email \in Emails
  /\ issuance[i].st # "gone" => redeemed[i] = 0 /\ guesses[i] = 0 /\ i \notin tainted

\* A live code is of its address, as it was reserved, and all that was charged to it shows.
LiveCodesFit == \A s \in Scopes :
  LET i == chal[s].code IN
  i # None => /\ issuance[i].st = "gone" /\ issuance[i].email = s.email
              /\ issuance[i].expires = chal[s].expires /\ guesses[i] = chal[s].attempts
              /\ redeemed[i] = 0 /\ i \notin tainted

\* It is live in one place.
OnePlace == \A s, t \in Scopes : chal[s].code # None /\ chal[s].code = chal[t].code => s = t

\* The address somebody proved is the one they were known by.
HintsAgree == \A c \in Candidates : cand[c].login \in {None, cand[c].hint}

SessionsHaveCodes == \A x \in Sessions :
  sess[x].st = "live" => sess[x].code \in Codes /\ issuance[sess[x].code].st # "free"

CodeInv == CodesFit /\ LiveCodesFit /\ OnePlace /\ CodeOpensOneSession
PeopleInv == HintsAgree /\ OneOrganizationPerEmail
SessionInv == SessionsHaveCodes /\ SessionsBelongToProver
AuthInv == TypeOK /\ CallsFit /\ CodeInv /\ PeopleInv /\ SessionInv

-----------------------------------------------------------------------------
(* Scopes, and calls that only move on.                                        *)

LEMMA ScopeRows ==
  /\ \A p, q, e : [plane |-> p, purpose |-> q, email |-> e] \in Scopes
                    <=> p \in Planes /\ q \in PurposesOf(p) /\ e \in Emails
  /\ \A s \in Scopes : /\ s = [plane |-> s.plane, purpose |-> s.purpose, email |-> s.email]
                       /\ s.plane \in Planes /\ s.plane \in {"candidate", "org", "admin"}
                       /\ s.purpose \in {"signup", "login"} /\ s.email \in Emails
BY ConstantsOK DEF Scopes, PurposesOf

LEMMA EmptyRows ==
  /\ NoChal \in ChalRows /\ NoChal.code = None /\ NoIssuance \in IssuanceRows
  /\ NoCand \in CandRows /\ NoSess \in SessRows
  /\ Idle \in CallRecs /\ Idle.pc = "idle" /\ Idle.purpose = "login"
  /\ Idle.seen["signup"] = NoChal /\ Idle.seen["login"] = NoChal
BY DEF NoChal, ChalRows, NoIssuance, IssuanceRows, NoCand, CandRows, NoSess, SessRows, Idle, CallRecs,
       MaybeEmail, MaybeName, MaybeCode

LEMMA IdleFits ==
  ASSUME NEW issued PROVE CallFits(Idle, issued)
BY EmptyRows DEF CallFits

LEMMA AuthStarts ==
  Init => AuthInv
<1> SUFFICES ASSUME Init PROVE AuthInv
  OBVIOUS
<1> USE EmptyRows DEF Init
<1>1. TypeOK
  <2>1. cand \in [Candidates -> CandRows]
    BY DEF CandRows, MaybeEmail
  <2> QED
    BY <2>1 DEF TypeOK, MaybeEmail
<1>2. CallsFit
  BY IdleFits DEF CallsFit
<1>3. CodeInv
  BY DEF CodeInv, CodesFit, LiveCodesFit, OnePlace, CodeOpensOneSession, NoIssuance
<1>4. HintsAgree
  BY DEF HintsAgree, NoCand
<1>5. SessionInv /\ OneOrganizationPerEmail
  BY DEF SessionInv, SessionsHaveCodes, SessionsBelongToProver, NoSess, OneOrganizationPerEmail
<1> QED
  BY <1>1, <1>2, <1>3, <1>4, <1>5 DEF AuthInv, PeopleInv

LEMMA CallMoves ==
  ASSUME AuthInv, NEW k \in Calls, NEW q \in CallRecs, CallFits(q, issuance),
         call' = [call EXCEPT ![k] = q],
         UNCHANGED <<clock, cand, org, admins, issuance, chal, sess, history>>
  PROVE  AuthInv'
<1>1. call \in [Calls -> CallRecs] /\ call' \in [Calls -> CallRecs]
  BY DEF AuthInv, TypeOK
<1>2. TypeOK'
  BY <1>1 DEF AuthInv, TypeOK, history
<1>3. CallsFit'
  BY <1>1 DEF AuthInv, CallsFit
<1>4. CodeInv' /\ PeopleInv' /\ SessionInv'
  BY DEF AuthInv, CodeInv, CodesFit, LiveCodesFit, OnePlace, CodeOpensOneSession, PeopleInv, HintsAgree,
         OneOrganizationPerEmail, SessionInv, SessionsHaveCodes, SessionsBelongToProver, Owners, HasOrg, history
<1> QED
  BY <1>2, <1>3, <1>4 DEF AuthInv

LEMMA CallKnown ==
  ASSUME AuthInv, NEW k \in Calls
  PROVE  /\ call \in [Calls -> CallRecs] /\ call[k] \in CallRecs /\ CallFits(call[k], issuance)
         /\ chal \in [Scopes -> ChalRows]
BY DEF AuthInv, TypeOK, CallsFit

LEMMA CallLeaves ==
  ASSUME AuthInv, NEW k \in Calls, Leave(k),
         UNCHANGED <<clock, cand, org, admins, issuance, chal, sess, history>>
  PROVE  AuthInv'
BY CallMoves, EmptyRows, IdleFits DEF Leave

LEMMA TestCooldownKeeps ==
  ASSUME AuthInv, NEW k \in Calls, TestCooldown(k) PROVE AuthInv'
<1> DEFINE q == [call[k] EXCEPT !.pc = "allowed"]
<1>1. CASE MaySend(chal[Scope(k)], call[k].at)
  <2>1. call[k].pc = "asked" /\ call' = [call EXCEPT ![k] = q]
    BY <1>1, CallKnown DEF TestCooldown, Goto, At
  <2>2. /\ q \in CallRecs /\ q.pc = "allowed" /\ q.plane = call[k].plane
        /\ q.purpose = call[k].purpose /\ q.email = call[k].email
    BY CallKnown DEF CallRecs
  <2> HIDE DEF q
  <2>3. CallFits(q, issuance)
    BY <2>1, <2>2, CallKnown DEF CallFits
  <2> QED
    BY <2>1, <2>2, <2>3, CallMoves DEF TestCooldown
<1>2. CASE ~MaySend(chal[Scope(k)], call[k].at)
  BY <1>2, CallLeaves DEF TestCooldown
<1> QED
  BY <1>1, <1>2

LEMMA BeginVerifyKeeps ==
  ASSUME AuthInv, NEW k \in Calls, NEW p \in Planes, NEW e \in Emails, NEW g \in MaybeCode,
         BeginVerify(k, p, e, g)
  PROVE  AuthInv'
<1> DEFINE first == IF p = "org" THEN "signup" ELSE "login"
           row == chal[[plane |-> p, purpose |-> first, email |-> e]]
           pc == IF p = "org" THEN "looking" ELSE "judging"
           q == [Idle EXCEPT !.pc = pc, !.plane = p, !.email = e, !.at = clock, !.code = g,
                             !.seen[first] = row]
<1>1. call' = [call EXCEPT ![k] = q] /\ UNCHANGED <<clock, cand, org, admins, issuance, chal, sess, history>>
  BY DEF BeginVerify
<1>2. row \in ChalRows
  <2>1. [plane |-> p, purpose |-> first, email |-> e] \in Scopes
    BY ScopeRows DEF PurposesOf
  <2> QED
    BY <2>1, CallKnown
<1>3. clock \in Nat /\ p \in {"candidate", "org", "admin"} /\ first \in {"signup", "login"}
  BY ConstantsOK DEF AuthInv, TypeOK
<1>4. pc \in {"looking", "judging"} /\ (p # "org" => first # "signup") /\ (pc = "looking" => p = "org")
  OBVIOUS
<1> HIDE DEF row, first, pc
<1>5. q \in CallRecs
  BY <1>2, <1>3, <1>4 DEF Idle, CallRecs, MaybeEmail, MaybeName, MaybeCode, NoChal, ChalRows
<1>6. /\ q.pc = pc /\ q.plane = p /\ q.email = e /\ q.purpose = "login"
      /\ first # "signup" => q.seen["signup"] = NoChal
  BY DEF Idle
<1> HIDE DEF q
<1>7. CallFits(q, issuance)
  BY <1>4, <1>6 DEF CallFits
<1> QED
  BY <1>1, <1>5, <1>7, CallMoves

LEMMA LookAgainKeeps ==
  ASSUME AuthInv, NEW k \in Calls, LookAgain(k) PROVE AuthInv'
<1> DEFINE row == chal[Scope(k)]
           q == [call[k] EXCEPT !.pc = "judging", !.seen["login"] = row]
<1>0. /\ call[k] \in CallRecs /\ CallFits(call[k], issuance) /\ call[k].pc = "looking"
      /\ call \in [Calls -> CallRecs]
  BY CallKnown DEF LookAgain, At
<1>1. call' = [call EXCEPT ![k] = q]
  BY <1>0 DEF LookAgain
<1>2. row \in ChalRows
  <2>1. Scope(k) \in Scopes
    BY <1>0, ScopeRows DEF CallFits, Scope, PurposesOf
  <2> QED
    BY <2>1, CallKnown
<1> HIDE DEF row
<1>3. /\ q \in CallRecs /\ q.pc = "judging" /\ q.plane = call[k].plane /\ q.email = call[k].email
  BY <1>0, <1>2 DEF CallRecs
<1> HIDE DEF q
<1>4. CallFits(q, issuance)
  BY <1>0, <1>3 DEF CallFits
<1> QED
  BY <1>1, <1>3, <1>4, CallMoves DEF LookAgain

LEMMA BeginUploadKeeps ==
  ASSUME AuthInv, NEW k \in Calls, NEW e \in Emails, BeginUpload(k, e) PROVE AuthInv'
<1> DEFINE q == [Idle EXCEPT !.pc = "resolved", !.email = e, !.match = Match(e)]
<1>1. call' = [call EXCEPT ![k] = q] /\ UNCHANGED <<clock, cand, org, admins, issuance, chal, sess, history>>
  BY DEF BeginUpload
<1>2. Match(e) \in Candidates \cup {None}
  BY DEF Match, Hinted
<1>3. q \in CallRecs /\ q.pc = "resolved" /\ q.email = e
  BY <1>2, EmptyRows DEF Idle, CallRecs, MaybeEmail
<1> HIDE DEF q
<1>4. CallFits(q, issuance)
  BY <1>3 DEF CallFits
<1> QED
  BY <1>1, <1>3, <1>4, CallMoves

LEMMA CallsGiveUp ==
  ASSUME AuthInv, NEW k \in Calls, NothingToCharge(k) \/ RefuseRedemption(k) \/ Crash(k) PROVE AuthInv'
BY CallLeaves DEF NothingToCharge, RefuseRedemption, Crash

-----------------------------------------------------------------------------
(* Codes: reserved, sent, replaced, expired and erased.                        *)

\* A reservation, once made, keeps its address.
Stable == \A i \in Codes :
  issuance[i].st # "free" => issuance'[i].st # "free" /\ issuance'[i].email = issuance[i].email

LEMMA CallsStay ==
  ASSUME AuthInv, Stable, UNCHANGED call PROVE CallsFit'
BY DEF AuthInv, CallsFit, CallFits, Stable

LEMMA CallsGoOn ==
  ASSUME AuthInv, Stable, NEW k \in Calls, NEW q \in CallRecs, CallFits(q, issuance'),
         call' = [call EXCEPT ![k] = q]
  PROVE  CallsFit' /\ call' \in [Calls -> CallRecs]
<1>1. call \in [Calls -> CallRecs]
  BY DEF AuthInv, TypeOK
<1>2. call' \in [Calls -> CallRecs]
  BY <1>1
<1>3. ASSUME NEW j \in Calls PROVE CallFits(call'[j], issuance')
  <2>1. CASE j = k
    BY <1>1, <2>1
  <2>2. CASE j # k
    <3>1. call'[j] = call[j] /\ CallFits(call[j], issuance)
      BY <1>1, <2>2, CallKnown
    <3> QED
      BY <3>1 DEF CallFits, Stable
  <2> QED
    BY <2>1, <2>2
<1> QED
  BY <1>2, <1>3 DEF CallsFit

LEMMA PeopleStay ==
  ASSUME AuthInv, Stable, UNCHANGED <<cand, org, admins, sess>> PROVE PeopleInv' /\ SessionInv'
<1>1. PeopleInv' /\ SessionsHaveCodes'
  BY DEF AuthInv, PeopleInv, HintsAgree, OneOrganizationPerEmail, SessionInv, SessionsHaveCodes, Stable
<1>2. ASSUME NEW x \in Sessions, sess[x].st = "live"
      PROVE  issuance'[sess[x].code].email = issuance[sess[x].code].email
  BY <1>2 DEF AuthInv, SessionInv, SessionsHaveCodes, Stable
<1>3. \A e : Owners(e)' = Owners(e) /\ HasOrg(e)' = HasOrg(e)
  BY DEF Owners, HasOrg
<1> QED
  BY <1>1, <1>2, <1>3 DEF AuthInv, SessionInv, SessionsBelongToProver

\* Reservations in S may be dropped with the live codes in T, and U noted as erased.
MayGo(S, T, U) ==
  /\ S \subseteq Codes /\ T \subseteq Scopes /\ U \subseteq Codes
  /\ \A i \in S : issuance[i].st # "free"
  /\ \A i \in U : /\ i \in S \/ issuance[i].st = "gone"
                  /\ \A s \in Scopes \ T : chal[s].code # i

LEMMA CodesGo ==
  ASSUME AuthInv, NEW S, NEW T, NEW U, MayGo(S, T, U),
         issuance' = Drop(S), chal' = Clear(T), tainted' = tainted \cup U,
         UNCHANGED <<redeemed, guesses>>
  PROVE  /\ issuance' \in [Codes -> IssuanceRows] /\ chal' \in [Scopes -> ChalRows]
         /\ tainted' \subseteq Codes /\ CodeInv' /\ Stable
<1> USE DEF MayGo
<1>1. /\ issuance \in [Codes -> IssuanceRows] /\ chal \in [Scopes -> ChalRows] /\ tainted \subseteq Codes
  BY DEF AuthInv, TypeOK
<1>2. /\ issuance' \in [Codes -> IssuanceRows]
      /\ \A i \in Codes : /\ issuance'[i].email = issuance[i].email /\ issuance'[i].expires = issuance[i].expires
                          /\ issuance'[i].st = IF i \in S THEN "gone" ELSE issuance[i].st
  BY <1>1 DEF Drop, IssuanceRows
<1>3. /\ chal' \in [Scopes -> ChalRows]
      /\ \A s \in Scopes : chal'[s] = IF s \in T THEN NoChal ELSE chal[s]
  BY <1>1, EmptyRows DEF Clear
<1>4. CodesFit' /\ CodeOpensOneSession'
  BY <1>2 DEF AuthInv, CodeInv, CodesFit, CodeOpensOneSession
<1>5. ASSUME NEW s \in Scopes, chal'[s].code # None
      PROVE  s \notin T /\ chal'[s] = chal[s] /\ chal[s].code \in Codes
  BY <1>1, <1>3, <1>5, EmptyRows DEF ChalRows, MaybeCode
<1>6. LiveCodesFit'
  BY <1>2, <1>5 DEF AuthInv, CodeInv, LiveCodesFit
<1>7. OnePlace'
  BY <1>5 DEF AuthInv, CodeInv, OnePlace
<1>8. Stable
  BY <1>2 DEF Stable
<1> QED
  BY <1>1, <1>2, <1>3, <1>4, <1>6, <1>7, <1>8 DEF CodeInv

LEMMA RequestKeeps ==
  ASSUME AuthInv, NEW k \in Calls, NEW s \in Scopes, NEW n \in MaybeName, Request(k, s, n) PROVE AuthInv'
<1> DEFINE S == {i \in Pending(s.email) : issuance[i].expires <= clock}
           T == {t \in ScopesOf(s.email) : chal[t].code # None /\ chal[t].expires <= clock}
           q == [Idle EXCEPT !.pc = "asked", !.plane = s.plane, !.name = n,
                             !.purpose = s.purpose, !.email = s.email, !.at = clock]
<1>1. /\ issuance' = Drop(S) /\ chal' = Clear(T)
      /\ UNCHANGED <<clock, cand, org, admins, sess, redeemed, guesses, tainted>>
      /\ call' = [call EXCEPT ![k] = q] \/ UNCHANGED call
  BY DEF Request, history
<1>2. S \in SUBSET Codes /\ T \in SUBSET Scopes /\ \A i \in S : issuance[i].st # "free"
  BY DEF Pending, ScopesOf
<1> HIDE DEF S, T
<1>3. /\ issuance' \in [Codes -> IssuanceRows] /\ chal' \in [Scopes -> ChalRows]
      /\ tainted' \subseteq Codes /\ CodeInv' /\ Stable
  <2>1. MayGo(S, T, {}) /\ tainted' = tainted \cup {}
    BY <1>1, <1>2 DEF MayGo
  <2> QED
    BY <1>1, <2>1, CodesGo
<1>4. PeopleInv' /\ SessionInv'
  BY <1>1, <1>3, PeopleStay
<1>5. q \in CallRecs /\ q.pc = "asked" /\ s = [plane |-> q.plane, purpose |-> q.purpose, email |-> q.email]
  <2>1. clock \in Nat /\ s.plane \in {"candidate", "org", "admin"} /\ s.purpose \in {"signup", "login"} /\ s.email \in Emails
    BY ScopeRows DEF AuthInv, TypeOK
  <2>2. s = [plane |-> s.plane, purpose |-> s.purpose, email |-> s.email]
    BY ScopeRows
  <2>3. q \in CallRecs
    BY <2>1, EmptyRows DEF Idle, CallRecs, MaybeEmail
  <2> QED
    BY <2>2, <2>3 DEF Idle
<1> HIDE DEF q
<1>6. CallFits(q, issuance')
  BY <1>5 DEF CallFits
<1>7. CallsFit' /\ call' \in [Calls -> CallRecs]
  <2>1. CASE call' = [call EXCEPT ![k] = q]
    BY <1>3, <1>5, <1>6, <2>1, CallsGoOn
  <2>2. CASE UNCHANGED call
    BY <1>3, <2>2, CallsStay DEF AuthInv, TypeOK
  <2> QED
    BY <1>1, <2>1, <2>2
<1>8. TypeOK'
  BY <1>1, <1>3, <1>7 DEF AuthInv, TypeOK
<1> QED
  BY <1>3, <1>4, <1>7, <1>8 DEF AuthInv

LEMMA ReserveKeeps ==
  ASSUME AuthInv, NEW k \in Calls, ReserveIssuance(k) PROVE AuthInv'
<1>1. PICK i \in Codes :
        /\ issuance[i].st = "free"
        /\ issuance' = [issuance EXCEPT ![i] = [st |-> "reserved", email |-> call[k].email,
                                                  expires |-> call[k].at + TTL]]
        /\ call' = [call EXCEPT ![k].pc = "sending", ![k].code = i]
  BY DEF ReserveIssuance
<1> DEFINE row == [st |-> "reserved", email |-> call[k].email, expires |-> call[k].at + TTL]
           q == [call[k] EXCEPT !.pc = "sending", !.code = i]
<1>2. /\ call \in [Calls -> CallRecs] /\ call[k] \in CallRecs /\ CallFits(call[k], issuance)
      /\ call[k].pc = "allowed" /\ UNCHANGED <<clock, cand, org, admins, chal, sess, history>>
      /\ issuance \in [Codes -> IssuanceRows]
  BY CallKnown DEF ReserveIssuance, At, AuthInv, TypeOK
<1>3. call[k].email \in Emails
  BY <1>2, ScopeRows DEF CallFits
<1>4. row \in IssuanceRows /\ row.st = "reserved" /\ row.email = call[k].email
  BY <1>2, <1>3, ConstantsOK DEF CallRecs, IssuanceRows, MaybeEmail
<1>5. issuance' = [issuance EXCEPT ![i] = row]
  BY <1>1
<1>6. call' = [call EXCEPT ![k] = q]
  BY <1>1, <1>2 DEF CallRecs
<1>7. /\ q \in CallRecs /\ q.pc = "sending" /\ q.code = i /\ q.plane = call[k].plane
      /\ q.purpose = call[k].purpose /\ q.email = call[k].email
  BY <1>2 DEF CallRecs, MaybeCode
<1> HIDE DEF row, q
<1>8. /\ issuance' \in [Codes -> IssuanceRows] /\ issuance'[i] = row
      /\ \A j \in Codes : j # i => issuance'[j] = issuance[j]
  BY <1>2, <1>4, <1>5
<1>9. Stable
  BY <1>1, <1>8 DEF Stable
<1>10. CallFits(q, issuance')
  BY <1>2, <1>4, <1>7, <1>8 DEF CallFits
<1>11. CallsFit' /\ call' \in [Calls -> CallRecs]
  BY <1>6, <1>7, <1>9, <1>10, CallsGoOn
<1>12. CodeInv'
  <2>1. CodesFit'
    BY <1>1, <1>2, <1>3, <1>4, <1>8 DEF AuthInv, CodeInv, CodesFit, history
  <2>2. \A s \in Scopes : chal[s].code # i
    BY <1>1, ConstantsOK DEF AuthInv, CodeInv, LiveCodesFit
  <2>3. \A s \in Scopes : chal[s].code \in MaybeCode
    BY DEF AuthInv, TypeOK, ChalRows
  <2>4. LiveCodesFit'
    BY <1>2, <1>8, <2>2, <2>3 DEF AuthInv, CodeInv, LiveCodesFit, MaybeCode, history
  <2> QED
    BY <1>2, <2>1, <2>4 DEF AuthInv, CodeInv, OnePlace, CodeOpensOneSession, history
<1>13. TypeOK'
  BY <1>2, <1>8, <1>11 DEF AuthInv, TypeOK, history
<1>14. PeopleInv' /\ SessionInv'
  BY <1>2, <1>9, PeopleStay
<1> QED
  BY <1>11, <1>12, <1>13, <1>14 DEF AuthInv

LEMMA SendingKnown ==
  ASSUME AuthInv, NEW k \in Calls, At(k, "sending")
  PROVE  /\ call[k].code \in Codes /\ issuance[call[k].code].st # "free"
         /\ issuance[call[k].code].email = call[k].email /\ Scope(k) \in Scopes
         /\ Scope(k).email = call[k].email /\ call[k] \in CallRecs
BY CallKnown DEF At, CallFits, Scope

LEMMA CancelKeeps ==
  ASSUME AuthInv, NEW k \in Calls, CancelIssuance(k) PROVE AuthInv'
<1>1. /\ At(k, "sending") /\ issuance' = Drop({call[k].code}) /\ Leave(k)
      /\ UNCHANGED <<clock, cand, org, admins, chal, sess, redeemed, guesses, tainted>>
  BY DEF CancelIssuance, history
<1>2. chal' = Clear({}) /\ tainted' = tainted \cup {}
  <2>1. chal \in [Scopes -> ChalRows]
    BY DEF AuthInv, TypeOK
  <2> QED
    BY <1>1, <2>1 DEF Clear
<1>3. /\ issuance' \in [Codes -> IssuanceRows] /\ chal' \in [Scopes -> ChalRows]
      /\ tainted' \subseteq Codes /\ CodeInv' /\ Stable
  <2>1. MayGo({call[k].code}, {}, {})
    BY <1>1, SendingKnown DEF MayGo
  <2> QED
    BY <1>1, <1>2, <2>1, CodesGo
<1>4. CallsFit' /\ call' \in [Calls -> CallRecs]
  BY <1>1, <1>3, EmptyRows, IdleFits, CallsGoOn DEF Leave
<1>5. TypeOK'
  BY <1>1, <1>3, <1>4 DEF AuthInv, TypeOK
<1>6. PeopleInv' /\ SessionInv'
  BY <1>1, <1>3, PeopleStay
<1> QED
  BY <1>3, <1>4, <1>5, <1>6 DEF AuthInv

LEMMA ActivateKeeps ==
  ASSUME AuthInv, NEW k \in Calls, ActivateIssuance(k) PROVE AuthInv'
<1> DEFINE i == call[k].code
           s == Scope(k)
           row == [code |-> i, expires |-> issuance[i].expires, attempts |-> 0,
                   sent |-> call[k].at, name |-> call[k].name]
<1>1. /\ At(k, "sending") /\ Leave(k)
      /\ UNCHANGED <<clock, cand, org, admins, sess, redeemed, guesses, tainted>>
  BY DEF ActivateIssuance, history
<1>2. CASE issuance[i].st # "reserved"
  BY <1>1, <1>2, CallLeaves DEF ActivateIssuance, history
<1>3. CASE issuance[i].st = "reserved"
  <2>1. issuance' = Drop({i}) /\ chal' = [chal EXCEPT ![s] = row]
    BY <1>3 DEF ActivateIssuance
  <2>2. /\ i \in Codes /\ issuance[i].email = s.email /\ s \in Scopes /\ call[k] \in CallRecs
        /\ issuance \in [Codes -> IssuanceRows] /\ chal \in [Scopes -> ChalRows]
    BY <1>1, SendingKnown DEF AuthInv, TypeOK
  <2>3. row \in ChalRows /\ row.code = i /\ row.expires = issuance[i].expires /\ row.attempts = 0
    BY <2>2 DEF ChalRows, CallRecs, IssuanceRows, MaybeCode
  <2> HIDE DEF row, s, i
  <2>4. /\ issuance' \in [Codes -> IssuanceRows]
        /\ \A j \in Codes : /\ issuance'[j].email = issuance[j].email /\ issuance'[j].expires = issuance[j].expires
                            /\ issuance'[j].st = IF j = i THEN "gone" ELSE issuance[j].st
    BY <2>1, <2>2 DEF Drop, IssuanceRows
  <2>5. /\ chal' \in [Scopes -> ChalRows] /\ chal'[s] = row
        /\ \A t \in Scopes : t # s => chal'[t] = chal[t]
    BY <2>1, <2>2, <2>3
  <2>6. Stable
    BY <1>3, <2>4 DEF Stable
  <2>7. redeemed[i] = 0 /\ guesses[i] = 0 /\ i \notin tainted
    BY <1>3, <2>2 DEF AuthInv, CodeInv, CodesFit
  <2>8. \A t \in Scopes : chal[t].code \in MaybeCode /\ chal[t].code # i
    BY <1>3, <2>2, ConstantsOK DEF AuthInv, CodeInv, LiveCodesFit, TypeOK, ChalRows
  <2>9. CodesFit' /\ CodeOpensOneSession'
    BY <1>1, <1>3, <2>2, <2>4 DEF AuthInv, CodeInv, CodesFit, CodeOpensOneSession
  <2>10. LiveCodesFit'
    <3>1. ASSUME NEW t \in Scopes, chal'[t].code # None
          PROVE  LET j == chal'[t].code IN
                 /\ issuance'[j].st = "gone" /\ issuance'[j].email = t.email
                 /\ issuance'[j].expires = chal'[t].expires /\ guesses[j] = chal'[t].attempts
                 /\ redeemed[j] = 0 /\ j \notin tainted
      <4>1. CASE t = s
        BY <2>2, <2>3, <2>4, <2>5, <2>7, <4>1
      <4>2. CASE t # s
        BY <2>4, <2>5, <2>8, <3>1, <4>2 DEF AuthInv, CodeInv, LiveCodesFit, MaybeCode
      <4> QED
        BY <4>1, <4>2
    <3> QED
      BY <1>1, <3>1 DEF LiveCodesFit
  <2>11. OnePlace'
    BY <2>3, <2>5, <2>8 DEF AuthInv, CodeInv, OnePlace
  <2>12. CallsFit' /\ call' \in [Calls -> CallRecs]
    BY <1>1, <2>6, EmptyRows, IdleFits, CallsGoOn DEF Leave
  <2>13. TypeOK'
    BY <1>1, <2>4, <2>5, <2>12 DEF AuthInv, TypeOK
  <2>14. PeopleInv' /\ SessionInv'
    BY <1>1, <2>6, PeopleStay
  <2> QED
    BY <2>9, <2>10, <2>11, <2>12, <2>13, <2>14 DEF AuthInv, CodeInv
<1> QED
  BY <1>2, <1>3

-----------------------------------------------------------------------------
(* What is typed is judged by what was looked up.                              *)

LEMMA JudgedKnown ==
  ASSUME AuthInv, NEW k \in Calls, At(k, "judging"), NEW o \in {"ok", "wrong_code"}, Judged(k, o) # {}
  PROVE  LET q == First(Judged(k, o))
             s == [plane |-> call[k].plane, purpose |-> q, email |-> call[k].email]
         IN  /\ q \in {"signup", "login"} /\ s \in Scopes
             /\ call[k] \in CallRecs /\ call[k].seen[q].code \in Codes
             /\ o = "ok" => call[k].seen[q].code = call[k].code
<1> DEFINE q == First(Judged(k, o))
           row == call[k].seen[q]
<1>1. call[k] \in CallRecs /\ CallFits(call[k], issuance) /\ call[k].pc = "judging"
  BY CallKnown DEF At
<1>2. q \in {"signup", "login"} /\ Outcome(row, call[k].code, call[k].at) = o
  <2>1. q \in Judged(k, o)
    BY DEF First, Judged
  <2> QED
    BY <2>1 DEF Judged
<1>3. row.code # None /\ (o = "ok" => row.code = call[k].code)
  <2> HIDE DEF row
  <2> QED
    BY <1>2 DEF Outcome
<1>4. row \in ChalRows
  BY <1>1, <1>2 DEF CallRecs
<1>5. row.code \in Codes
  BY <1>3, <1>4 DEF ChalRows, MaybeCode
<1>6. call[k].plane \in Planes /\ call[k].email \in Emails /\ (q = "signup" => call[k].plane = "org")
  BY <1>1, <1>3, EmptyRows DEF CallFits
<1> HIDE DEF q
<1>7. [plane |-> call[k].plane, purpose |-> q, email |-> call[k].email] \in Scopes
  BY <1>2, <1>6, ScopeRows DEF PurposesOf
<1> QED
  BY <1>1, <1>2, <1>3, <1>5, <1>7 DEF q

LEMMA ChargeKeeps ==
  ASSUME AuthInv, NEW k \in Calls, ChargeGuess(k) PROVE AuthInv'
<1> DEFINE q == First(Judged(k, "wrong_code"))
           i == call[k].seen[q].code
           s == [plane |-> call[k].plane, purpose |-> q, email |-> call[k].email]
           after == [call[k] EXCEPT !.seen[q] = NoChal]
<1>1. /\ At(k, "judging") /\ Judged(k, "wrong_code") # {}
      /\ UNCHANGED <<clock, cand, org, admins, issuance, sess, redeemed, tainted>>
      /\ IF chal[s].code = i
         THEN chal' = [chal EXCEPT ![s].attempts = @ + 1] /\ guesses' = [guesses EXCEPT ![i] = @ + 1]
         ELSE UNCHANGED <<chal, guesses>>
      /\ Leave(k) \/ call' = [call EXCEPT ![k].seen[q] = NoChal]
  BY DEF ChargeGuess, BumpAttempts
<1>2. /\ q \in {"signup", "login"} /\ s \in Scopes /\ i \in Codes
      /\ call[k] \in CallRecs /\ CallFits(call[k], issuance) /\ call \in [Calls -> CallRecs]
  BY <1>1, JudgedKnown, CallKnown
<1> HIDE DEF q, i, s
<1>3. Stable
  BY <1>1 DEF Stable
<1>4. CallsFit' /\ call' \in [Calls -> CallRecs]
  <2>1. CASE Leave(k)
    BY <1>1, <1>3, <2>1, EmptyRows, IdleFits, CallsGoOn DEF Leave
  <2>2. CASE call' = [call EXCEPT ![k].seen[q] = NoChal]
    <3>1. call' = [call EXCEPT ![k] = after]
      BY <1>2, <2>2
    <3>2. /\ after \in CallRecs /\ after.pc = call[k].pc /\ after.plane = call[k].plane
          /\ after.purpose = call[k].purpose /\ after.email = call[k].email /\ after.code = call[k].code
          /\ after.seen["signup"] \in {call[k].seen["signup"], NoChal}
      BY <1>2, EmptyRows DEF CallRecs
    <3> HIDE DEF after
    <3>3. CallFits(after, issuance')
      BY <1>1, <1>2, <3>2 DEF CallFits
    <3> QED
      BY <1>3, <3>1, <3>2, <3>3, CallsGoOn
  <2> QED
    BY <1>1, <2>1, <2>2
<1>5. chal \in [Scopes -> ChalRows] /\ guesses \in [Codes -> Nat]
  BY DEF AuthInv, TypeOK
<1>6. /\ chal' \in [Scopes -> ChalRows] /\ guesses' \in [Codes -> Nat] /\ CodeInv'
  <2>1. CASE chal[s].code # i
    BY <1>1, <1>5, <2>1 DEF AuthInv, CodeInv, CodesFit, LiveCodesFit, OnePlace, CodeOpensOneSession
  <2>2. CASE chal[s].code = i
    <3> DEFINE row == [chal[s] EXCEPT !.attempts = @ + 1]
    <3>1. chal' = [chal EXCEPT ![s] = row] /\ guesses' = [guesses EXCEPT ![i] = @ + 1]
      BY <1>1, <1>2, <1>5, <2>2
    <3>2. /\ row \in ChalRows /\ row.code = i /\ row.expires = chal[s].expires
          /\ row.attempts = chal[s].attempts + 1
      BY <1>2, <1>5, <2>2 DEF ChalRows
    <3> HIDE DEF row
    <3>3. /\ chal' \in [Scopes -> ChalRows] /\ guesses' \in [Codes -> Nat] /\ chal'[s] = row
          /\ \A t \in Scopes : t # s => chal'[t] = chal[t]
          /\ guesses'[i] = guesses[i] + 1 /\ \A j \in Codes : j # i => guesses'[j] = guesses[j]
      BY <1>2, <1>5, <3>1, <3>2
    <3>4. i # None /\ issuance[i].st = "gone"
      BY <1>2, <2>2, ConstantsOK DEF AuthInv, CodeInv, LiveCodesFit
    <3>5. CodesFit' /\ CodeOpensOneSession'
      BY <1>1, <3>3, <3>4 DEF AuthInv, CodeInv, CodesFit, CodeOpensOneSession
    <3>6. \A t \in Scopes : chal'[t].code = chal[t].code /\ chal'[t].expires = chal[t].expires
      BY <2>2, <3>2, <3>3
    <3>7. OnePlace'
      BY <3>6 DEF AuthInv, CodeInv, OnePlace
    <3>8. LiveCodesFit'
      <4>1. ASSUME NEW t \in Scopes, chal'[t].code # None
            PROVE  LET j == chal'[t].code IN
                   /\ issuance[j].st = "gone" /\ issuance[j].email = t.email
                   /\ issuance[j].expires = chal'[t].expires /\ guesses'[j] = chal'[t].attempts
                   /\ redeemed[j] = 0 /\ j \notin tainted
        <5>1. CASE t = s
          BY <1>2, <2>2, <3>2, <3>3, <3>4, <5>1 DEF AuthInv, CodeInv, LiveCodesFit
        <5>2. CASE t # s
          <6>1. chal[t].code # i
            BY <1>2, <2>2, <3>4, <5>2 DEF AuthInv, CodeInv, OnePlace
          <6>2. chal[t].code \in Codes
            BY <1>5, <3>6, <4>1 DEF ChalRows, MaybeCode
          <6> QED
            BY <3>3, <3>6, <4>1, <5>2, <6>1, <6>2 DEF AuthInv, CodeInv, LiveCodesFit
        <5> QED
          BY <5>1, <5>2
      <4> QED
        BY <1>1, <4>1 DEF LiveCodesFit
    <3> QED
      BY <3>3, <3>5, <3>7, <3>8 DEF CodeInv
  <2> QED
    BY <2>1, <2>2
<1>7. TypeOK'
  BY <1>1, <1>4, <1>6 DEF AuthInv, TypeOK
<1>8. PeopleInv' /\ SessionInv'
  BY <1>1, <1>3, PeopleStay
<1> QED
  BY <1>4, <1>6, <1>7, <1>8 DEF AuthInv

-----------------------------------------------------------------------------
(* People, organizations and sessions.                                         *)

\* The address a session's code was mailed to.
Proved(x) == issuance[sess[x].code].email

LEMMA SessionKnown ==
  ASSUME AuthInv, NEW x \in Sessions, sess[x].st = "live"
  PROVE  /\ Proved(x) \in Emails /\ Proved(x) # None /\ sess[x].code \in Codes
         /\ CASE sess[x].plane = "candidate" -> sess[x].who \in Owners(Proved(x))
              [] sess[x].plane = "org" -> sess[x].who = Proved(x) /\ HasOrg(Proved(x))
              [] OTHER -> sess[x].who = Proved(x) /\ Proved(x) \in admins
BY ConstantsOK DEF AuthInv, SessionInv, SessionsHaveCodes, SessionsBelongToProver, CodeInv, CodesFit, Proved

\* No code moves, no call goes on, and nobody who owns an address loses it.
LEMMA UploadKeeps ==
  ASSUME AuthInv, NEW k \in Calls, Upload(k) PROVE AuthInv'
<1> DEFINE e == call[k].email
           row == [NoCand EXCEPT !.st = "live", !.hint = e]
<1>1. /\ Leave(k) /\ call[k].pc = "resolved"
      /\ UNCHANGED <<clock, org, admins, issuance, chal, sess, redeemed, guesses, tainted>>
      /\ \/ UNCHANGED cand
         \/ \E c \in Candidates : cand[c].st = "free" /\ cand' = [cand EXCEPT ![c] = row]
  BY DEF Upload, At, history
<1>2. CASE UNCHANGED cand
  BY <1>1, <1>2, CallLeaves DEF history
<1>3. ASSUME NEW c \in Candidates, cand[c].st = "free", cand' = [cand EXCEPT ![c] = row]
      PROVE  AuthInv'
  <2>1. cand \in [Candidates -> CandRows] /\ e \in Emails
    BY <1>1, CallKnown DEF AuthInv, TypeOK, CallFits
  <2>2. row \in CandRows /\ row.login = None
    BY <2>1 DEF NoCand, CandRows, MaybeEmail
  <2> HIDE DEF row, e
  <2>3. cand' \in [Candidates -> CandRows] /\ cand'[c] = row /\ \A d \in Candidates : d # c => cand'[d] = cand[d]
    BY <1>3, <2>1, <2>2
  <2>4. Stable
    BY <1>1 DEF Stable
  <2>5. CallsFit' /\ call' \in [Calls -> CallRecs]
    BY <1>1, <2>4, EmptyRows, IdleFits, CallsGoOn DEF Leave
  <2>6. TypeOK'
    BY <1>1, <2>3, <2>5 DEF AuthInv, TypeOK
  <2>7. CodeInv'
    BY <1>1 DEF AuthInv, CodeInv, CodesFit, LiveCodesFit, OnePlace, CodeOpensOneSession
  <2>8. PeopleInv'
    BY <1>1, <2>2, <2>3 DEF AuthInv, PeopleInv, HintsAgree, OneOrganizationPerEmail
  <2>9. SessionsHaveCodes'
    BY <1>1 DEF AuthInv, SessionInv, SessionsHaveCodes
  <2>10. ASSUME NEW f PROVE Owners(f) \subseteq Owners(f)' /\ HasOrg(f)' = HasOrg(f)
    BY <1>1, <1>3, <2>3 DEF Owners, HasOrg
  <2>11. SessionsBelongToProver'
    BY <1>1, <2>10, SessionKnown DEF SessionsBelongToProver, Proved
  <2> QED
    BY <2>5, <2>6, <2>7, <2>8, <2>9, <2>11 DEF AuthInv, SessionInv
<1> QED
  BY <1>1, <1>2, <1>3

\* Whoever is established owns the address, and nobody loses one that was theirs.
LEMMA Established ==
  ASSUME AuthInv, NEW s \in Scopes, NEW who, MayEstablish(s), Establish(s, who), UNCHANGED admins
  PROVE  /\ cand' \in [Candidates -> CandRows] /\ org' \in [Names -> MaybeEmail \cup {NoOwner}] /\ PeopleInv'
         /\ who \in Candidates \cup MaybeEmail
         /\ \A f \in Emails : Owners(f) \subseteq Owners(f)' /\ (HasOrg(f) => HasOrg(f)')
         /\ CASE s.plane = "candidate" -> who \in Owners(s.email)'
              [] s.plane = "org" -> who = s.email /\ HasOrg(s.email)'
              [] OTHER -> who = s.email /\ s.email \in admins
<1> DEFINE e == s.email
<1>0. /\ cand \in [Candidates -> CandRows] /\ org \in [Names -> MaybeEmail \cup {NoOwner}] /\ e \in Emails /\ e # None
      /\ HintsAgree /\ OneOrganizationPerEmail /\ None \notin Candidates
      /\ \A t \in Scopes : chal[t].name \in MaybeName
  BY ScopeRows, ConstantsOK DEF AuthInv, TypeOK, PeopleInv, ChalRows
<1>1. CASE s.plane = "candidate"
  <2>1. MayClaim(e) /\ who \in Candidates /\ Claim(e, who) /\ UNCHANGED org
    BY <1>1 DEF MayEstablish, Establish
  <2>2. HasOrg(e)' = HasOrg(e) /\ \A f : HasOrg(f)' = HasOrg(f)
    BY <2>1 DEF HasOrg
  <2>3. OneOrganizationPerEmail'
    BY <1>0, <2>1 DEF OneOrganizationPerEmail
  <2> HIDE DEF e
  <2>4. CASE who \in Owners(e) /\ UNCHANGED cand
    BY <1>0, <1>1, <2>1, <2>2, <2>3, <2>4 DEF Owners, PeopleInv, HintsAgree, e
  <2>5. CASE Owners(e) = {} /\ who \in Hinted(e) /\ cand' = [cand EXCEPT ![who].login = e]
    <3> DEFINE row == [cand[who] EXCEPT !.login = e]
    <3>1. cand[who].login = None /\ cand[who].hint = e /\ cand[who].st = "live"
      BY <2>1, <2>5 DEF MayClaim, Hinted
    <3>2. row \in CandRows /\ row.login = e /\ row.hint = e /\ row.st = "live"
      BY <1>0, <2>1, <3>1 DEF CandRows, MaybeEmail
    <3>3. cand' = [cand EXCEPT ![who] = row]
      BY <1>0, <2>1, <2>5
    <3> HIDE DEF row
    <3>4. cand' \in [Candidates -> CandRows] /\ cand'[who] = row /\ \A d \in Candidates : d # who => cand'[d] = cand[d]
      BY <1>0, <2>1, <3>2, <3>3
    <3>5. who \in Owners(e)' /\ \A f \in Emails : Owners(f) \subseteq Owners(f)'
      BY <1>0, <2>1, <3>1, <3>2, <3>4, ConstantsOK DEF Owners
    <3>6. HintsAgree'
      BY <1>0, <3>2, <3>4 DEF HintsAgree
    <3> QED
      BY <1>0, <1>1, <2>1, <2>2, <2>3, <3>4, <3>5, <3>6 DEF PeopleInv, e
  <2>6. CASE /\ Owners(e) = {} /\ Hinted(e) = {} /\ cand[who].st = "free"
             /\ cand' = [cand EXCEPT ![who] = [st |-> "live", hint |-> e, login |-> e, review |-> FALSE]]
    <3> DEFINE row == [st |-> "live", hint |-> e, login |-> e, review |-> FALSE]
    <3>1. row \in CandRows /\ row.login = e /\ row.hint = e /\ row.st = "live"
      BY <1>0 DEF CandRows, MaybeEmail
    <3>2. cand' = [cand EXCEPT ![who] = row]
      BY <2>6
    <3> HIDE DEF row
    <3>3. cand' \in [Candidates -> CandRows] /\ cand'[who] = row /\ \A d \in Candidates : d # who => cand'[d] = cand[d]
      BY <1>0, <2>1, <3>1, <3>2
    <3>4. who \in Owners(e)' /\ \A f \in Emails : Owners(f) \subseteq Owners(f)'
      BY <1>0, <2>1, <2>6, <3>1, <3>3 DEF Owners
    <3>5. HintsAgree'
      BY <1>0, <3>1, <3>3 DEF HintsAgree
    <3> QED
      BY <1>0, <1>1, <2>1, <2>2, <2>3, <3>3, <3>4, <3>5 DEF PeopleInv, e
  <2> QED
    BY <2>1, <2>4, <2>5, <2>6 DEF Claim
<1>2. CASE s.plane = "org"
  <2> DEFINE n == chal[s].name
  <2>1. MayEnter(e, n) /\ who = e /\ Enter(e, n) /\ UNCHANGED cand
    BY <1>2 DEF MayEstablish, Establish
  <2>2. n \in MaybeName
    BY <1>0
  <2> HIDE DEF n, e
  <2>3. HintsAgree' /\ \A f : Owners(f)' = Owners(f)
    BY <1>0, <2>1 DEF HintsAgree, Owners
  <2>4. CASE HasOrg(e)
    <3>1. UNCHANGED org
      BY <2>1, <2>4 DEF Enter
    <3>2. OneOrganizationPerEmail' /\ \A f : HasOrg(f)' = HasOrg(f)
      BY <1>0, <3>1 DEF OneOrganizationPerEmail, HasOrg
    <3> QED
      BY <1>0, <1>2, <2>1, <2>3, <2>4, <3>1, <3>2 DEF PeopleInv, MaybeEmail, e
  <2>5. CASE ~HasOrg(e)
    <3>1. n \in Names /\ org[n] = None /\ org' = [org EXCEPT ![n] = e]
      BY <2>1, <2>2, <2>5 DEF MayEnter, Enter, MaybeName
    <3>2. org' \in [Names -> MaybeEmail \cup {NoOwner}] /\ org'[n] = e /\ \A m \in Names : m # n => org'[m] = org[m]
      BY <1>0, <3>1 DEF MaybeEmail
    <3>3. HasOrg(e)' /\ \A f \in Emails : HasOrg(f) => HasOrg(f)'
      BY <1>0, <3>1, <3>2, ConstantsOK DEF HasOrg
    <3>4. OneOrganizationPerEmail'
      <4>1. DOMAIN org = Names /\ DOMAIN org' = Names /\ \A m \in Names : org[m] # e
        BY <1>0, <2>5, <3>2 DEF HasOrg
      <4> QED
        BY <1>0, <3>2, <4>1 DEF OneOrganizationPerEmail
    <3> QED
      BY <1>0, <1>2, <2>1, <2>3, <3>2, <3>3, <3>4 DEF PeopleInv, MaybeEmail, e
  <2> QED
    BY <2>4, <2>5
<1>3. CASE s.plane \notin {"candidate", "org"}
  <2>1. who = e /\ e \in admins /\ UNCHANGED <<cand, org>>
    BY <1>3 DEF MayEstablish, Establish
  <2>2. HintsAgree' /\ OneOrganizationPerEmail' /\ \A f : Owners(f)' = Owners(f) /\ HasOrg(f)' = HasOrg(f)
    BY <1>0, <2>1 DEF HintsAgree, OneOrganizationPerEmail, Owners, HasOrg
  <2> QED
    BY <1>0, <1>3, <2>1, <2>2 DEF PeopleInv, MaybeEmail
<1> QED
  BY <1>1, <1>2, <1>3

LEMMA WonKnown ==
  ASSUME AuthInv, NEW k \in Calls, Redeem(k)
  PROVE  LET s == Won(k)
             i == call[k].code
         IN  /\ s \in Scopes /\ s.plane = call[k].plane /\ s.plane \in {"candidate", "org", "admin"}
             /\ i \in Codes /\ i # None /\ chal[s].code = i
             /\ issuance[i].st = "gone" /\ issuance[i].email = s.email /\ redeemed[i] = 0
             /\ guesses[i] < MaxAttempts /\ issuance[i].expires > clock
<1> DEFINE s == Won(k)
           i == call[k].code
<1>1. At(k, "judging") /\ Judged(k, "ok") # {} /\ Consumable(k)
  BY DEF Redeem
<1>2. s \in Scopes /\ i \in Codes /\ s.plane = call[k].plane
  BY <1>1, JudgedKnown DEF Won
<1>3. chal[s].code = i /\ chal[s].expires > clock /\ chal[s].attempts < MaxAttempts
  BY <1>1 DEF Consumable
<1>4. i # None
  BY <1>2, ConstantsOK
<1> HIDE DEF s, i
<1>5. /\ issuance[i].st = "gone" /\ issuance[i].email = s.email /\ redeemed[i] = 0
      /\ guesses[i] = chal[s].attempts /\ issuance[i].expires = chal[s].expires
  BY <1>2, <1>3, <1>4 DEF AuthInv, CodeInv, LiveCodesFit
<1>6. s.plane \in {"candidate", "org", "admin"}
  BY <1>2, ScopeRows
<1> QED
  BY <1>2, <1>3, <1>4, <1>5, <1>6 DEF s, i

LEMMA RedeemKeeps ==
  ASSUME AuthInv, NEW k \in Calls, Redeem(k) PROVE AuthInv'
<1>0. PICK s \in Scopes, i \in Codes : s = Won(k) /\ i = call[k].code
  BY WonKnown
<1>1. PICK who \in Candidates \cup {s.email}, x \in Sessions :
        /\ sess[x].st = "free" /\ Establish(s, who)
        /\ sess' = [sess EXCEPT ![x] = [st |-> "live", plane |-> s.plane, who |-> who, code |-> i]]
  BY <1>0 DEF Redeem
<1>2. /\ MayEstablish(s) /\ chal' = Clear({s}) /\ redeemed' = [redeemed EXCEPT ![i] = @ + 1] /\ Leave(k)
      /\ UNCHANGED <<clock, admins, issuance, guesses, tainted>>
  BY <1>0 DEF Redeem, history
<1>3. /\ s \in Scopes /\ s.plane \in {"candidate", "org", "admin"} /\ i \in Codes /\ i # None
      /\ chal[s].code = i /\ issuance[i].st = "gone" /\ issuance[i].email = s.email /\ redeemed[i] = 0
  BY <1>0, WonKnown
<1>4. /\ cand' \in [Candidates -> CandRows] /\ org' \in [Names -> MaybeEmail \cup {NoOwner}] /\ PeopleInv'
      /\ who \in Candidates \cup MaybeEmail
      /\ \A f \in Emails : Owners(f) \subseteq Owners(f)' /\ (HasOrg(f) => HasOrg(f)')
      /\ CASE s.plane = "candidate" -> who \in Owners(s.email)'
           [] s.plane = "org" -> who = s.email /\ HasOrg(s.email)'
           [] OTHER -> who = s.email /\ s.email \in admins
  BY <1>1, <1>2, <1>3, Established
<1>5. Stable
  BY <1>2 DEF Stable
<1>6. CallsFit' /\ call' \in [Calls -> CallRecs]
  BY <1>2, <1>5, EmptyRows, IdleFits, CallsGoOn DEF Leave
<1>7. /\ chal \in [Scopes -> ChalRows] /\ redeemed \in [Codes -> Nat] /\ sess \in [Sessions -> SessRows]
  BY DEF AuthInv, TypeOK
<1>8. /\ chal' \in [Scopes -> ChalRows] /\ chal'[s] = NoChal
      /\ \A t \in Scopes : t # s => chal'[t] = chal[t]
  BY <1>2, <1>3, <1>7, EmptyRows DEF Clear
<1>9. /\ redeemed' \in [Codes -> Nat] /\ redeemed'[i] = 1
      /\ \A j \in Codes : j # i => redeemed'[j] = redeemed[j]
  BY <1>2, <1>3, <1>7
<1>10. CodeInv'
  <2>1. CodesFit' /\ CodeOpensOneSession'
    BY <1>2, <1>3, <1>9 DEF AuthInv, CodeInv, CodesFit, CodeOpensOneSession
  <2>2. ASSUME NEW t \in Scopes, chal'[t].code # None
        PROVE  t # s /\ chal'[t] = chal[t] /\ chal[t].code \in Codes /\ chal[t].code # i
    <3>1. t # s /\ chal'[t] = chal[t]
      BY <1>8, <2>2, EmptyRows
    <3>2. chal[t].code \in Codes
      BY <1>7, <2>2, <3>1 DEF ChalRows, MaybeCode
    <3> QED
      BY <1>3, <3>1, <3>2 DEF AuthInv, CodeInv, OnePlace
  <2>3. LiveCodesFit'
    <3>1. ASSUME NEW t \in Scopes, chal'[t].code # None
          PROVE  LET j == chal'[t].code IN
                 /\ issuance[j].st = "gone" /\ issuance[j].email = t.email
                 /\ issuance[j].expires = chal'[t].expires /\ guesses[j] = chal'[t].attempts
                 /\ redeemed'[j] = 0 /\ j \notin tainted
      BY <1>9, <2>2, <3>1 DEF AuthInv, CodeInv, LiveCodesFit
    <3> QED
      BY <1>2, <3>1 DEF LiveCodesFit
  <2>4. OnePlace'
    BY <2>2 DEF AuthInv, CodeInv, OnePlace
  <2> QED
    BY <2>1, <2>3, <2>4 DEF CodeInv
<1> DEFINE row == [st |-> "live", plane |-> s.plane, who |-> who, code |-> i]
<1>11. row \in SessRows /\ row.plane = s.plane /\ row.who = who /\ row.code = i
  BY <1>3, <1>4 DEF SessRows, MaybeCode
<1>12. sess' = [sess EXCEPT ![x] = row]
  BY <1>1
<1> HIDE DEF row
<1>13. sess' \in [Sessions -> SessRows] /\ sess'[x] = row /\ \A y \in Sessions : y # x => sess'[y] = sess[y]
  BY <1>7, <1>11, <1>12
<1>14. TypeOK'
  BY <1>2, <1>4, <1>6, <1>8, <1>9, <1>13 DEF AuthInv, TypeOK
<1>15. SessionsHaveCodes'
  BY <1>2, <1>3, <1>11, <1>13 DEF AuthInv, SessionInv, SessionsHaveCodes
<1>16. ASSUME NEW y \in Sessions, sess'[y].st = "live"
       PROVE  \E e \in Emails :
                /\ issuance[sess'[y].code].email = e
                /\ CASE sess'[y].plane = "candidate" -> sess'[y].who \in Owners(e)'
                     [] sess'[y].plane = "org" -> sess'[y].who = e /\ HasOrg(e)'
                     [] OTHER -> sess'[y].who = e /\ e \in admins
  <2>1. CASE y = x
    BY <1>3, <1>4, <1>11, <1>13, <2>1, ScopeRows
  <2>2. CASE y # x
    <3>1. sess'[y] = sess[y] /\ sess[y].st = "live"
      BY <1>13, <1>16, <2>2
    <3>2. PICK e \in Emails : e = Proved(y)
      BY <3>1, SessionKnown
    <3> QED
      BY <1>4, <3>1, <3>2, SessionKnown DEF Proved
  <2> QED
    BY <2>1, <2>2
<1>17. SessionsBelongToProver'
  <2>1. SUFFICES ASSUME NEW y \in Sessions, sess'[y].st = "live"
                 PROVE  CASE sess'[y].plane = "candidate" -> sess'[y].who \in Owners(issuance[sess[y].code].email)'
                          [] sess'[y].plane = "org" -> sess'[y].who = issuance'[sess'[y].code].email
                                                        /\ HasOrg(issuance[sess[y].code].email)'
                          [] OTHER -> sess'[y].who = issuance'[sess'[y].code].email
                                        /\ issuance'[sess'[y].code].email \in admins'
    BY DEF SessionsBelongToProver
  <2>2. PICK e \in Emails :
          /\ issuance[sess'[y].code].email = e
          /\ CASE sess'[y].plane = "candidate" -> sess'[y].who \in Owners(e)'
               [] sess'[y].plane = "org" -> sess'[y].who = e /\ HasOrg(e)'
               [] OTHER -> sess'[y].who = e /\ e \in admins
    BY <1>16, <2>1
  <2> QED
    BY <1>2, <2>2 DEF Owners, HasOrg
<1> QED
  BY <1>4, <1>6, <1>10, <1>14, <1>15, <1>17 DEF AuthInv, SessionInv

\* When a principal goes, so do the sessions of theirs, and no other.
LEMMA SessionsEnd ==
  ASSUME AuthInv, NEW p, NEW who, EndSessions(p, who)
  PROVE  /\ sess' \in [Sessions -> SessRows]
         /\ \A x \in Sessions : sess'[x].st = "live" =>
              sess'[x] = sess[x] /\ ~(sess[x].plane = p /\ sess[x].who = who)
<1>1. sess \in [Sessions -> SessRows]
  BY DEF AuthInv, TypeOK
<1>2. NoSess \in SessRows /\ NoSess.st = "free"
  BY EmptyRows DEF NoSess
<1> QED
  BY <1>1, <1>2 DEF EndSessions

LEMMA DeleteCandidateKeeps ==
  ASSUME AuthInv, NEW c \in Candidates, DeleteCandidate(c) PROVE AuthInv'
<1> DEFINE S == UNION {Pending(e) : e \in Cleared(c)}
           T == UNION {ScopesOf(e) : e \in Cleared(c)}
           U == S \cup ({chal[s].code : s \in T} \ {None})
<1>1. /\ issuance' = Drop(S) /\ chal' = Clear(T) /\ tainted' = tainted \cup U
      /\ cand' = [cand EXCEPT ![c].st = "erased"] /\ EndSessions("candidate", c)
      /\ UNCHANGED <<clock, org, admins, call, redeemed, guesses>>
  BY DEF DeleteCandidate
<1>2. MayGo(S, T, U)
  <2>1. S \subseteq Codes /\ T \subseteq Scopes /\ \A i \in S : issuance[i].st = "reserved"
    BY DEF Pending, ScopesOf
  <2>2. \A s \in Scopes : chal[s].code \in MaybeCode /\ (chal[s].code # None => issuance[chal[s].code].st = "gone")
    BY DEF AuthInv, TypeOK, ChalRows, CodeInv, LiveCodesFit
  <2> HIDE DEF S, T
  <2>3. U \subseteq Codes
    BY <2>1, <2>2 DEF MaybeCode
  <2>4. ASSUME NEW i \in S PROVE \A s \in Scopes \ T : chal[s].code # i
    BY <2>1, <2>2, <2>4, ConstantsOK
  <2>5. ASSUME NEW t \in T, chal[t].code # None
        PROVE  issuance[chal[t].code].st = "gone" /\ \A s \in Scopes \ T : chal[s].code # chal[t].code
    BY <2>1, <2>2, <2>5 DEF AuthInv, CodeInv, OnePlace
  <2> QED
    BY <2>1, <2>3, <2>4, <2>5 DEF MayGo
<1> HIDE DEF S, T, U
<1>3. /\ issuance' \in [Codes -> IssuanceRows] /\ chal' \in [Scopes -> ChalRows]
      /\ tainted' \subseteq Codes /\ CodeInv' /\ Stable
  BY <1>1, <1>2, CodesGo
<1>4. /\ sess' \in [Sessions -> SessRows]
      /\ \A x \in Sessions : sess'[x].st = "live" =>
              sess'[x] = sess[x] /\ ~(sess[x].plane = "candidate" /\ sess[x].who = c)
  BY <1>1, SessionsEnd
<1> DEFINE row == [cand[c] EXCEPT !.st = "erased"]
<1>5. cand \in [Candidates -> CandRows]
  BY DEF AuthInv, TypeOK
<1>6. row \in CandRows /\ row.login = cand[c].login /\ row.hint = cand[c].hint /\ row.st = "erased"
  BY <1>5 DEF CandRows
<1>7. cand' = [cand EXCEPT ![c] = row]
  BY <1>1
<1> HIDE DEF row
<1>8. cand' \in [Candidates -> CandRows] /\ cand'[c] = row /\ \A d \in Candidates : d # c => cand'[d] = cand[d]
  BY <1>5, <1>6, <1>7
<1>9. CallsFit'
  BY <1>1, <1>3, CallsStay
<1>10. TypeOK'
  BY <1>1, <1>3, <1>4, <1>8 DEF AuthInv, TypeOK
<1>11. PeopleInv'
  BY <1>1, <1>6, <1>8 DEF AuthInv, PeopleInv, HintsAgree, OneOrganizationPerEmail
<1>12. SessionsHaveCodes'
  BY <1>3, <1>4 DEF AuthInv, SessionInv, SessionsHaveCodes, Stable
<1>13. SessionsBelongToProver'
  <2>1. ASSUME NEW x \in Sessions, sess'[x].st = "live"
        PROVE  \E e \in Emails :
                 /\ issuance'[sess'[x].code].email = e
                 /\ CASE sess'[x].plane = "candidate" -> sess'[x].who \in Owners(e)'
                      [] sess'[x].plane = "org" -> sess'[x].who = e /\ HasOrg(e)'
                      [] OTHER -> sess'[x].who = e /\ e \in admins
    <3>1. sess'[x] = sess[x] /\ sess[x].st = "live" /\ ~(sess[x].plane = "candidate" /\ sess[x].who = c)
      BY <1>4, <2>1
    <3>2. PICK e \in Emails : e = Proved(x)
      BY <3>1, SessionKnown
    <3>3. issuance'[sess'[x].code].email = e
      BY <1>3, <3>1, <3>2 DEF AuthInv, SessionInv, SessionsHaveCodes, Stable, Proved
    <3>4. \A d \in Candidates : d # c /\ d \in Owners(e) => d \in Owners(e)'
      BY <1>8 DEF Owners
    <3>5. HasOrg(e)' = HasOrg(e) /\ Owners(e) \subseteq Candidates
      BY <1>1 DEF HasOrg, Owners
    <3> QED
      BY <3>1, <3>2, <3>3, <3>4, <3>5, SessionKnown
  <2>2. ASSUME NEW x \in Sessions, sess'[x].st = "live"
        PROVE  CASE sess'[x].plane = "candidate" -> sess'[x].who \in Owners(issuance[sess[x].code].email)'
                 [] sess'[x].plane = "org" -> sess'[x].who = issuance'[sess'[x].code].email
                                               /\ HasOrg(issuance[sess[x].code].email)'
                 [] OTHER -> sess'[x].who = issuance'[sess'[x].code].email
                               /\ issuance'[sess'[x].code].email \in admins'
    BY <1>1, <2>1, <2>2 DEF Owners, HasOrg
  <2> QED
    BY <2>2 DEF SessionsBelongToProver
<1> QED
  BY <1>3, <1>9, <1>10, <1>11, <1>12, <1>13 DEF AuthInv, SessionInv

\* A hint is given to somebody who has proved nothing.
LEMMA RefreshKeeps ==
  ASSUME AuthInv, NEW c \in Candidates, NEW e \in Emails, RefreshIdentity(c, e) PROVE AuthInv'
<1> DEFINE row == [cand[c] EXCEPT !.hint = e]
<1>1. /\ cand \in [Candidates -> CandRows] /\ cand[c].login = None /\ cand' = [cand EXCEPT ![c] = row]
      /\ UNCHANGED <<clock, org, admins, issuance, chal, sess, call, redeemed, guesses, tainted>>
  BY DEF AuthInv, TypeOK, RefreshIdentity, history
<1>2. row \in CandRows /\ row.login = None /\ row.st = cand[c].st
  BY <1>1 DEF CandRows, MaybeEmail
<1> HIDE DEF row
<1>3. cand' \in [Candidates -> CandRows] /\ cand'[c] = row /\ \A d \in Candidates : d # c => cand'[d] = cand[d]
  BY <1>1, <1>2
<1>4. TypeOK'
  BY <1>1, <1>3 DEF AuthInv, TypeOK
<1>5. CallsFit' /\ CodeInv'
  BY <1>1 DEF AuthInv, CallsFit, CodeInv, CodesFit, LiveCodesFit, OnePlace, CodeOpensOneSession
<1>6. PeopleInv'
  BY <1>1, <1>2, <1>3 DEF AuthInv, PeopleInv, HintsAgree, OneOrganizationPerEmail
<1>7. SessionsHaveCodes'
  BY <1>1 DEF AuthInv, SessionInv, SessionsHaveCodes
<1>8. ASSUME NEW f PROVE Owners(f) = Owners(f)' /\ HasOrg(f)' = HasOrg(f)
  BY <1>1, <1>2, <1>3 DEF Owners, HasOrg
<1>9. SessionsBelongToProver'
  BY <1>1, <1>8, SessionKnown DEF SessionsBelongToProver, Proved
<1> QED
  BY <1>4, <1>5, <1>6, <1>7, <1>9 DEF AuthInv, SessionInv

\* Nobody but its owner has lost an organization when one goes.
LEMMA OrganizationsKeep ==
  ASSUME AuthInv, NEW n \in Names, CreateOrganization(n) \/ DeleteOrganization(n) PROVE AuthInv'
<1>1. UNCHANGED <<clock, cand, admins, issuance, chal, call, redeemed, guesses, tainted>>
  BY DEF CreateOrganization, DeleteOrganization, history
<1>2. /\ org \in [Names -> MaybeEmail \cup {NoOwner}] /\ sess \in [Sessions -> SessRows]
      /\ OneOrganizationPerEmail /\ NoOwner \notin Emails /\ None \notin Emails
  BY ConstantsOK DEF AuthInv, TypeOK, PeopleInv
<1>3. PICK o \in {None, NoOwner} : org' = [org EXCEPT ![n] = o]
  BY DEF CreateOrganization, DeleteOrganization
<1>4. /\ org' \in [Names -> MaybeEmail \cup {NoOwner}] /\ org'[n] \in {None, NoOwner}
      /\ \A m \in Names : m # n => org'[m] = org[m]
  BY <1>2, <1>3 DEF MaybeEmail
<1>5. OneOrganizationPerEmail'
  <2>1. DOMAIN org = Names /\ DOMAIN org' = Names
    BY <1>2, <1>4
  <2> QED
    BY <1>2, <1>4, <2>1 DEF OneOrganizationPerEmail
<1>6. /\ sess' \in [Sessions -> SessRows]
      /\ \A x \in Sessions : sess'[x].st = "live" =>
           sess'[x] = sess[x] /\ ~(sess[x].plane = "org" /\ sess[x].who \in Emails /\ sess[x].who = org[n])
  <2>1. CASE CreateOrganization(n)
    BY <1>2, <2>1 DEF CreateOrganization
  <2>2. CASE DeleteOrganization(n)
    BY <2>2, SessionsEnd DEF DeleteOrganization
  <2> QED
    BY <2>1, <2>2
<1>7. ASSUME NEW e \in Emails, HasOrg(e), e # org[n] PROVE HasOrg(e)'
  <2>1. PICK m \in Names : org[m] = e
    BY <1>2, <1>7 DEF HasOrg
  <2>2. m # n /\ org'[m] = e /\ m \in DOMAIN org'
    BY <1>4, <1>7, <2>1
  <2> QED
    BY <2>2 DEF HasOrg
<1>8. TypeOK'
  BY <1>1, <1>4, <1>6 DEF AuthInv, TypeOK
<1>9. CallsFit' /\ CodeInv' /\ HintsAgree'
  BY <1>1 DEF AuthInv, CallsFit, CodeInv, CodesFit, LiveCodesFit, OnePlace, CodeOpensOneSession, PeopleInv, HintsAgree
<1>10. SessionsHaveCodes'
  BY <1>1, <1>6 DEF AuthInv, SessionInv, SessionsHaveCodes
<1>11. ASSUME NEW x \in Sessions, sess'[x].st = "live"
       PROVE  \E e \in Emails :
                /\ issuance'[sess'[x].code].email = e
                /\ CASE sess'[x].plane = "candidate" -> sess'[x].who \in Owners(e)'
                     [] sess'[x].plane = "org" -> sess'[x].who = e /\ HasOrg(e)'
                     [] OTHER -> sess'[x].who = e /\ e \in admins'
  <2>1. sess'[x] = sess[x] /\ sess[x].st = "live"
    BY <1>6, <1>11
  <2>2. PICK e \in Emails : e = Proved(x)
    BY <2>1, SessionKnown
  <2>3. issuance'[sess'[x].code].email = e /\ Owners(e)' = Owners(e)
    BY <1>1, <2>1, <2>2 DEF Proved, Owners
  <2>4. sess[x].plane = "org" => sess[x].who = e /\ HasOrg(e) /\ e # org[n]
    BY <1>6, <1>11, <2>1, <2>2, SessionKnown
  <2> QED
    BY <1>1, <1>7, <2>1, <2>2, <2>3, <2>4, SessionKnown
<1>12. SessionsBelongToProver'
  <2>1. ASSUME NEW x \in Sessions, sess'[x].st = "live"
        PROVE  CASE sess'[x].plane = "candidate" -> sess'[x].who \in Owners(issuance[sess[x].code].email)'
                 [] sess'[x].plane = "org" -> sess'[x].who = issuance'[sess'[x].code].email
                                               /\ HasOrg(issuance[sess[x].code].email)'
                 [] OTHER -> sess'[x].who = issuance'[sess'[x].code].email
                               /\ issuance'[sess'[x].code].email \in admins'
    BY <1>11, <2>1 DEF Owners, HasOrg
  <2> QED
    BY <2>1 DEF SessionsBelongToProver
<1> QED
  BY <1>5, <1>8, <1>9, <1>10, <1>12 DEF AuthInv, PeopleInv, SessionInv

\* Operators come and go, sessions are ended, time passes: no code and no call is touched.
LEMMA AccountsKeep ==
  ASSUME AuthInv, UNCHANGED <<cand, org, issuance, chal, call, history>>, clock' \in Nat,
         admins' \subseteq Emails, sess' \in [Sessions -> SessRows],
         \A x \in Sessions : sess'[x].st = "live" =>
           sess'[x] = sess[x] /\ (sess[x].plane \notin {"candidate", "org"} => sess[x].who \in admins \cap admins' \/ sess[x].who \notin admins)
  PROVE  AuthInv'
<1>1. TypeOK'
  BY DEF AuthInv, TypeOK, history
<1>2. CallsFit' /\ CodeInv' /\ PeopleInv'
  BY DEF AuthInv, CallsFit, CodeInv, CodesFit, LiveCodesFit, OnePlace, CodeOpensOneSession, PeopleInv, HintsAgree,
         OneOrganizationPerEmail, history
<1>3. SessionsHaveCodes'
  BY DEF AuthInv, SessionInv, SessionsHaveCodes
<1>4. \A e : Owners(e)' = Owners(e) /\ HasOrg(e)' = HasOrg(e)
  BY DEF Owners, HasOrg
<1>5. SessionsBelongToProver'
  BY <1>4 DEF AuthInv, SessionInv, SessionsBelongToProver
<1> QED
  BY <1>1, <1>2, <1>3, <1>5 DEF AuthInv, SessionInv

LEMMA WorldKeeps ==
  ASSUME AuthInv
  PROVE  /\ \A e \in Emails : CreateAdmin(e) \/ DeleteAdmin(e) => AuthInv'
         /\ \A x \in Sessions : Revoke(x) => AuthInv'
         /\ Tick => AuthInv'
         /\ UNCHANGED vars => AuthInv'
<1>1. /\ clock \in Nat /\ admins \subseteq Emails /\ sess \in [Sessions -> SessRows]
      /\ \A x \in Sessions : sess[x].plane \notin {"candidate", "org"} /\ sess[x].st = "live" =>
           sess[x].plane = "admin" /\ sess[x].who \in admins
  BY SessionKnown DEF AuthInv, TypeOK, SessRows
<1>2. ASSUME NEW e \in Emails, CreateAdmin(e) PROVE AuthInv'
  BY <1>1, <1>2, AccountsKeep DEF CreateAdmin, history
<1>3. ASSUME NEW e \in Emails, DeleteAdmin(e) PROVE AuthInv'
  <2>1. /\ UNCHANGED <<clock, cand, org, issuance, chal, call, history>> /\ admins' = admins \ {e}
        /\ EndSessions("admin", e)
    BY <1>3 DEF DeleteAdmin
  <2>2. /\ sess' \in [Sessions -> SessRows]
        /\ \A x \in Sessions : sess'[x].st = "live" =>
              sess'[x] = sess[x] /\ ~(sess[x].plane = "admin" /\ sess[x].who = e)
    BY <2>1, SessionsEnd
  <2> QED
    BY <1>1, <2>1, <2>2, AccountsKeep
<1>4. ASSUME NEW x \in Sessions, Revoke(x) PROVE AuthInv'
  <2>1. NoSess \in SessRows /\ NoSess.st = "free"
    BY EmptyRows DEF NoSess
  <2>2. sess' = [sess EXCEPT ![x] = NoSess]
    BY <1>4 DEF Revoke
  <2>3. sess' \in [Sessions -> SessRows] /\ \A y \in Sessions : sess'[y].st = "live" => sess'[y] = sess[y]
    BY <1>1, <2>1, <2>2
  <2> QED
    BY <1>1, <1>4, <2>3, AccountsKeep DEF Revoke
<1>5. ASSUME Tick PROVE AuthInv'
  BY <1>1, <1>5, AccountsKeep DEF Tick
<1>6. ASSUME UNCHANGED vars PROVE AuthInv'
  BY <1>1, <1>6, AccountsKeep DEF vars, history
<1> QED
  BY <1>2, <1>3, <1>4, <1>5, <1>6

LEMMA AuthSteps ==
  AuthInv /\ [Next]_vars => AuthInv'
<1> SUFFICES ASSUME AuthInv, [Next]_vars PROVE AuthInv'
  OBVIOUS
<1>1. ASSUME NEW k \in Calls, Asks(k) PROVE AuthInv'
  BY <1>1, RequestKeeps, BeginVerifyKeeps, BeginUploadKeeps DEF Asks
<1>2. ASSUME NEW k \in Calls, Issues(k) PROVE AuthInv'
  BY <1>2, TestCooldownKeeps, ReserveKeeps, ActivateKeeps, CancelKeeps DEF Issues
<1>3. ASSUME NEW k \in Calls, Verifies(k) PROVE AuthInv'
  BY <1>3, LookAgainKeeps, ChargeKeeps, CallsGiveUp, RedeemKeeps DEF Verifies
<1>4. ASSUME NEW k \in Calls, Upload(k) \/ Crash(k) PROVE AuthInv'
  BY <1>4, UploadKeeps, CallsGiveUp
<1>5. ASSUME NEW c \in Candidates, DeleteCandidate(c) PROVE AuthInv'
  BY <1>5, DeleteCandidateKeeps
<1> QED
  BY <1>1, <1>2, <1>3, <1>4, <1>5, RefreshKeeps, OrganizationsKeep, WorldKeeps DEF Next

-----------------------------------------------------------------------------
(* What is so of every login.                                                  *)

\* A code has no history until it is sent, stands in one place afterwards, and calls in
\* flight and sessions know codes by their addresses (`auth/service.py`, `auth/store.py`).
THEOREM AuthInvariance == Spec => []AuthInv
BY AuthStarts, AuthSteps, PTL DEF Spec

\* Rows, calls in flight and their history keep their types.
THEOREM AuthTyped == Spec => []TypeOK
<1>1. AuthInv => TypeOK
  BY DEF AuthInv
<1> QED
  BY <1>1, AuthInvariance, PTL

\* A code is single-use however many redemptions of it overlap: the row is consumed in
\* the transaction that opens the session (`consume_challenge`).
THEOREM CodesOpenOneSession == Spec => []CodeOpensOneSession
<1>1. AuthInv => CodeOpensOneSession
  BY DEF AuthInv, CodeInv
<1> QED
  BY <1>1, AuthInvariance, PTL

\* What was reserved, in the mail or live when its address was erased never becomes or
\* stays a live code (`_clear_login_state`, `activate_issuance`).
THEOREM ErasedCodesStayDead == Spec => []ErasureCancelsCodes
<1>1. AuthInv => ErasureCancelsCodes
  BY ConstantsOK DEF AuthInv, TypeOK, CodeInv, LiveCodesFit, ErasureCancelsCodes
<1> QED
  BY <1>1, AuthInvariance, PTL

\* A session that can be used belongs to somebody who is there and is bound to the
\* address its code was mailed to (`bind_verified_login_email`, the foreign keys of
\* `auth_sessions`).
THEOREM SessionsAreProved == Spec => []SessionsBelongToProver
<1>1. AuthInv => SessionsBelongToProver
  BY DEF AuthInv, SessionInv
<1> QED
  BY <1>1, AuthInvariance, PTL

\* Two codes of one address never found two organizations: the owner is looked up again
\* in the transaction that would create one.
THEOREM OrganizationsAreFew == Spec => []OneOrganizationPerEmail
<1>1. AuthInv => OneOrganizationPerEmail
  BY DEF AuthInv, PeopleInv
<1> QED
  BY <1>1, AuthInvariance, PTL

-----------------------------------------------------------------------------
(* What a step may never do.                                                   *)

LEMMA WhoRedeems ==
  ASSUME [Next]_vars, redeemed' # redeemed PROVE \E k \in Calls : Redeem(k)
<1>1. Next
  BY DEF vars, history
<1>2. ASSUME NEW k \in Calls, Asks(k) \/ Issues(k) \/ Upload(k) \/ Crash(k) PROVE FALSE
  BY <1>2 DEF Asks, Issues, Upload, Crash, Request, BeginVerify, BeginUpload, TestCooldown, ReserveIssuance,
              ActivateIssuance, CancelIssuance, history
<1>3. ASSUME NEW k \in Calls, Verifies(k) PROVE Redeem(k)
  BY <1>3 DEF Verifies, LookAgain, ChargeGuess, NothingToCharge, RefuseRedemption, history
<1> QED
  BY <1>1, <1>2, <1>3 DEF Next, DeleteCandidate, RefreshIdentity, CreateOrganization, DeleteOrganization,
                           CreateAdmin, DeleteAdmin, Revoke, Tick, history

LEMMA WhoTouchesCodes ==
  ASSUME [Next]_vars, chal' # chal
  PROVE  \/ \E k \in Calls : \/ ActivateIssuance(k) \/ ChargeGuess(k) \/ Redeem(k)
                             \/ \E s \in Scopes, n \in MaybeName : Request(k, s, n)
         \/ \E c \in Candidates : DeleteCandidate(c)
<1>1. Next
  BY DEF vars, history
<1>2. ASSUME NEW k \in Calls, Asks(k) PROVE \E s \in Scopes, n \in MaybeName : Request(k, s, n)
  BY <1>2 DEF Asks, BeginVerify, BeginUpload
<1>3. ASSUME NEW k \in Calls, Issues(k) PROVE ActivateIssuance(k)
  BY <1>3 DEF Issues, TestCooldown, ReserveIssuance, CancelIssuance
<1>4. ASSUME NEW k \in Calls, Verifies(k) PROVE ChargeGuess(k) \/ Redeem(k)
  BY <1>4 DEF Verifies, LookAgain, NothingToCharge, RefuseRedemption
<1>5. ASSUME NEW k \in Calls, Upload(k) \/ Crash(k) PROVE FALSE
  BY <1>5 DEF Upload, Crash
<1> QED
  BY <1>1, <1>2, <1>3, <1>4, <1>5 DEF Next, RefreshIdentity, CreateOrganization, DeleteOrganization,
                                      CreateAdmin, DeleteAdmin, Revoke, Tick

LEMMA WhoTouchesPeople ==
  ASSUME [Next]_vars, cand' # cand
  PROVE  \/ \E k \in Calls : Upload(k) \/ Redeem(k)
         \/ \E c \in Candidates : DeleteCandidate(c) \/ \E e \in Emails : RefreshIdentity(c, e)
<1>1. Next
  BY DEF vars
<1>2. ASSUME NEW k \in Calls, Asks(k) \/ Issues(k) \/ Crash(k) PROVE FALSE
  BY <1>2 DEF Asks, Issues, Crash, Request, BeginVerify, BeginUpload, TestCooldown, ReserveIssuance,
              ActivateIssuance, CancelIssuance
<1>3. ASSUME NEW k \in Calls, Verifies(k) PROVE Redeem(k)
  BY <1>3 DEF Verifies, LookAgain, ChargeGuess, NothingToCharge, RefuseRedemption
<1> QED
  BY <1>1, <1>2, <1>3 DEF Next, CreateOrganization, DeleteOrganization, CreateAdmin, DeleteAdmin, Revoke, Tick

\* A code opens a session only within its lifetime and its budget as they are then: no
\* wrong guess is lost, and none charged after the look-up is overlooked.
THEOREM RedemptionsAreInTime == Spec => RedeemedInTime
<1> DEFINE A == \A i \in Codes : redeemed'[i] > redeemed[i] =>
                  guesses[i] < MaxAttempts /\ issuance[i].expires > clock
<1>1. ASSUME AuthInv, [Next]_vars PROVE [A]_vars
  <2>1. SUFFICES ASSUME NEW i \in Codes, redeemed'[i] > redeemed[i]
                 PROVE  guesses[i] < MaxAttempts /\ issuance[i].expires > clock
    OBVIOUS
  <2>2. redeemed \in [Codes -> Nat]
    BY <1>1 DEF AuthInv, TypeOK
  <2>3. redeemed' # redeemed
    BY <2>1, <2>2
  <2>4. PICK k \in Calls : Redeem(k)
    BY <1>1, <2>3, WhoRedeems
  <2>5. redeemed' = [redeemed EXCEPT ![call[k].code] = @ + 1]
    BY <2>4 DEF Redeem
  <2>6. i = call[k].code
    BY <2>1, <2>2, <2>5
  <2> QED
    BY <1>1, <2>4, <2>6, WonKnown
<1> QED
  BY <1>1, AuthInvariance, PTL DEF Spec, RedeemedInTime

\* A live code goes by being redeemed, replaced, expired or erased: no refusal spends it,
\* for it is consumed in the transaction that the refusal rolls back.
THEOREM RefusalsSpendNothing == Spec => CodesAreNotLost
<1> DEFINE A == \A s \in DOMAIN chal :
                  LET i == chal[s].code IN
                  i # None /\ chal'[s].code = None =>
                    redeemed'[i] > redeemed[i] \/ chal[s].expires <= clock \/ i \in tainted'
<1>1. ASSUME AuthInv, [Next]_vars PROVE [A]_vars
  <2>0. /\ chal \in [Scopes -> ChalRows] /\ DOMAIN chal = Scopes /\ redeemed \in [Codes -> Nat]
    BY <1>1 DEF AuthInv, TypeOK
  <2>1. SUFFICES ASSUME NEW s \in Scopes, chal[s].code # None, chal'[s].code = None
                 PROVE  \/ redeemed'[chal[s].code] > redeemed[chal[s].code]
                        \/ chal[s].expires <= clock \/ chal[s].code \in tainted'
    BY <2>0
  <2>2. chal' # chal
    BY <2>1
  <2>3. ASSUME NEW k \in Calls, NEW t \in Scopes, NEW n \in MaybeName, Request(k, t, n)
        PROVE  chal[s].expires <= clock
    BY <2>0, <2>1, <2>3 DEF Request, Clear
  <2>4. ASSUME NEW k \in Calls, ActivateIssuance(k) PROVE FALSE
    <3>1. call[k].code \in Codes /\ call[k].code # None
      BY <1>1, <2>4, SendingKnown, ConstantsOK DEF ActivateIssuance
    <3>2. \/ UNCHANGED chal
          \/ chal' = [chal EXCEPT ![Scope(k)] = [code |-> call[k].code, expires |-> issuance[call[k].code].expires,
                                                 attempts |-> 0, sent |-> call[k].at, name |-> call[k].name]]
      BY <2>4 DEF ActivateIssuance
    <3> QED
      BY <2>0, <2>1, <3>1, <3>2
  <2>5. ASSUME NEW k \in Calls, ChargeGuess(k) PROVE FALSE
    <3>1. PICK t : chal' = [chal EXCEPT ![t].attempts = @ + 1] \/ UNCHANGED chal
      BY <2>5 DEF ChargeGuess, BumpAttempts
    <3> QED
      BY <2>0, <2>1, <3>1 DEF ChalRows
  <2>6. ASSUME NEW k \in Calls, Redeem(k) PROVE redeemed'[chal[s].code] > redeemed[chal[s].code]
    <3>1. chal[Won(k)].code = call[k].code /\ call[k].code \in Codes
      BY <1>1, <2>6, WonKnown
    <3>2. chal' = Clear({Won(k)}) /\ redeemed' = [redeemed EXCEPT ![call[k].code] = @ + 1]
      BY <2>6 DEF Redeem
    <3>3. s = Won(k)
      BY <2>0, <2>1, <3>2 DEF Clear
    <3> QED
      BY <2>0, <3>1, <3>2, <3>3
  <2>7. ASSUME NEW c \in Candidates, DeleteCandidate(c) PROVE chal[s].code \in tainted'
    <3> DEFINE T == UNION {ScopesOf(e) : e \in Cleared(c)}
    <3>1. chal' = Clear(T) /\ ({chal[t].code : t \in T} \ {None}) \subseteq tainted'
      BY <2>7 DEF DeleteCandidate
    <3> HIDE DEF T
    <3>2. s \in T
      BY <2>0, <2>1, <3>1 DEF Clear
    <3> QED
      BY <2>1, <3>1, <3>2
  <2> QED
    BY <1>1, <2>2, <2>3, <2>4, <2>5, <2>6, <2>7, WhoTouchesCodes
<1> QED
  BY <1>1, AuthInvariance, PTL DEF Spec, CodesAreNotLost

\* Uploads and logins of one address make one candidate between them: none is ever
\* created beside exactly one, for the address somebody proved is their hint.
THEOREM NobodyIsDoubled == Spec => OneCandidatePerEmail
<1> DEFINE A == \A c \in DOMAIN cand : cand[c].st = "free" /\ cand'[c].st = "live" =>
                  ~ \E d \in Candidates : Hinted(cand'[c].hint) = {d}
<1>1. ASSUME AuthInv, [Next]_vars PROVE [A]_vars
  <2>0. cand \in [Candidates -> CandRows] /\ DOMAIN cand = Candidates /\ None \notin Candidates
    BY <1>1, ConstantsOK DEF AuthInv, TypeOK
  <2>1. SUFFICES ASSUME NEW c \in Candidates, cand[c].st = "free", cand'[c].st = "live",
                        NEW d \in Candidates, Hinted(cand'[c].hint) = {d}
                 PROVE  FALSE
    BY <2>0
  <2>2. cand' # cand
    BY <2>1
  <2>3. ASSUME NEW k \in Calls, Upload(k) PROVE FALSE
    <3> DEFINE e == call[k].email
    <3>1. PICK f \in Candidates : /\ Match(e) = None
                                  /\ cand' = [cand EXCEPT ![f] = [NoCand EXCEPT !.st = "live", !.hint = e]]
      BY <2>2, <2>3 DEF Upload
    <3>2. cand'[c].hint = e
      BY <2>0, <2>1, <3>1 DEF NoCand
    <3> HIDE DEF e
    <3>3. Hinted(e) = {d} /\ cand[d].hint = e /\ cand[d].login \in {None, e}
      BY <1>1, <2>1, <3>2 DEF Hinted, AuthInv, PeopleInv, HintsAgree
    <3>4. Match(e) \in Hinted(e)
      BY <3>3 DEF Match
    <3> QED
      BY <2>0, <3>1, <3>3, <3>4
  <2>4. ASSUME NEW k \in Calls, Redeem(k) PROVE FALSE
    <3>1. PICK who : Establish(Won(k), who)
      BY <2>4 DEF Redeem
    <3> DEFINE e == Won(k).email
    <3>2. who \in Candidates /\ Claim(e, who)
      BY <2>2, <3>1 DEF Establish
    <3> HIDE DEF e
    <3>3. CASE who \in Owners(e) /\ UNCHANGED cand
      BY <2>2, <3>3
    <3>4. CASE who \in Hinted(e) /\ cand' = [cand EXCEPT ![who].login = e]
      BY <2>0, <2>1, <3>2, <3>4 DEF CandRows
    <3>5. CASE /\ Hinted(e) = {}
               /\ cand' = [cand EXCEPT ![who] = [st |-> "live", hint |-> e, login |-> e, review |-> FALSE]]
      BY <2>0, <2>1, <3>2, <3>5
    <3> QED
      BY <3>2, <3>3, <3>4, <3>5 DEF Claim
  <2>5. ASSUME NEW f \in Candidates, DeleteCandidate(f) PROVE FALSE
    BY <2>0, <2>1, <2>5 DEF DeleteCandidate, CandRows
  <2>6. ASSUME NEW f \in Candidates, NEW e \in Emails, RefreshIdentity(f, e) PROVE FALSE
    BY <2>0, <2>1, <2>6 DEF RefreshIdentity, CandRows
  <2> QED
    BY <1>1, <2>2, <2>3, <2>4, <2>5, <2>6, WhoTouchesPeople
<1> QED
  BY <1>1, AuthInvariance, PTL DEF Spec, OneCandidatePerEmail

=============================================================================
