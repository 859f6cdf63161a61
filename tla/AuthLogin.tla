----------------------------- MODULE AuthLogin -----------------------------
(***************************************************************************)
(* Login by one-time code on the candidate, organisation and operator      *)
(* planes.  A request for a code reserves it, mails it and activates it in *)
(* three steps; a redemption looks the codes up, judges what was typed and *)
(* then either charges the guess or consumes the code, establishes the     *)
(* principal and opens the session in one transaction.  Reservation,       *)
(* activation, redemption, uploads of unknown people and erasure are       *)
(* ordered by the lock on the address (`lock_login_state`).                *)
(*                                                                         *)
(* One action per committed transaction.  A code is named by its           *)
(* reservation: distinct codes never collide here, and a code typed is one *)
(* that was mailed to somebody or a wrong one (None).                      *)
(***************************************************************************)
EXTENDS Integers, FiniteSets

CONSTANTS
  Planes,          \* the planes of this instance: whose accounts come and go, who logs in
  Emails,          \* address hashes
  Names,           \* organization names
  Codes,           \* login_issuances ids, each used at most once
  Candidates,
  Sessions,        \* room for auth_sessions that are live at a time
  Calls,           \* requests for a code, redemptions and uploads in flight
  None,
  NoOwner,         \* the owner of an organization an operator made
  TTL, Cooldown, MaxAttempts,   \* login_otp_* settings
  MaxClock         \* bound on the environment's clock

ASSUME ConstantsOK ==
  /\ Planes \subseteq {"candidate", "org", "admin"}
  /\ IsFiniteSet(Candidates)
  /\ {None, NoOwner} \cap (Emails \cup Names \cup Codes \cup Candidates) = {}
  /\ NoOwner # None
  /\ TTL \in Nat \ {0} /\ Cooldown \in Nat /\ MaxAttempts \in Nat \ {0} /\ MaxClock \in Nat

VARIABLES
  clock,
  cand,      \* candidates: hint is email_hash, login is login_email_hash
  org,       \* organizations by name: the owner's address, None if there is none of that name
  admins,    \* addresses of admin_users
  issuance,  \* login_issuances
  chal,      \* login_challenges, one row per scope
  sess,      \* auth_sessions
  call,      \* one record per call in flight
  redeemed,  \* history: sessions opened with a code
  guesses,   \* history: wrong guesses charged to a code
  tainted    \* history: codes pending or live when their address was erased

history == <<redeemed, guesses, tainted>>
vars == <<clock, cand, org, admins, issuance, chal, sess, call, redeemed, guesses, tainted>>

\* Candidates sign up and log in under one purpose; nobody signs up as operator.
PurposesOf(p) == IF p = "org" THEN {"signup", "login"} ELSE {"login"}
Scopes == UNION {[plane: {p}, purpose: PurposesOf(p), email: Emails] : p \in Planes}

MaybeEmail == Emails \cup {None}
MaybeName == Names \cup {None}
MaybeCode == Codes \cup {None}

NoCand == [st |-> "free", hint |-> None, login |-> None, review |-> FALSE]
NoIssuance == [st |-> "free", email |-> None, expires |-> 0]
NoChal == [code |-> None, expires |-> 0, attempts |-> 0, sent |-> 0, name |-> None]
NoSess == [st |-> "free", plane |-> "candidate", who |-> None, code |-> None]
Idle == [pc |-> "idle", plane |-> "candidate", purpose |-> "login", email |-> None, name |-> None,
         at |-> 0, code |-> None, seen |-> [q \in {"signup", "login"} |-> NoChal], match |-> None]

CandRows == [st: {"free", "live", "erased"}, hint: MaybeEmail, login: MaybeEmail, review: BOOLEAN]
IssuanceRows == [st: {"free", "reserved", "gone"}, email: MaybeEmail, expires: Nat]
ChalRows == [code: MaybeCode, expires: Nat, attempts: Nat, sent: Nat, name: MaybeName]
SessRows == [st: {"free", "live"}, plane: {"candidate", "org", "admin"},
             who: Candidates \cup MaybeEmail, code: MaybeCode]
CallRecs == [pc: {"idle", "asked", "allowed", "sending", "looking", "judging", "resolved"},
             plane: {"candidate", "org", "admin"}, purpose: {"signup", "login"},
             email: MaybeEmail, name: MaybeName, at: Nat, code: MaybeCode,
             seen: [{"signup", "login"} -> ChalRows], match: Candidates \cup {None}]

TypeOK ==
  /\ clock \in Nat
  /\ cand \in [Candidates -> CandRows]
  /\ org \in [Names -> MaybeEmail \cup {NoOwner}]
  /\ admins \subseteq Emails
  /\ issuance \in [Codes -> IssuanceRows]
  /\ chal \in [Scopes -> ChalRows]
  /\ sess \in [Sessions -> SessRows]
  /\ call \in [Calls -> CallRecs]
  /\ redeemed \in [Codes -> Nat]
  /\ guesses \in [Codes -> Nat]
  /\ tainted \subseteq Codes

\* Candidates may exist before anybody logs in, made from resumes and possibly
\* sharing a hint or without one, or under review since migration 0029.
Init ==
  /\ clock = 0
  /\ cand \in [Candidates -> {NoCand} \cup [st: {"live"}, hint: MaybeEmail, login: {None}, review: BOOLEAN]]
  /\ org = [n \in Names |-> None]
  /\ admins = {}
  /\ issuance = [i \in Codes |-> NoIssuance]
  /\ chal = [s \in Scopes |-> NoChal]
  /\ sess = [x \in Sessions |-> NoSess]
  /\ call = [k \in Calls |-> Idle]
  /\ redeemed = [i \in Codes |-> 0]
  /\ guesses = [i \in Codes |-> 0]
  /\ tainted = {}

-----------------------------------------------------------------------------
(* Calls in flight, rows of an address. *)

At(k, pc) == call[k].pc = pc
Leave(k) == call' = [call EXCEPT ![k] = Idle]
Goto(k, pc) == call' = [call EXCEPT ![k].pc = pc]
Scope(k) == [plane |-> call[k].plane, purpose |-> call[k].purpose, email |-> call[k].email]

ScopesOf(e) == {s \in Scopes : s.email = e}
Pending(e) == {i \in Codes : issuance[i].st = "reserved" /\ issuance[i].email = e}

Drop(S) == [i \in Codes |-> IF i \in S THEN [issuance[i] EXCEPT !.st = "gone"] ELSE issuance[i]]
Clear(S) == [s \in Scopes |-> IF s \in S THEN NoChal ELSE chal[s]]

Owners(e) == {c \in Candidates : cand[c].st = "live" /\ cand[c].login = e}
Hinted(e) == {c \in Candidates : cand[c].st = "live" /\ cand[c].hint = e}
HasOrg(e) == \E n \in DOMAIN org : org[n] = e

-----------------------------------------------------------------------------
(* AuthService.issue_code. *)

\* Whether there is anything to send: always to a candidate, else a signup for
\* a new address or a login for a known one.
Sendable(p, q, e) ==
  CASE p = "candidate" -> TRUE
    [] p = "org" -> (q = "login") = HasOrg(e)
    [] OTHER -> e \in admins

\* The name of a new organization is looked up, what has expired for the
\* address is purged, and the account is looked up.  (A name that is taken in
\* between is as good as one taken right after: redemption looks again.)
Request(k, s, n) ==
  /\ At(k, "idle")
  /\ IF s.purpose = "signup" THEN n \in Names /\ org[n] = None ELSE n = None
  /\ issuance' = Drop({i \in Pending(s.email) : issuance[i].expires <= clock})
  /\ chal' = Clear({t \in ScopesOf(s.email) : chal[t].code # None /\ chal[t].expires <= clock})
  /\ IF Sendable(s.plane, s.purpose, s.email)
     THEN call' = [call EXCEPT ![k] = [Idle EXCEPT !.pc = "asked", !.plane = s.plane, !.name = n,
                                         !.purpose = s.purpose, !.email = s.email, !.at = clock]]
     ELSE UNCHANGED call
  /\ UNCHANGED <<clock, cand, org, admins, sess, history>>

MaySend(row, at) == row.code = None \/ Cooldown = 0 \/ at >= row.sent + Cooldown

\* The cooldown is tested against the code that is live, before the next one
\* is reserved.
TestCooldown(k) ==
  /\ At(k, "asked")
  /\ IF MaySend(chal[Scope(k)], call[k].at) THEN Goto(k, "allowed") ELSE Leave(k)
  /\ UNCHANGED <<clock, cand, org, admins, issuance, chal, sess, history>>

ReserveIssuance(k) ==
  /\ At(k, "allowed")
  /\ \E i \in Codes :
       /\ issuance[i].st = "free"
       /\ issuance' = [issuance EXCEPT ![i] = [st |-> "reserved", email |-> call[k].email,
                                                 expires |-> call[k].at + TTL]]
       /\ call' = [call EXCEPT ![k].pc = "sending", ![k].code = i]
  /\ UNCHANGED <<clock, cand, org, admins, chal, sess, history>>

\* Mutant: activation does not need the reservation.
ActivateAnyway(k) ==
  LET i == call[k].code IN
  /\ At(k, "sending")
  /\ issuance' = Drop({i})
  /\ chal' = [chal EXCEPT ![Scope(k)] = [code |-> i, expires |-> issuance[i].expires, attempts |-> 0,
                                           sent |-> call[k].at, name |-> call[k].name]]
  /\ Leave(k)
  /\ UNCHANGED <<clock, cand, org, admins, sess, history>>

\* The mail went out: the code replaces the live one if its reservation is
\* still there.  (It expires after the instant it is compared with, `at`.)
ActivateIssuance(k) ==
  LET i == call[k].code IN
  /\ At(k, "sending")
  /\ IF issuance[i].st = "reserved"
     THEN /\ issuance' = Drop({i})
          /\ chal' = [chal EXCEPT ![Scope(k)] = [code |-> i, expires |-> issuance[i].expires,
                                                   attempts |-> 0, sent |-> call[k].at,
                                                   name |-> call[k].name]]
     ELSE UNCHANGED <<issuance, chal>>
  /\ Leave(k)
  /\ UNCHANGED <<clock, cand, org, admins, sess, history>>

\* Mutant: a failed mail takes the live code with it.
CancelAndClear(k) ==
  /\ At(k, "sending")
  /\ issuance' = Drop({call[k].code})
  /\ chal' = Clear({Scope(k)})
  /\ Leave(k)
  /\ UNCHANGED <<clock, cand, org, admins, sess, history>>

\* The mail failed: the reservation is cancelled, the live code stays.
CancelIssuance(k) ==
  /\ At(k, "sending")
  /\ issuance' = Drop({call[k].code})
  /\ Leave(k)
  /\ UNCHANGED <<clock, cand, org, admins, chal, sess, history>>

-----------------------------------------------------------------------------
(* AuthService.verify_code. *)

\* The first live challenge is looked up; an organisation's user may have two.
BeginVerify(k, p, e, g) ==
  LET first == IF p = "org" THEN "signup" ELSE "login" IN
  /\ At(k, "idle") /\ (g # None => issuance[g].st # "free")
  /\ call' = [call EXCEPT ![k] =
       [Idle EXCEPT !.pc = IF p = "org" THEN "looking" ELSE "judging", !.plane = p, !.email = e,
                    !.at = clock, !.code = g,
                    !.seen[first] = chal[[plane |-> p, purpose |-> first, email |-> e]]]]
  /\ UNCHANGED <<clock, cand, org, admins, issuance, chal, sess, history>>

LookAgain(k) ==
  /\ At(k, "looking")
  /\ call' = [call EXCEPT ![k].pc = "judging", ![k].seen["login"] = chal[Scope(k)]]
  /\ UNCHANGED <<clock, cand, org, admins, issuance, chal, sess, history>>

\* evaluate_verification: state before secret, dead at the instant of expiry.
Outcome(row, g, at) ==
  CASE row.code = None -> "not_found"
    [] row.code # None /\ row.attempts >= MaxAttempts -> "exhausted"
    [] row.code # None /\ row.attempts < MaxAttempts /\ row.expires <= at -> "expired"
    [] OTHER -> IF row.code = g THEN "ok" ELSE "wrong_code"

Judged(k, o) == {q \in {"signup", "login"} : Outcome(call[k].seen[q], call[k].code, call[k].at) = o}
First(Q) == IF "signup" \in Q THEN "signup" ELSE "login"

\* Mutant: the attempts are written back from what was read.
BumpFromRead(k, s, row) == [chal EXCEPT ![s].attempts = row.attempts + 1]

\* Mutant: the budget counts down from nothing.
BumpDown(k, s, row) == [chal EXCEPT ![s].attempts = @ - 1]

\* The increment is the database's, on the very row that was looked up.
BumpAttempts(k, s, row) == [chal EXCEPT ![s].attempts = @ + 1]

\* Nothing matched: each code it was wrong for is charged, in turn.
ChargeGuess(k) ==
  LET wrong == Judged(k, "wrong_code")
      q == First(wrong)
      row == call[k].seen[q]
      s == [plane |-> call[k].plane, purpose |-> q, email |-> call[k].email]
  IN
  /\ At(k, "judging") /\ Judged(k, "ok") = {} /\ wrong # {}
  /\ IF chal[s].code = row.code
     THEN chal' = BumpAttempts(k, s, row) /\ guesses' = [guesses EXCEPT ![row.code] = @ + 1]
     ELSE UNCHANGED <<chal, guesses>>
  /\ IF wrong = {q} THEN Leave(k) ELSE call' = [call EXCEPT ![k].seen[q] = NoChal]
  /\ UNCHANGED <<clock, cand, org, admins, issuance, sess, redeemed, tainted>>

NothingToCharge(k) ==
  /\ At(k, "judging") /\ Judged(k, "ok") = {} /\ Judged(k, "wrong_code") = {}
  /\ Leave(k)
  /\ UNCHANGED <<clock, cand, org, admins, issuance, chal, sess, history>>

-----------------------------------------------------------------------------
(* The redeeming transaction. *)

Won(k) == [plane |-> call[k].plane, purpose |-> First(Judged(k, "ok")), email |-> call[k].email]

\* Mutant: what the look-up saw is believed.
TrustLookup(k) == TRUE

\* consume_challenge: the same code, in time and within its budget, now.
Consumable(k) ==
  LET row == chal[Won(k)] IN
  /\ row.code = call[k].code
  /\ row.expires > clock
  /\ row.attempts < MaxAttempts

\* bind_verified_login_email: a proved address outranks hints; a first claim
\* needs a hint that is unique, unbound and not under review.
MayClaim(e) ==
  IF Owners(e) # {} THEN \A c \in Owners(e) : ~cand[c].review
  ELSE /\ Cardinality(Hinted(e)) <= 1
       /\ \A c \in Hinted(e) : cand[c].login = None /\ ~cand[c].review

Claim(e, c) ==
  \/ c \in Owners(e) /\ UNCHANGED cand
  \/ Owners(e) = {} /\ c \in Hinted(e) /\ cand' = [cand EXCEPT ![c].login = e]
  \/ /\ Owners(e) = {} /\ Hinted(e) = {} /\ cand[c].st = "free"
     /\ cand' = [cand EXCEPT ![c] = [st |-> "live", hint |-> e, login |-> e, review |-> FALSE]]

\* Mutant: a code that founds nothing is one of somebody known.
MayEnterByCode(e, n) == n # None => org[n] = None

\* Mutant: a signup founds an organization whoever the address belongs to.
EnterAsNew(e, n) == IF n # None /\ org[n] = None THEN org' = [org EXCEPT ![n] = e] ELSE UNCHANGED org

\* An organisation's user is looked up again before one is created.
MayEnter(e, n) == HasOrg(e) \/ (n # None /\ org[n] = None)

Enter(e, n) == IF HasOrg(e) THEN UNCHANGED org ELSE org' = [org EXCEPT ![n] = e]

MayEstablish(s) ==
  CASE s.plane = "candidate" -> MayClaim(s.email)
    [] s.plane = "org" -> MayEnter(s.email, chal[s].name)
    [] OTHER -> s.email \in admins

\* The principal the session will belong to: a candidate, or a user by address.
Establish(s, who) ==
  \/ s.plane = "candidate" /\ who \in Candidates /\ Claim(s.email, who) /\ UNCHANGED org
  \/ s.plane = "org" /\ who = s.email /\ Enter(s.email, chal[s].name) /\ UNCHANGED cand
  \/ s.plane = "admin" /\ who = s.email /\ UNCHANGED <<cand, org>>

Redeem(k) ==
  LET s == Won(k) IN
  /\ At(k, "judging") /\ Judged(k, "ok") # {}
  /\ Consumable(k) /\ MayEstablish(s)
  /\ \E who \in Candidates \cup {s.email}, x \in Sessions :
       /\ sess[x].st = "free"
       /\ Establish(s, who)
       /\ sess' = [sess EXCEPT ![x] = [st |-> "live", plane |-> s.plane, who |-> who, code |-> call[k].code]]
  /\ chal' = Clear({s})
  /\ redeemed' = [redeemed EXCEPT ![call[k].code] = @ + 1]
  /\ Leave(k)
  /\ UNCHANGED <<clock, admins, issuance, guesses, tainted>>

\* Mutant: the consumption commits before the principal is refused.
RefuseAndSpend(k) ==
  /\ At(k, "judging") /\ Judged(k, "ok") # {}
  /\ ~(Consumable(k) /\ MayEstablish(Won(k)))
  /\ chal' = IF Consumable(k) THEN Clear({Won(k)}) ELSE chal
  /\ Leave(k)
  /\ UNCHANGED <<clock, cand, org, admins, issuance, sess, history>>

\* A refusal rolls everything back, the consumption too.
RefuseRedemption(k) ==
  /\ At(k, "judging") /\ Judged(k, "ok") # {}
  /\ ~(Consumable(k) /\ MayEstablish(Won(k)))
  /\ Leave(k)
  /\ UNCHANGED <<clock, cand, org, admins, issuance, chal, sess, history>>

-----------------------------------------------------------------------------
(* Uploads that name an address (CandidateStore.ingest). *)

\* _resolve_candidate: one row with that hint, not bound to another address.
Match(e) ==
  IF \E c \in Hinted(e) : Hinted(e) = {c} /\ cand[c].login \in {None, e}
  THEN CHOOSE c \in Hinted(e) : TRUE ELSE None

BeginUpload(k, e) ==
  /\ "candidate" \in Planes /\ At(k, "idle")
  /\ call' = [call EXCEPT ![k] = [Idle EXCEPT !.pc = "resolved", !.email = e, !.match = Match(e)]]
  /\ UNCHANGED <<clock, cand, org, admins, issuance, chal, sess, history>>

\* Mutant: who was not found at first is created without looking again.
UploadUnordered(k) ==
  /\ At(k, "resolved")
  /\ IF call[k].match = None
     THEN \E c \in Candidates :
            /\ cand[c].st = "free"
            /\ cand' = [cand EXCEPT ![c] = [NoCand EXCEPT !.st = "live", !.hint = call[k].email]]
     ELSE UNCHANGED cand
  /\ Leave(k)
  /\ UNCHANGED <<clock, org, admins, issuance, chal, sess, history>>

\* A person who was found is updated, or refused if erased or changed; one who
\* was not is looked for again under the lock of the address, then created.
Upload(k) ==
  LET e == call[k].email IN
  /\ At(k, "resolved")
  /\ IF call[k].match = None /\ Match(e) = None
     THEN \E c \in Candidates :
            /\ cand[c].st = "free"
            /\ cand' = [cand EXCEPT ![c] = [NoCand EXCEPT !.st = "live", !.hint = e]]
     ELSE UNCHANGED cand
  /\ Leave(k)
  /\ UNCHANGED <<clock, org, admins, issuance, chal, sess, history>>

\* _refresh_identity: the retry of a screening item is bound to its person, and
\* may give one who has proved nothing the address they lacked; the UPDATE
\* tests the row itself, not under the lock of the address.
RefreshIdentity(c, e) ==
  /\ cand[c].st = "live" /\ cand[c].hint = None /\ cand[c].login = None /\ ~cand[c].review
  /\ cand' = [cand EXCEPT ![c].hint = e]
  /\ UNCHANGED <<clock, org, admins, issuance, chal, sess, call, history>>

-----------------------------------------------------------------------------
(* Erasure, operators, organizations, sessions, time. *)

\* _clear_login_state: a hint at somebody else's proved address is left alone.
Cleared(c) ==
  {e \in {cand[c].hint, cand[c].login} \ {None} :
     e = cand[c].login \/ \A d \in Owners(e) : d = c}

\* Mutant: sessions stay when their principal goes.
KeepSessions(p, who) == UNCHANGED sess

\* The rows of a deleted principal go with it; a revoked row and one that is
\* gone open the same doors.
EndSessions(p, who) ==
  sess' = [x \in Sessions |->
             IF sess[x].st = "live" /\ sess[x].plane = p /\ sess[x].who = who
             THEN NoSess ELSE sess[x]]

DeleteCandidate(c) ==
  LET pending == UNION {Pending(e) : e \in Cleared(c)}
      scopes == UNION {ScopesOf(e) : e \in Cleared(c)}
  IN
  /\ cand[c].st = "live"
  /\ issuance' = Drop(pending)
  /\ chal' = Clear(scopes)
  /\ cand' = [cand EXCEPT ![c].st = "erased"]
  /\ EndSessions("candidate", c)
  /\ tainted' = tainted \cup pending \cup ({chal[s].code : s \in scopes} \ {None})
  /\ UNCHANGED <<clock, org, admins, call, redeemed, guesses>>

\* An operator makes an organization that nobody logs in to, and may delete any:
\* its users and their sessions go with the row, and its name is free again.
CreateOrganization(n) ==
  /\ "org" \in Planes /\ org[n] = None
  /\ org' = [org EXCEPT ![n] = NoOwner]
  /\ UNCHANGED <<clock, cand, admins, issuance, chal, sess, call, history>>

DeleteOrganization(n) ==
  /\ org[n] # None
  /\ org' = [org EXCEPT ![n] = None]
  /\ EndSessions("org", org[n])
  /\ UNCHANGED <<clock, cand, admins, issuance, chal, call, history>>

CreateAdmin(e) ==
  /\ "admin" \in Planes /\ e \notin admins
  /\ admins' = admins \cup {e}
  /\ UNCHANGED <<clock, cand, org, issuance, chal, sess, call, history>>

DeleteAdmin(e) ==
  /\ e \in admins
  /\ admins' = admins \ {e}
  /\ EndSessions("admin", e)
  /\ UNCHANGED <<clock, cand, org, issuance, chal, call, history>>

\* Sign-out, here or on another device.
Revoke(x) ==
  /\ sess[x].st = "live"
  /\ sess' = [sess EXCEPT ![x] = NoSess]
  /\ UNCHANGED <<clock, cand, org, admins, issuance, chal, call, history>>

\* The process dies, or an exception the handler does not know.
Crash(k) ==
  /\ ~At(k, "idle")
  /\ Leave(k)
  /\ UNCHANGED <<clock, cand, org, admins, issuance, chal, sess, history>>

Tick ==
  /\ clock < MaxClock
  /\ clock' = clock + 1
  /\ UNCHANGED <<cand, org, admins, issuance, chal, sess, call, history>>

Asks(k) ==
  \/ \E s \in Scopes, n \in MaybeName : Request(k, s, n)
  \/ \E p \in Planes, e \in Emails, g \in MaybeCode : BeginVerify(k, p, e, g)
  \/ \E e \in Emails : BeginUpload(k, e)

Issues(k) == TestCooldown(k) \/ ReserveIssuance(k) \/ ActivateIssuance(k) \/ CancelIssuance(k)

Verifies(k) == LookAgain(k) \/ ChargeGuess(k) \/ NothingToCharge(k) \/ Redeem(k) \/ RefuseRedemption(k)

Next ==
  \/ \E k \in Calls : Asks(k) \/ Issues(k) \/ Verifies(k) \/ Upload(k) \/ Crash(k)
  \/ \E c \in Candidates : DeleteCandidate(c) \/ \E e \in Emails : RefreshIdentity(c, e)
  \/ \E n \in Names : CreateOrganization(n) \/ DeleteOrganization(n)
  \/ \E e \in Emails : CreateAdmin(e) \/ DeleteAdmin(e)
  \/ \E x \in Sessions : Revoke(x)
  \/ Tick

Spec == Init /\ [][Next]_vars

-----------------------------------------------------------------------------
(* Properties. *)

\* A code is single-use however many redemptions of it overlap.
CodeOpensOneSession == \A i \in Codes : redeemed[i] <= 1

\* A code is redeemed only within its lifetime and its budget, as they are
\* when the session is opened: no wrong guess is lost, and none that was
\* charged after the look-up is overlooked.
RedeemedInTime ==
  [][\A i \in Codes : redeemed'[i] > redeemed[i] =>
       guesses[i] < MaxAttempts /\ issuance[i].expires > clock]_vars

\* What was reserved, in the mail or live when its address was erased never
\* becomes or stays a live code.
ErasureCancelsCodes == \A s \in DOMAIN chal : chal[s].code \notin tainted

\* A live code goes by being redeemed, replaced, expired or erased: a refusal
\* (a taken name, an ambiguous hint, a failed mail) does not spend it.
CodesAreNotLost ==
  [][\A s \in DOMAIN chal :
       LET i == chal[s].code IN
       i # None /\ chal'[s].code = None =>
         redeemed'[i] > redeemed[i] \/ chal[s].expires <= clock \/ i \in tainted']_vars

\* A session that can be used belongs to somebody who still exists and who
\* is bound to the address its code was mailed to.
SessionsBelongToProver ==
  \A x \in Sessions : sess[x].st = "live" =>
    LET e == issuance[sess[x].code].email IN
    CASE sess[x].plane = "candidate" -> sess[x].who \in Owners(e)
      [] sess[x].plane = "org" -> sess[x].who = e /\ HasOrg(e)
      [] OTHER -> sess[x].who = e /\ e \in admins

\* Uploads and logins of one address make one candidate between them: none is
\* ever created beside exactly one.  (Several may share a hint from before.)
OneCandidatePerEmail ==
  [][\A c \in DOMAIN cand : cand[c].st = "free" /\ cand'[c].st = "live" =>
       ~ \E d \in Candidates : Hinted(cand'[c].hint) = {d}]_vars

\* Two codes of one address never found two organizations.
OneOrganizationPerEmail ==
  \A n, m \in DOMAIN org : n # m /\ org[n] = org[m] => org[n] \in {None, NoOwner}

=============================================================================
