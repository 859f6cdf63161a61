---------------------------- MODULE Verification ----------------------------
(***************************************************************************)
(* The verification spine: a candidate proves control of a contact with a  *)
(* one-time code, attests to their identity or submits a document, and an  *)
(* operator records reviews.  A start is several transactions (create the  *)
(* attempt, issue and send a code, record a failed delivery), confirmation *)
(* is one, and all that touch a challenge are ordered by the lock on the   *)
(* candidate's row, which erasure takes too.                               *)
(*                                                                         *)
(* One action per committed transaction.  A code is named by the attempt   *)
(* it was issued for: `start` mints an attempt per call and issues one     *)
(* code for it, so every other code is a wrong one.                        *)
(***************************************************************************)
EXTENDS Integers, FiniteSets

CONSTANTS
  Claimants,
  Vids,            \* verification row ids, each used at most once
  Ops,             \* start / submit_document / manual review calls in flight
  Deliverable,     \* one-time-code methods whose channel can send
  Legacy,          \* attempts with a live code left by an older release, which
  LegacyOwner,     \* could issue several at once; all of this candidate
  Absent,
  Cooldown, CodeTTL, OutcomeTTL, MaxAttempts,   \* verif_* settings
  MaxClock         \* bound on the environment's clock

Otp == {"otp_email", "otp_phone"}
Instant == {"self_attested", "document"}
Methods == Otp \cup Instant \cup {"manual_review"}

ASSUME VerificationConstantsOK ==
  /\ Deliverable \subseteq Otp
  /\ Legacy \subseteq Vids /\ LegacyOwner \in Claimants
  /\ Absent \notin Vids \cup Claimants
  /\ Cooldown \in Nat /\ CodeTTL \in Nat /\ OutcomeTTL \in Nat /\ MaxClock \in Nat
  /\ MaxAttempts \in Nat \ {0}

VARIABLES
  clock,
  claimant,   \* "live" or "erased"
  ver,         \* verifications
  chal,        \* verification_challenges
  op,          \* one record per call in flight
  completions, \* history: `verification.complete` audit rows of an attempt
  newest,      \* history: the attempt whose code was activated last
  issuedAt,    \* history: when that was
  proved       \* history: when a candidate last entered a right code or was reviewed

verificationVars == <<clock, claimant, ver, chal, op, completions, newest, issuedAt, proved>>
history == <<completions, newest, issuedAt, proved>>

NoTime == -1
Outcomes == {"pending", "verified", "failed", "expired"}

Blank == [st |-> "free", cand |-> Absent, method |-> "otp_email", expires |-> NoTime]
NoCode == [live |-> FALSE, attempts |-> 0, expires |-> 0, sent |-> 0]
Idle == [pc |-> "idle", cand |-> Absent, method |-> "otp_email", vid |-> Absent, at |-> 0]

VerRows == [st: Outcomes \cup {"free", "erased"}, cand: Claimants \cup {Absent},
            method: Methods, expires: Nat \cup {NoTime}]
ChalRows == [live: BOOLEAN, attempts: 0..MaxAttempts, expires: Nat, sent: Nat]
OpRecs == [pc: {"idle", "parse", "create", "issue", "undelivered", "complete"},
           cand: Claimants \cup {Absent}, method: Methods, vid: Vids \cup {Absent}, at: Nat]

VerificationTypeOK ==
  /\ clock \in Nat
  /\ claimant \in [Claimants -> {"live", "erased"}]
  /\ ver \in [Vids -> VerRows]
  /\ chal \in [Vids -> ChalRows]
  /\ op \in [Ops -> OpRecs]
  /\ completions \in [Vids -> Nat]
  /\ newest \in [Claimants -> [Otp -> Vids \cup {Absent}]]
  /\ issuedAt \in [Claimants -> [Otp -> Nat \cup {NoTime}]]
  /\ proved \in [Claimants -> Nat \cup {NoTime}]

-----------------------------------------------------------------------------
(* The pure parts: app/verification/otp.py and assurance.py. *)

\* Both boundaries belong to the refusal: dead at the instant of expiry, free
\* to resend at the end of the cooldown.
CodeExpired(v) == chal[v].expires <= clock

CooldownActive(sent) == Cooldown > 0 /\ clock < sent + Cooldown

AttemptsExhausted(n) == n >= MaxAttempts

\* Mutant: the stored status is believed past its expiry.
StoredStatus(v, at) == ver[v].st

\* effective_status: a stored `verified` past its expiry reads `expired`.
EffectiveStatus(v, at) ==
  IF ver[v].st = "verified" /\ ver[v].expires # NoTime /\ ver[v].expires <= at
  THEN "expired" ELSE ver[v].st

\* METHOD_LEVEL: a document is about a job, and has no identity level.
Level(m) == CASE m \in Otp -> 2 [] m = "self_attested" -> 1
              [] m = "manual_review" -> 3 [] OTHER -> 0

\* compute_assurance: the highest level held by a row that has not lapsed.
Held(c, at) == {Level(ver[v].method) :
                  v \in {x \in Vids : ver[x].cand = c /\ EffectiveStatus(x, at) = "verified"}}
Assurance(c, at) == IF Held(c, at) = {} THEN 0
                    ELSE CHOOSE n \in Held(c, at) : \A k \in Held(c, at) : k <= n

-----------------------------------------------------------------------------
\* One inherited code is the newest; of several nobody knows which is.
InheritedNewest ==
  IF \E v \in Vids : Legacy = {v} THEN CHOOSE v \in Vids : Legacy = {v} ELSE Absent

VerificationInit ==
  /\ clock = 0
  /\ claimant = [c \in Claimants |-> "live"]
  /\ ver = [v \in Vids |-> IF v \in Legacy
                           THEN [Blank EXCEPT !.st = "pending", !.cand = LegacyOwner] ELSE Blank]
  /\ \E spent \in 0..MaxAttempts :
       chal = [v \in Vids |-> IF v \in Legacy
                              THEN [live |-> TRUE, attempts |-> spent, expires |-> CodeTTL, sent |-> 0]
                              ELSE NoCode]
  /\ op = [o \in Ops |-> Idle]
  /\ completions = [v \in Vids |-> 0]
  /\ newest = [c \in Claimants |-> [m \in Otp |->
                 IF c = LegacyOwner /\ m = "otp_email" THEN InheritedNewest ELSE Absent]]
  /\ issuedAt = [c \in Claimants |-> [m \in Otp |-> NoTime]]
  /\ proved = [c \in Claimants |-> NoTime]

-----------------------------------------------------------------------------
(* Calls in flight. *)

At(o, pc) == op[o].pc = pc
Leave(o) == op' = [op EXCEPT ![o] = Idle]
Goto(o, pc) == op' = [op EXCEPT ![o].pc = pc]

\* start: every refusal (inert or operator-only method, no capability, contact
\* that does not match) precedes the first write.  A document is parsed before
\* anything is written, a review goes straight to its row.
Begin(o, c, m) ==
  /\ At(o, "idle")
  /\ m \in Otp => m \in Deliverable
  /\ m = "manual_review" \/ claimant[c] = "live"
  /\ op' = [op EXCEPT ![o] = [Idle EXCEPT !.pc = IF m = "document" THEN "parse" ELSE "create",
                                          !.cand = c, !.method = m, !.at = clock]]
  /\ UNCHANGED <<clock, claimant, ver, chal, history>>

\* asubmit_document: the checks are repeated, with the current time, when the
\* parser returns; unreadable input or a candidate erased meanwhile ends it.
Parsed(o) ==
  /\ At(o, "parse")
  /\ \/ claimant[op[o].cand] = "live" /\ op' = [op EXCEPT ![o].pc = "create", ![o].at = clock]
     \/ Leave(o)
  /\ UNCHANGED <<clock, claimant, ver, chal, history>>

\* Mutant: the candidate read at the start of the call is taken for live.
KnownAtStart(c) == TRUE

\* create_verification: looked up again in the inserting transaction, with a
\* foreign key behind the look-up.
Known(c) == claimant[c] = "live"

Create(o) ==
  /\ At(o, "create")
  /\ IF Known(op[o].cand)
     THEN \E v \in Vids :
            /\ ver[v].st = "free"
            /\ ver' = [ver EXCEPT ![v] = [Blank EXCEPT !.st = "pending", !.cand = op[o].cand,
                                                       !.method = op[o].method]]
            /\ op' = [op EXCEPT ![o].vid = v,
                                ![o].pc = IF op[o].method \in Otp THEN "issue" ELSE "complete"]
     ELSE Leave(o) /\ UNCHANGED ver
  /\ UNCHANGED <<clock, claimant, chal, history>>

\* Mutant: supersession and cooldown are scoped to one verification row.
PriorsOfRow(v) == {x \in Vids : chal[x].live /\ x = v}

\* The live codes of this candidate and channel.
Priors(v) == {x \in Vids : /\ chal[x].live
                           /\ ver[x].cand = ver[v].cand /\ ver[x].method = ver[v].method}

\* _locked_verification finds neither the candidate nor, then, the attempt.
Gone(o, pc) ==
  /\ At(o, pc) /\ ver[op[o].vid].st = "erased"
  /\ Leave(o)
  /\ UNCHANGED <<clock, claimant, ver, chal, history>>

\* create_challenge, refused inside the cooldown: 429, and the attempt stays.
IssueRefused(o) ==
  /\ At(o, "issue") /\ ver[op[o].vid].st = "pending"
  /\ \E x \in Priors(op[o].vid) : CooldownActive(chal[x].sent)
  /\ Leave(o)
  /\ UNCHANGED <<clock, claimant, ver, chal, history>>

CanIssue(o) ==
  /\ At(o, "issue") /\ ver[op[o].vid].st = "pending"
  /\ \A x \in Priors(op[o].vid) : ~CooldownActive(chal[x].sent)

Activated(v) ==
  chal' = [x \in Vids |->
             IF x = v THEN [live |-> TRUE, attempts |-> 0, expires |-> clock + CodeTTL, sent |-> clock]
             ELSE IF x \in Priors(v) THEN NoCode ELSE chal[x]]

\* create_challenge: supersede, store, send and commit, all under the lock.
Issue(o) ==
  LET v == op[o].vid
      c == ver[v].cand
      m == ver[v].method
  IN  /\ CanIssue(o)
      /\ Activated(v)
      /\ newest' = [newest EXCEPT ![c][m] = v]
      /\ issuedAt' = [issuedAt EXCEPT ![c][m] = clock]
      /\ Leave(o)
      /\ UNCHANGED <<clock, claimant, ver, completions, proved>>

\* Mutant: the code is activated before the provider answers.
KeepsUnsentCode(o) == Activated(op[o].vid)

\* The provider refuses: the new code and the supersession roll back.
RollsBack(o) == UNCHANGED chal

Unsent(o) ==
  /\ CanIssue(o)
  /\ RollsBack(o)
  /\ Goto(o, "undelivered")
  /\ UNCHANGED <<clock, claimant, ver, history>>

-----------------------------------------------------------------------------
(* Outcomes. *)

Completed(v, st, at) ==
  /\ ver' = [ver EXCEPT ![v].st = st, ![v].expires = IF st = "verified" THEN at + OutcomeTTL ELSE @]
  /\ completions' = [completions EXCEPT ![v] = @ + 1]

\* complete_verification for what needs no code.  A document is verified or
\* fails by its assessment; the outcome of a review is the operator's to name.
Complete(o) ==
  LET v == op[o].vid
      m == op[o].method
  IN  /\ At(o, "complete") /\ ver[v].st # "erased"
      /\ \E st \in CASE m = "self_attested" -> {"verified"}
                     [] m = "document" -> {"verified", "failed"}
                     [] OTHER -> Outcomes :
           /\ Completed(v, st, op[o].at)
           /\ proved' = IF m = "manual_review" /\ st = "verified"
                        THEN [proved EXCEPT ![op[o].cand] = clock] ELSE proved
      /\ Leave(o)
      /\ UNCHANGED <<clock, claimant, chal, newest, issuedAt>>

\* complete_verification after a failed delivery, in a transaction of its own.
MarkUndelivered(o) ==
  LET v == op[o].vid
  IN  /\ At(o, "undelivered") /\ ver[v].st # "erased"
      /\ Completed(v, "failed", clock)
      /\ Leave(o)
      /\ UNCHANGED <<clock, claimant, chal, newest, issuedAt, proved>>

\* Mutant: legacy secrets whose order nobody knows are believed.
NoCompetition(v) == {}

Competing(v) == Priors(v) \ {v}

\* confirm_challenge gets as far as the code only on a pending attempt with a
\* live challenge that is the only one of its candidate and channel.
Confirmable(v) == ver[v].st = "pending" /\ chal[v].live /\ Competing(v) = {}

Drop(v) == chal' = [chal EXCEPT ![v] = NoCode]

ConfirmExpired(v) ==
  /\ Confirmable(v) /\ CodeExpired(v)
  /\ Drop(v)
  /\ UNCHANGED <<clock, claimant, ver, op, history>>

\* A wrong code, or any code once the attempts are gone.
ConfirmWrong(v) ==
  LET n == IF AttemptsExhausted(chal[v].attempts) THEN chal[v].attempts ELSE chal[v].attempts + 1
  IN  /\ Confirmable(v) /\ ~CodeExpired(v)
      /\ IF AttemptsExhausted(n)
         THEN Drop(v) /\ Completed(v, "failed", clock)
         ELSE chal' = [chal EXCEPT ![v].attempts = n] /\ UNCHANGED <<ver, completions>>
      /\ UNCHANGED <<clock, claimant, op, newest, issuedAt, proved>>

ConfirmRight(v) ==
  /\ Confirmable(v) /\ ~CodeExpired(v) /\ ~AttemptsExhausted(chal[v].attempts)
  /\ Drop(v)
  /\ Completed(v, "verified", clock)
  /\ proved' = [proved EXCEPT ![ver[v].cand] = clock]
  /\ UNCHANGED <<clock, claimant, op, newest, issuedAt>>

Confirm(v) == ConfirmExpired(v) \/ ConfirmWrong(v) \/ ConfirmRight(v)

-----------------------------------------------------------------------------
(* The environment. *)

\* delete_candidate: attempts and challenges cascade.
EraseClaimant(c) ==
  /\ claimant[c] = "live"
  /\ claimant' = [claimant EXCEPT ![c] = "erased"]
  /\ ver' = [v \in Vids |-> IF ver[v].cand = c THEN [ver[v] EXCEPT !.st = "erased"] ELSE ver[v]]
  /\ chal' = [v \in Vids |-> IF ver[v].cand = c THEN NoCode ELSE chal[v]]
  /\ UNCHANGED <<clock, op, history>>

\* A process death, or a commit that fails after the mail was sent: the call
\* ends between two of its transactions and what it committed stays.
CallDies(o) ==
  /\ ~At(o, "idle")
  /\ Leave(o)
  /\ UNCHANGED <<clock, claimant, ver, chal, history>>

Tick ==
  /\ clock < MaxClock
  /\ clock' = clock + 1
  /\ UNCHANGED <<claimant, ver, chal, op, history>>

Step(o) ==
  \/ Parsed(o)
  \/ Create(o)
  \/ IssueRefused(o)
  \/ Issue(o)
  \/ Unsent(o)
  \/ Complete(o)
  \/ MarkUndelivered(o)
  \/ \E pc \in {"issue", "complete", "undelivered"} : Gone(o, pc)

VerificationNext ==
  \/ Tick
  \/ \E c \in Claimants : EraseClaimant(c)
  \/ \E v \in Vids : Confirm(v)
  \/ \E o \in Ops :
       \/ \E c \in Claimants, m \in Methods : Begin(o, c, m)
       \/ Step(o)
       \/ CallDies(o)

VerificationSpec == VerificationInit /\ [][VerificationNext]_verificationVars

-----------------------------------------------------------------------------
(* Properties. *)

\* At most one code per candidate and channel is live, whichever attempts the
\* codes belong to and however many starts overlap; only an older release left
\* more.
OneLiveCode ==
  \A v, x \in Vids :
    /\ chal[v].live /\ chal[x].live
    /\ ver[v].cand = ver[x].cand /\ ver[v].method = ver[x].method
    => v = x \/ {v, x} \subseteq Legacy

\* An attempt is completed at most once: no late delivery failure, repeated
\* confirmation or exhausted budget overwrites the outcome that was audited.
CompletedOnce ==
  \A v \in Vids : /\ completions[v] <= 1
                  /\ ver[v].st \in Outcomes \ {"pending"} => completions[v] = 1

\* A contact is verified only by the code that was activated last, never by a
\* superseded one or by one of two whose order nobody knows, and only before the instant
\* at which its lifetime is over (an older release's code has a lifetime of its own).
NewestCodeOnly ==
  [][\A v \in Vids :
       ver[v].st = "pending" /\ ver'[v].st = "verified" /\ ver[v].method \in Otp
         => /\ newest[ver[v].cand][ver[v].method] = v
            /\ \/ issuedAt[ver[v].cand][ver[v].method] = NoTime
               \/ clock < issuedAt[ver[v].cand][ver[v].method] + CodeTTL]_verificationVars

\* No call in flight writes about a candidate who was erased while it ran, and
\* no code of theirs stays live.
ErasureLeavesNothing ==
  \A v \in Vids : /\ ver[v].st \in Outcomes => claimant[ver[v].cand] = "live"
                  /\ chal[v].live => ver[v].st = "pending"

\* Contact control or more is reported only while a right code or a review of
\* this candidate is younger than the outcome's lifetime.
AssuranceEarned ==
  \A c \in Claimants :
    Assurance(c, clock) >= 2 => proved[c] # NoTime /\ clock < proved[c] + OutcomeTTL

\* "A restart still waits out the cooldown": unless the last code of this
\* candidate and channel was entered, another is activated only after the
\* cooldown.
RestartWaits ==
  [][\A c \in Claimants, m \in Otp :
       /\ newest'[c][m] # newest[c][m] /\ issuedAt[c][m] # NoTime
       /\ ver[newest[c][m]].st # "verified"
       => issuedAt'[c][m] >= issuedAt[c][m] + Cooldown]_verificationVars

=============================================================================
