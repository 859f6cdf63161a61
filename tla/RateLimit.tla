----------------------------- MODULE RateLimit -----------------------------
(***************************************************************************)
(* The rate limiter: fixed windows counted in one row per bucket and       *)
(* window.  A request counts against every scope its rules name, in their  *)
(* order; one hit is a conditional UPDATE, and when that changes no row, a *)
(* look, a DELETE of the bucket's older windows and an INSERT, with the    *)
(* UPDATE again when the INSERT collides.  On PostgreSQL other requests    *)
(* commit between those statements.  A request's window is computed from   *)
(* the time it was made, which may be long past when it reaches the store. *)
(***************************************************************************)
EXTENDS Integers, FiniteSets

CONSTANTS
  Mailboxes, Addresses,   \* what a request may be identified by: hashed emails, IPs
  Requests,             \* requests, each made once
  Limit,                \* allowed hits per bucket and window
  WindowSeconds,
  RateHorizon           \* bound on the clock, in seconds

ASSUME RateConstantsOK ==
  Limit \in Nat /\ WindowSeconds \in Nat \ {0} /\ RateHorizon \in Nat /\ Mailboxes \cap Addresses = {}

VARIABLES
  seconds,   \* the clock
  counters,  \* rate_limit_counters: the count of a bucket's window, 0 for no row
  requests,  \* one record per request
  onTime     \* history: hits allowed while their window was still open

rateVars == <<seconds, counters, requests, onTime>>

Buckets == Mailboxes \cup Addresses
Anonymous == "none"        \* no identity under a scope
Windows == {w \in 0..RateHorizon : w % WindowSeconds = 0}

WindowStart(now) == (now \div WindowSeconds) * WindowSeconds

\* Whole seconds until the window closes, never less than one.
RetryAfter(now, w) == LET left == w + WindowSeconds - now IN IF left < 1 THEN 1 ELSE left

\* The rules of a request in their order: per address of mail, then per IP.
RulesFor == <<Mailboxes, Addresses>>
Identities == {<<m, a>> : m \in Mailboxes \cup {Anonymous}, a \in Addresses \cup {Anonymous}}

NoRequest == [st |-> "free", now |-> 0, ids |-> <<Anonymous, Anonymous>>, rule |-> 1,
              denied |-> 0, wait |-> 0]

RateInit ==
  /\ seconds = 0
  /\ counters = [b \in Buckets |-> [w \in Windows |-> 0]]
  /\ requests = [r \in Requests |-> NoRequest]
  /\ onTime = [b \in Buckets |-> [w \in Windows |-> 0]]

Bucket(r) == requests[r].ids[requests[r].rule]
Window(r) == WindowStart(requests[r].now)
RowExists(r) == counters[Bucket(r)][Window(r)] > 0
At(r, st) == requests[r].st = st

----------------------------------------------------------------------------
\* check: every scope with an identity is counted, after a refusal too.

\* The next rule from i on whose scope identifies the caller, or none left.
RuleFrom(ids, i) ==
  CHOOSE j \in i..3 : /\ j = 3 \/ ids[j] # Anonymous
                      /\ \A k \in i..(j - 1) : ids[k] = Anonymous

AtRule(request, i) ==
  LET j == RuleFrom(request.ids, i)
  IN  [request EXCEPT !.rule = j, !.st = IF j = 3 THEN "done" ELSE "try"]

Check(r) ==
  /\ At(r, "free")
  /\ \E ids \in Identities :
       requests' = [requests EXCEPT ![r] = AtRule([@ EXCEPT !.now = seconds, !.ids = ids], 1)]
  /\ UNCHANGED <<seconds, counters, onTime>>

\* The first refusal is the one reported.
FirstRefusal(r) ==
  LET q == requests[r] IN
  AtRule(IF q.denied = 0 THEN [q EXCEPT !.denied = q.rule, !.wait = RetryAfter(q.now, Window(r))] ELSE q,
         q.rule + 1)

Deny(r) == requests' = [requests EXCEPT ![r] = FirstRefusal(r)] /\ UNCHANGED onTime

Allow(r) ==
  /\ requests' = [requests EXCEPT ![r] = AtRule(@, @.rule + 1)]
  /\ onTime' = IF Window(r) = WindowStart(seconds)
               THEN [onTime EXCEPT ![Bucket(r)][Window(r)] = @ + 1] ELSE onTime

Goto(r, st) == requests' = [requests EXCEPT ![r].st = st] /\ UNCHANGED onTime

----------------------------------------------------------------------------
\* hit: one allowed or refused event of a bucket.

\* The check and the write are one statement.
CanIncrement(r) == RowExists(r) /\ counters[Bucket(r)][Window(r)] < Limit
Increment(r) == counters' = [counters EXCEPT ![Bucket(r)][Window(r)] = @ + 1]

TryIncrement(r) ==
  /\ At(r, "try")
  /\ IF Limit <= 0 THEN Deny(r) /\ UNCHANGED counters
     ELSE IF CanIncrement(r) THEN Increment(r) /\ Allow(r)
     ELSE Goto(r, "look") /\ UNCHANGED counters
  /\ UNCHANGED seconds

LookAgain(r) ==
  /\ At(r, "look")
  /\ IF RowExists(r) THEN Deny(r) ELSE Goto(r, "open")
  /\ UNCHANGED <<seconds, counters>>

\* A wrong OpenWindow: the INSERT replaces the row another request has opened.
OpensAgain(r) ==
  /\ At(r, "open")
  /\ counters' = [counters EXCEPT ![Bucket(r)][Window(r)] = 1]
  /\ Allow(r)
  /\ UNCHANGED seconds

\* A new window of the bucket retires the older ones; a lost INSERT is no second row.
OpenWindow(r) ==
  /\ At(r, "open")
  /\ IF RowExists(r) THEN Goto(r, "retry") /\ UNCHANGED counters
     ELSE /\ counters' = [counters EXCEPT ![Bucket(r)] =
                [w \in Windows |-> IF w < Window(r) THEN 0 ELSE IF w = Window(r) THEN 1 ELSE @[w]]]
          /\ Allow(r)
  /\ UNCHANGED seconds

RetryIncrement(r) ==
  /\ At(r, "retry")
  /\ IF CanIncrement(r) THEN Increment(r) /\ Allow(r) ELSE Deny(r) /\ UNCHANGED counters
  /\ UNCHANGED seconds

\* The retention sweep takes the rows whose window has closed.
SweepCounters ==
  /\ counters' = [b \in Buckets |-> [w \in Windows |->
                    IF w + WindowSeconds <= seconds THEN 0 ELSE counters[b][w]]]
  /\ UNCHANGED <<seconds, requests, onTime>>

RateTick ==
  /\ seconds < RateHorizon
  /\ seconds' = seconds + 1
  /\ UNCHANGED <<counters, requests, onTime>>

RateNext ==
  \/ RateTick
  \/ SweepCounters
  \/ \E r \in Requests :
       Check(r) \/ TryIncrement(r) \/ LookAgain(r) \/ OpenWindow(r) \/ RetryIncrement(r)

RateSpec == RateInit /\ [][RateNext]_rateVars

----------------------------------------------------------------------------
RateTypeOK ==
  /\ seconds \in 0..RateHorizon
  /\ counters \in [Buckets -> [Windows -> 0..Limit]]
  /\ onTime \in [Buckets -> [Windows -> Nat]]

\* However the statements of two hits interleave, and whatever housekeeping and the
\* sweep delete, a bucket allows at most its limit of hits while a window is open.  A
\* request that arrives after its window closed may open a retired row again, and is
\* allowed then: such hits are outside the bound, and must not cost the window that is
\* open the hits it has counted.
WithinLimit ==
  \A b \in Buckets, w \in Windows : onTime[b][w] <= (IF Limit > 0 THEN Limit ELSE 0)

\* A caller is refused only when the bucket is full.  `hit` says of an UPDATE that
\* changed no row: the row "is at its limit OR it does not exist yet.  Those need
\* opposite answers".  Between the UPDATE that found no row and the look another
\* request may have opened the window.
RefusedOnlyWhenFull ==
  [][\A r \in Requests : requests'[r].denied # requests[r].denied =>
        counters[Bucket(r)][Window(r)] >= Limit]_rateVars

=============================================================================
