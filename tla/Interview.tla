----------------------------- MODULE Interview -----------------------------
(***************************************************************************)
(* Interview sessions: a candidate starts one, answers its planned         *)
(* questions one by one, and finishes early or with the last answer.       *)
(* Transcription and scoring are awaited between the checks an answer      *)
(* begins with and the transaction that stores it, so answers overlap with *)
(* each other, with an early finish, with expiry and with erasure.         *)
(*                                                                         *)
(* One action per committed transaction.  Every write takes the lock on    *)
(* the candidate's row before it reads, so a transaction is one step.      *)
(* Questions are named by their place in the plan, which never changes.    *)
(***************************************************************************)
EXTENDS Integers, Sequences

CONSTANTS
  Candidates,
  Sessions,      \* session ids, each used at most once
  Calls,         \* start / answer / finish requests in flight
  Planned,       \* questions in a plan
  None,
  TTL,           \* interview_session_ttl_minutes
  MaxClock       \* bound on the environment's clock

ASSUME ConstantsOK ==
  /\ None \notin Candidates \cup Sessions
  /\ Planned \in Nat \ {0} /\ TTL \in Nat \ {0} /\ MaxClock \in Nat

VARIABLES
  clock,
  candidate,     \* "live" or "erased"
  session,       \* interview_sessions, each with its interview_turns
  call,
  completions    \* history: `interview.complete` audit rows of a session

vars == <<clock, candidate, session, call, completions>>

Unassessed == -1
Statuses == {"in_progress", "completed"}

NoSession == [st |-> "free", cand |-> None, expires |-> 0, turns |-> << >>, assessed |-> Unassessed]
Idle == [pc |-> "idle", cand |-> None, sess |-> None, question |-> 1]

SessionRows == [st: Statuses \cup {"free", "erased"}, cand: Candidates \cup {None}, expires: Nat,
                turns: Seq(1..Planned), assessed: Nat \cup {Unassessed}]
CallRecs == [pc: {"idle", "starting", "scoring", "finishing"}, cand: Candidates \cup {None},
             sess: Sessions \cup {None}, question: 1..Planned]

TypeOK ==
  /\ clock \in Nat
  /\ candidate \in [Candidates -> {"live", "erased"}]
  /\ session \in [Sessions -> SessionRows]
  /\ call \in [Calls -> CallRecs]
  /\ completions \in [Sessions -> Nat]

Init ==
  /\ clock = 0
  /\ candidate = [c \in Candidates |-> "live"]
  /\ session = [s \in Sessions |-> NoSession]
  /\ call = [k \in Calls |-> Idle]
  /\ completions = [s \in Sessions |-> 0]

-----------------------------------------------------------------------------
Leave(k) == call' = [call EXCEPT ![k] = Idle]

\* effective_status: an unfinished session past its TTL reads `abandoned`;
\* nothing ever writes that.
InProgress(s, at) == session[s].st = "in_progress" /\ at < session[s].expires

\* _next_question: the first question of the plan without a turn.
Answered(s) == {session[s].turns[n] : n \in DOMAIN session[s].turns}
Open(s) == 1..Planned \ Answered(s)
IsNext(s, q) == q \in Open(s) /\ \A p \in Open(s) : q <= p

LiveSessions(c, at) == {s \in Sessions : session[s].cand = c /\ InProgress(s, at)}

-----------------------------------------------------------------------------
(* start. *)

\* The first look refuses early; the plan and the assurance are then read.
BeginStart(k, c) ==
  /\ call[k].pc = "idle"
  /\ candidate[c] = "live" /\ LiveSessions(c, clock) = {}
  /\ call' = [call EXCEPT ![k] = [Idle EXCEPT !.pc = "starting", !.cand = c]]
  /\ UNCHANGED <<clock, candidate, session, completions>>

\* Mutant: the look at the live sessions is not repeated under the lock.
NoneLiveBefore(k) == TRUE

NoneLive(k) == LiveSessions(call[k].cand, clock) = {}

\* Mutant: the candidate is not looked up under the lock.
KnownBefore(c) == TRUE

Known(c) == candidate[c] = "live"

\* create_session, under the lock of the candidate's row.
Create(k) ==
  LET c == call[k].cand
  IN  /\ call[k].pc = "starting"
      /\ IF Known(c) /\ NoneLive(k)
         THEN \E s \in Sessions :
                /\ session[s].st = "free"
                /\ session' = [session EXCEPT ![s] = [NoSession EXCEPT
                                 !.st = "in_progress", !.cand = c, !.expires = clock + TTL]]
         ELSE UNCHANGED session
      /\ Leave(k)
      /\ UNCHANGED <<clock, candidate, completions>>

-----------------------------------------------------------------------------
(* answer and finish. *)

\* answer: the checks before any provider is called.
BeginAnswer(k, s, q) ==
  /\ call[k].pc = "idle"
  /\ InProgress(s, clock) /\ IsNext(s, q)
  /\ call' = [call EXCEPT ![k] = [Idle EXCEPT !.pc = "scoring", !.sess = s, !.question = q]]
  /\ UNCHANGED <<clock, candidate, session, completions>>

BeginFinish(k, s) ==
  /\ call[k].pc = "idle"
  /\ InProgress(s, clock)
  /\ call' = [call EXCEPT ![k] = [Idle EXCEPT !.pc = "finishing", !.sess = s]]
  /\ UNCHANGED <<clock, candidate, session, completions>>

\* Mutant: the session was live when the request arrived, and that will do.
LiveAtArrival(k) == session[call[k].sess].st # "erased"

\* _locked_live: candidate, session, status and a fresh clock, under the lock.
LockedLive(k) == InProgress(call[k].sess, clock)

\* Mutant: the question that was current when the request arrived.
CurrentAtArrival(k) == TRUE

StillCurrent(k) == IsNext(call[k].sess, call[k].question)

\* Mutant: the last answer is stored and the session left to be finished.
LeftOpen(row) == row

\* Mutant: what was left early is stored as abandoned.
StoredAbandoned(row) ==
  [row EXCEPT !.st = IF Len(row.turns) = Planned THEN "completed" ELSE "abandoned",
              !.assessed = Len(row.turns)]

\* _save_completion, over exactly the turns the same transaction sees.
Completed(row) == [row EXCEPT !.st = "completed", !.assessed = Len(row.turns)]

CountCompletion(s) ==
  completions' = IF session'[s].st = "completed" THEN [completions EXCEPT ![s] = @ + 1] ELSE completions

\* add_turn: the turn, and with the last one the assessment and its audit.
SaveTurn(k) ==
  LET s == call[k].sess
      row == [session[s] EXCEPT !.turns = Append(@, call[k].question)]
  IN  /\ call[k].pc = "scoring" /\ LockedLive(k) /\ StillCurrent(k)
      /\ session' = [session EXCEPT ![s] =
                       IF 1..Planned \subseteq Answered(s) \cup {call[k].question}
                       THEN Completed(row) ELSE row]
      /\ CountCompletion(s)
      /\ Leave(k)
      /\ UNCHANGED <<clock, candidate>>

\* complete_session.
Finish(k) ==
  LET s == call[k].sess
  IN  /\ call[k].pc = "finishing" /\ LockedLive(k)
      /\ session' = [session EXCEPT ![s] = Completed(@)]
      /\ CountCompletion(s)
      /\ Leave(k)
      /\ UNCHANGED <<clock, candidate>>

\* Refused under the lock: nothing is written.
Refused(k) ==
  /\ \/ call[k].pc \in {"scoring", "finishing"} /\ ~LockedLive(k)
     \/ call[k].pc = "scoring" /\ ~StillCurrent(k)
  /\ Leave(k)
  /\ UNCHANGED <<clock, candidate, session, completions>>

\* A transcription that fails, a cancelled request, a crash.
Abort(k) ==
  /\ call[k].pc # "idle"
  /\ Leave(k)
  /\ UNCHANGED <<clock, candidate, session, completions>>

-----------------------------------------------------------------------------
\* delete_candidate: sessions and turns cascade.
Erase(c) ==
  /\ candidate[c] = "live"
  /\ candidate' = [candidate EXCEPT ![c] = "erased"]
  /\ session' = [s \in Sessions |->
                   IF session[s].cand = c THEN [NoSession EXCEPT !.st = "erased"] ELSE session[s]]
  /\ UNCHANGED <<clock, call, completions>>

Tick ==
  /\ clock < MaxClock
  /\ clock' = clock + 1
  /\ UNCHANGED <<candidate, session, call, completions>>

Request(k) ==
  \/ \E c \in Candidates : BeginStart(k, c)
  \/ \E s \in Sessions : BeginFinish(k, s) \/ \E q \in 1..Planned : BeginAnswer(k, s, q)

Next ==
  \/ Tick
  \/ \E c \in Candidates : Erase(c)
  \/ \E k \in Calls : \/ Request(k)
                      \/ Create(k)
                      \/ SaveTurn(k)
                      \/ Finish(k)
                      \/ Refused(k)
                      \/ Abort(k)

Spec == Init /\ [][Next]_vars

-----------------------------------------------------------------------------
(* Properties. *)

\* A candidate has at most one unfinished, unexpired session, however many
\* starts overlap.
OneLiveSession ==
  \A c \in Candidates : \A s, t \in LiveSessions(c, clock) : s = t

\* The turns of a session answer its plan in order, each question once, however
\* many answers to one question are being scored.
AnswersInOrder ==
  \A s \in Sessions : \A n \in DOMAIN session[s].turns : session[s].turns[n] = n

\* A session is completed once, its assessment covers exactly its turns, and
\* the last answer never stays without one.
AssessedAsAnswered ==
  \A s \in Sessions :
    /\ session[s].st = "completed" => session[s].assessed = Len(session[s].turns) /\ completions[s] = 1
    /\ session[s].st = "in_progress" => Len(session[s].turns) < Planned /\ completions[s] = 0

\* A session changes only while it is live: an answer or a finish that outlives
\* its session, through expiry, completion or erasure, leaves no trace.
ChangesOnlyWhileLive ==
  [][\A s \in Sessions :
       session'[s] # session[s] =>
         \/ session[s].st = "free"
         \/ InProgress(s, clock)
         \/ session'[s].st = "erased"]_vars

\* No session outlives or follows the erasure of its candidate.
ErasureLeavesNothing ==
  \A s \in Sessions : session[s].st \in Statuses => candidate[session[s].cand] = "live"

=============================================================================
