--------------------------- MODULE InterviewProofs ---------------------------
(***************************************************************************)
(* One live session per candidate, answers in the order of the plan and an *)
(* assessment of exactly those answers, for any number of sessions, calls, *)
(* candidates and questions.                                               *)
(*                                                                         *)
(* The argument: whatever a call read before its provider answered, the    *)
(* transaction that writes looks again under the lock.  So the session it  *)
(* writes is live, and the turns of a live session are a beginning of the  *)
(* plan, whose next question is the only one the new turn can answer.      *)
(***************************************************************************)
EXTENDS Interview, TLAPS

\* A call knows whom or which session it is about, a session its candidate;
\* a session that was never created has no completion.
CallSound == \A k \in Calls :
  /\ call[k].pc = "starting" => call[k].cand \in Candidates
  /\ call[k].pc \in {"scoring", "finishing"} => call[k].sess \in Sessions

SessionSound == \A s \in Sessions :
  /\ session[s].st \in Statuses => session[s].cand \in Candidates
  /\ session[s].st = "free" => completions[s] = 0

TypeInv == TypeOK /\ CallSound /\ SessionSound

InterviewInv == TypeInv /\ OneLiveSession /\ AnswersInOrder /\ AssessedAsAnswered /\ ErasureLeavesNothing

-----------------------------------------------------------------------------
\* No session and no call: the invariant holds where the service starts.
LEMMA InitInv == ASSUME Init PROVE InterviewInv
<1> USE ConstantsOK DEF ConstantsOK, Init, NoSession, Idle
<1>1. TypeOK
  BY DEF TypeOK, SessionRows, CallRecs, Statuses, Unassessed
<1>2. CallSound /\ SessionSound
  BY DEF CallSound, SessionSound, Statuses
<1>3. OneLiveSession
  BY DEF OneLiveSession, LiveSessions, InProgress
<1>4. AnswersInOrder /\ AssessedAsAnswered /\ ErasureLeavesNothing
  BY DEF AnswersInOrder, AssessedAsAnswered, ErasureLeavesNothing, Statuses
<1> QED
  BY <1>1, <1>2, <1>3, <1>4 DEF InterviewInv, TypeInv

\* A step that changes calls and nothing else.
LEMMA OnlyCalls ==
  ASSUME InterviewInv, call' \in [Calls -> CallRecs], CallSound',
         UNCHANGED <<clock, candidate, session, completions>>
  PROVE  InterviewInv'
<1>1. TypeInv'
  BY DEF InterviewInv, TypeInv, TypeOK, SessionSound
<1>2. OneLiveSession'
  BY DEF InterviewInv, OneLiveSession, LiveSessions, InProgress
<1>3. AnswersInOrder' /\ AssessedAsAnswered' /\ ErasureLeavesNothing'
  BY DEF InterviewInv, AnswersInOrder, AssessedAsAnswered, ErasureLeavesNothing
<1> QED
  BY <1>1, <1>2, <1>3 DEF InterviewInv

\* The records that stand for "no call" and "no session" have their types.
LEMMA BlankTyped == Idle \in CallRecs /\ NoSession \in SessionRows
<1>1. 1 \in 1..Planned
  BY ConstantsOK DEF ConstantsOK
<1>2. << >> \in Seq(1..Planned)
  OBVIOUS
<1> QED
  BY <1>1, <1>2 DEF Idle, CallRecs, NoSession, SessionRows, Unassessed

\* A call that leaves keeps the calls typed.
LEMMA LeaveTyped ==
  ASSUME TypeInv, NEW k \in Calls, Leave(k)
  PROVE  call' \in [Calls -> CallRecs] /\ CallSound'
<1>1. call' \in [Calls -> CallRecs]
  BY BlankTyped DEF TypeInv, TypeOK, Leave
<1>2. CallSound'
  BY DEF TypeInv, TypeOK, CallSound, Leave, Idle
<1> QED
  BY <1>1, <1>2

\* The checks before the providers are called write no row.
LEMMA BeginInv ==
  ASSUME InterviewInv, NEW k \in Calls, Request(k)
  PROVE  InterviewInv'
<1>1. ASSUME NEW c \in Candidates, BeginStart(k, c) PROVE InterviewInv'
  <2>1. [Idle EXCEPT !.pc = "starting", !.cand = c] \in CallRecs
    BY BlankTyped DEF CallRecs
  <2>2. call' \in [Calls -> CallRecs] /\ CallSound'
    BY <1>1, <2>1 DEF BeginStart, Idle, InterviewInv, TypeInv, TypeOK, CallSound
  <2> QED
    BY <1>1, <2>2, OnlyCalls DEF BeginStart
<1>2. ASSUME NEW s \in Sessions, BeginFinish(k, s) PROVE InterviewInv'
  <2>1. [Idle EXCEPT !.pc = "finishing", !.sess = s] \in CallRecs
    BY BlankTyped DEF CallRecs
  <2>2. call' \in [Calls -> CallRecs] /\ CallSound'
    BY <1>2, <2>1 DEF BeginFinish, Idle, InterviewInv, TypeInv, TypeOK, CallSound
  <2> QED
    BY <1>2, <2>2, OnlyCalls DEF BeginFinish
<1>3. ASSUME NEW s \in Sessions, NEW q \in 1..Planned, BeginAnswer(k, s, q) PROVE InterviewInv'
  <2>1. [Idle EXCEPT !.pc = "scoring", !.sess = s, !.question = q] \in CallRecs
    BY BlankTyped DEF CallRecs
  <2>2. call' \in [Calls -> CallRecs] /\ CallSound'
    BY <1>3, <2>1 DEF BeginAnswer, Idle, InterviewInv, TypeInv, TypeOK, CallSound
  <2> QED
    BY <1>3, <2>2, OnlyCalls DEF BeginAnswer
<1> QED
  BY <1>1, <1>2, <1>3 DEF Request

\* A refusal, or a call that dies, leaves every row as it was.
LEMMA GiveUpInv ==
  ASSUME InterviewInv, NEW k \in Calls, Refused(k) \/ Abort(k)
  PROVE  InterviewInv'
BY OnlyCalls, LeaveTyped DEF Refused, Abort, InterviewInv

-----------------------------------------------------------------------------
\* `create_session` looks for a live session again under the lock of the
\* candidate.
LEMMA CreateInv ==
  ASSUME InterviewInv, NEW k \in Calls, Create(k)
  PROVE  InterviewInv'
<1> DEFINE c == call[k].cand
<1>1. call' \in [Calls -> CallRecs] /\ CallSound' /\ c \in Candidates
  BY LeaveTyped DEF Create, InterviewInv, TypeInv, CallSound
<1>2. CASE UNCHANGED session
  BY <1>1, <1>2, OnlyCalls DEF Create
<1>3. CASE Known(c) /\ NoneLive(k)
  <2>1. PICK s \in Sessions :
          /\ session[s].st = "free"
          /\ session' = [session EXCEPT ![s] = [NoSession EXCEPT
                           !.st = "in_progress", !.cand = c, !.expires = clock + TTL]]
    BY <1>3 DEF Create
  <2> DEFINE row == [NoSession EXCEPT !.st = "in_progress", !.cand = c, !.expires = clock + TTL]
  <2>2. row \in SessionRows
    <3>1. clock + TTL \in Nat
      BY ConstantsOK DEF ConstantsOK, InterviewInv, TypeInv, TypeOK
    <3> QED
      BY <1>1, <3>1, BlankTyped DEF SessionRows, Statuses
  <2>3. /\ session' \in [Sessions -> SessionRows] /\ session'[s] = row
        /\ \A t \in Sessions : t # s => session'[t] = session[t]
    BY <2>1, <2>2 DEF InterviewInv, TypeInv, TypeOK
  <2>4. TypeInv'
    BY <1>1, <2>1, <2>3 DEF InterviewInv, TypeInv, TypeOK, SessionSound, Create, NoSession, Statuses
  <2>5. OneLiveSession'
    <3> SUFFICES ASSUME NEW d \in Candidates, NEW t \in LiveSessions(d, clock)',
                        NEW u \in LiveSessions(d, clock)'
                 PROVE  t = u
      BY DEF OneLiveSession
    <3>1. clock' = clock
      BY DEF Create
    <3>2. \A x \in Sessions : x # s /\ x \in LiveSessions(d, clock)' => x \in LiveSessions(d, clock)
      BY <2>3, <3>1 DEF LiveSessions, InProgress
    <3>3. LiveSessions(c, clock) = {}
      BY <1>3 DEF NoneLive
    <3>4. s \in LiveSessions(d, clock)' => d = c
      BY <2>3 DEF LiveSessions, NoSession
    <3> QED
      BY <3>2, <3>3, <3>4 DEF InterviewInv, OneLiveSession, LiveSessions
  <2>6. AnswersInOrder'
    <3>1. DOMAIN session'[s].turns = {}
      BY <2>3 DEF NoSession
    <3> QED
      BY <2>3, <3>1 DEF InterviewInv, AnswersInOrder
  <2>7. AssessedAsAnswered'
    BY <2>1, <2>3, ConstantsOK DEF ConstantsOK, InterviewInv, TypeInv, SessionSound, AssessedAsAnswered,
                                   NoSession, Create
  <2>8. ErasureLeavesNothing'
    BY <1>3, <2>3 DEF InterviewInv, ErasureLeavesNothing, NoSession, Known, Create
  <2> QED
    BY <2>4, <2>5, <2>6, <2>7, <2>8 DEF InterviewInv
<1> QED
  BY <1>2, <1>3 DEF Create

-----------------------------------------------------------------------------
(* The two transactions that write a live session. *)

\* A live session is written, under its lock, to a row of its candidate that is
\* in progress or completed.
LEMMA WriteInv ==
  ASSUME InterviewInv, NEW k \in Calls, NEW s \in Sessions, NEW row \in SessionRows,
         InProgress(s, clock), session' = [session EXCEPT ![s] = row],
         row.cand = session[s].cand, row.expires = session[s].expires,
         \A n \in DOMAIN row.turns : row.turns[n] = n,
         \/ row.st = "completed" /\ row.assessed = Len(row.turns)
         \/ row.st = "in_progress" /\ Len(row.turns) < Planned,
         CountCompletion(s), Leave(k), UNCHANGED <<clock, candidate>>
  PROVE  InterviewInv'
<1>1. /\ session' \in [Sessions -> SessionRows] /\ session'[s] = row
      /\ \A t \in Sessions : t # s => session'[t] = session[t]
  BY DEF InterviewInv, TypeInv, TypeOK
<1>2. session[s].st = "in_progress" /\ completions[s] = 0
  BY DEF InProgress, InterviewInv, AssessedAsAnswered
<1>3. /\ completions' \in [Sessions -> Nat]
      /\ completions'[s] = IF row.st = "completed" THEN 1 ELSE 0
      /\ \A t \in Sessions : t # s => completions'[t] = completions[t]
  BY <1>1, <1>2 DEF CountCompletion, InterviewInv, TypeInv, TypeOK
<1>4. TypeInv'
  BY <1>1, <1>2, <1>3, LeaveTyped DEF InterviewInv, TypeInv, TypeOK, SessionSound, Statuses
<1>5. OneLiveSession'
  <2>1. \A c \in Candidates : \A t \in LiveSessions(c, clock)' : t \in LiveSessions(c, clock)
    BY <1>1 DEF LiveSessions, InProgress
  <2> QED
    BY <2>1 DEF InterviewInv, OneLiveSession
<1>6. AnswersInOrder'
  BY <1>1 DEF InterviewInv, AnswersInOrder
<1>7. AssessedAsAnswered'
  BY <1>1, <1>3 DEF InterviewInv, AssessedAsAnswered
<1>8. ErasureLeavesNothing'
  BY <1>1, <1>2 DEF InterviewInv, ErasureLeavesNothing, Statuses
<1> QED
  BY <1>4, <1>5, <1>6, <1>7, <1>8 DEF InterviewInv

\* Completing a session stores an assessment of the turns it has.
LEMMA CompletedTyped ==
  ASSUME NEW r \in SessionRows
  PROVE  /\ Completed(r) \in SessionRows
         /\ Completed(r).st = "completed" /\ Completed(r).assessed = Len(r.turns)
         /\ Completed(r).turns = r.turns
         /\ Completed(r).cand = r.cand /\ Completed(r).expires = r.expires
<1>1. Len(r.turns) \in Nat
  BY DEF SessionRows
<1> QED
  BY <1>1 DEF Completed, SessionRows, Statuses

\* The next question of a session whose turns are in order.
LEMMA NextQuestion ==
  ASSUME InterviewInv, NEW s \in Sessions, NEW q \in 1..Planned, IsNext(s, q)
  PROVE  q = Len(session[s].turns) + 1 /\ Answered(s) = 1..(q - 1)
<1> DEFINE n == Len(session[s].turns)
<1>1. session[s].turns \in Seq(1..Planned) /\ n \in Nat /\ DOMAIN session[s].turns = 1..n
  BY DEF InterviewInv, TypeInv, TypeOK, SessionRows
<1>2. Answered(s) = 1..n
  BY <1>1 DEF Answered, InterviewInv, AnswersInOrder
<1>3. q > n
  BY <1>1, <1>2, ConstantsOK DEF ConstantsOK, IsNext, Open
<1>4. n + 1 \in Open(s)
  BY <1>1, <1>2, <1>3, ConstantsOK DEF ConstantsOK, Open
<1> QED
  BY <1>1, <1>2, <1>3, <1>4 DEF IsNext

\* `add_turn` appends the one question that follows the last, while the session
\* is live.
LEMMA SaveTurnInv ==
  ASSUME InterviewInv, NEW k \in Calls, SaveTurn(k)
  PROVE  InterviewInv'
<1> USE ConstantsOK DEF ConstantsOK
<1> DEFINE s == call[k].sess
           q == call[k].question
           old == session[s]
           turns == Append(old.turns, q)
           open == [old EXCEPT !.turns = turns]
           row == IF 1..Planned \subseteq Answered(s) \cup {q} THEN Completed(open) ELSE open
<1>1. s \in Sessions /\ q \in 1..Planned /\ InProgress(s, clock) /\ IsNext(s, q)
  BY DEF SaveTurn, LockedLive, StillCurrent, InterviewInv, TypeInv, TypeOK, CallSound, CallRecs
<1>2. old \in SessionRows /\ old.turns \in Seq(1..Planned) /\ Len(old.turns) \in Nat
  BY <1>1 DEF InterviewInv, TypeInv, TypeOK, SessionRows
<1>3. q = Len(old.turns) + 1 /\ Answered(s) = 1..(q - 1)
  BY <1>1, NextQuestion
<1>4. turns \in Seq(1..Planned) /\ Len(turns) = q /\ \A n \in DOMAIN turns : turns[n] = n
  BY <1>1, <1>2, <1>3 DEF InterviewInv, AnswersInOrder
<1>5. open.st = "in_progress"
  BY <1>1, <1>2 DEF SessionRows, InProgress
<1>6. ~(1..Planned \subseteq Answered(s) \cup {q}) => q < Planned
  BY <1>1, <1>3
<1>7. /\ open \in SessionRows /\ open.turns = turns
      /\ open.cand = old.cand /\ open.expires = old.expires
  BY <1>2, <1>4 DEF SessionRows
<1>8. /\ row \in SessionRows /\ row.turns = turns
      /\ row.cand = old.cand /\ row.expires = old.expires
      /\ \/ row.st = "completed" /\ row.assessed = Len(turns)
         \/ row.st = "in_progress" /\ Len(turns) < Planned
  <2>1. CASE 1..Planned \subseteq Answered(s) \cup {q}
    BY <1>7, <2>1, CompletedTyped
  <2>2. CASE ~(1..Planned \subseteq Answered(s) \cup {q})
    BY <1>4, <1>5, <1>6, <1>7, <2>2
  <2> QED
    BY <2>1, <2>2
<1>9. session' = [session EXCEPT ![s] = row]
  BY DEF SaveTurn
<1> QED
  BY <1>1, <1>4, <1>8, <1>9, WriteInv DEF SaveTurn

\* `complete_session` completes only a session that is live when it holds the
\* lock.
LEMMA FinishInv ==
  ASSUME InterviewInv, NEW k \in Calls, Finish(k)
  PROVE  InterviewInv'
<1> DEFINE s == call[k].sess
           row == Completed(session[s])
<1>1. s \in Sessions /\ InProgress(s, clock)
  BY DEF Finish, LockedLive, InterviewInv, TypeInv, CallSound
<1>2. session[s] \in SessionRows
  BY <1>1 DEF InterviewInv, TypeInv, TypeOK
<1>3. row \in SessionRows /\ row.st = "completed" /\ row.turns = session[s].turns
      /\ row.cand = session[s].cand /\ row.expires = session[s].expires
      /\ row.assessed = Len(row.turns)
  BY <1>2, CompletedTyped
<1>4. \A n \in DOMAIN row.turns : row.turns[n] = n
  BY <1>1, <1>3 DEF InterviewInv, AnswersInOrder
<1>5. session' = [session EXCEPT ![s] = row]
  BY DEF Finish
<1> QED
  BY <1>1, <1>3, <1>4, <1>5, WriteInv DEF Finish

-----------------------------------------------------------------------------
\* Erasure removes the sessions of the candidate with their turns.
LEMMA EraseInv ==
  ASSUME InterviewInv, NEW c \in Candidates, Erase(c)
  PROVE  InterviewInv'
<1> DEFINE gone == [NoSession EXCEPT !.st = "erased"]
<1>1. gone \in SessionRows
  BY BlankTyped DEF SessionRows
<1>2. \A s \in Sessions : session'[s] = IF session[s].cand = c THEN gone ELSE session[s]
  BY DEF Erase
<1>3. TypeOK'
  BY <1>1 DEF Erase, InterviewInv, TypeInv, TypeOK
<1>4. CallSound' /\ SessionSound'
  BY <1>2 DEF Erase, InterviewInv, TypeInv, CallSound, SessionSound, NoSession, Statuses
<1>5. OneLiveSession'
  <2>1. \A d \in Candidates : \A t \in LiveSessions(d, clock)' : t \in LiveSessions(d, clock)
    BY <1>2 DEF Erase, LiveSessions, InProgress, NoSession
  <2> QED
    BY <2>1 DEF InterviewInv, OneLiveSession
<1>6. AnswersInOrder'
  BY <1>2 DEF InterviewInv, AnswersInOrder, NoSession
<1>7. AssessedAsAnswered'
  BY <1>2 DEF Erase, InterviewInv, AssessedAsAnswered, NoSession
<1>8. ErasureLeavesNothing'
  BY <1>2 DEF Erase, InterviewInv, TypeInv, TypeOK, SessionSound, ErasureLeavesNothing, NoSession, Statuses
<1> QED
  BY <1>3, <1>4, <1>5, <1>6, <1>7, <1>8 DEF InterviewInv, TypeInv

\* Time passing can only take sessions out of the live ones.
LEMMA TickInv ==
  ASSUME InterviewInv, Tick
  PROVE  InterviewInv'
<1>1. clock \in Nat /\ clock' = clock + 1 /\ TypeInv'
  BY DEF Tick, InterviewInv, TypeInv, TypeOK, CallSound, SessionSound
<1>2. OneLiveSession'
  <2>1. \A s \in Sessions : session[s].expires \in Nat
    BY DEF InterviewInv, TypeInv, TypeOK, SessionRows
  <2>2. \A c \in Candidates : \A t \in LiveSessions(c, clock)' : t \in LiveSessions(c, clock)
    BY <1>1, <2>1 DEF Tick, LiveSessions, InProgress
  <2> QED
    BY <2>2 DEF InterviewInv, OneLiveSession
<1>3. AnswersInOrder' /\ AssessedAsAnswered' /\ ErasureLeavesNothing'
  BY DEF Tick, InterviewInv, AnswersInOrder, AssessedAsAnswered, ErasureLeavesNothing
<1> QED
  BY <1>1, <1>2, <1>3 DEF InterviewInv

\* Every step of the component keeps the invariant.
LEMMA NextInv ==
  ASSUME InterviewInv, [Next]_vars
  PROVE  InterviewInv'
<1>1. CASE Next
  BY <1>1, TickInv, EraseInv, BeginInv, CreateInv, SaveTurnInv, FinishInv, GiveUpInv DEF Next
<1>2. CASE UNCHANGED vars
  <2>1. UNCHANGED <<clock, candidate, session, completions>> /\ UNCHANGED call
    BY <1>2 DEF vars
  <2> QED
    BY <2>1, OnlyCalls DEF InterviewInv, TypeInv, TypeOK, CallSound
<1> QED
  BY <1>1, <1>2

-----------------------------------------------------------------------------
\* The inductive invariant holds in every reachable state of the calls of
\* interview/store.py and the rows they write.
THEOREM InvariantHolds == Spec => []InterviewInv
<1> QED
  BY InitInv, NextInv, PTL DEF Spec

\* Every reachable state of the interview tables and calls is well typed.
THEOREM InterviewTyped == Spec => []TypeOK
<1>1. InterviewInv => TypeOK
  BY DEF InterviewInv, TypeInv
<1> QED
  BY <1>1, InvariantHolds, PTL

\* However many starts overlap, a candidate has at most one live session.
THEOREM SessionsExclusive == Spec => []OneLiveSession
<1>1. InterviewInv => OneLiveSession
  BY DEF InterviewInv
<1> QED
  BY <1>1, InvariantHolds, PTL

\* However many answers are scored at once, turns follow the plan.
THEOREM TurnsInOrder == Spec => []AnswersInOrder
<1>1. InterviewInv => AnswersInOrder
  BY DEF InterviewInv
<1> QED
  BY <1>1, InvariantHolds, PTL

\* A session is completed once and its assessment covers exactly its turns.
THEOREM AssessmentsComplete == Spec => []AssessedAsAnswered
<1>1. InterviewInv => AssessedAsAnswered
  BY DEF InterviewInv
<1> QED
  BY <1>1, InvariantHolds, PTL

\* No call writes a session of a candidate who was erased while it ran.
THEOREM ErasureIsComplete == Spec => []ErasureLeavesNothing
<1>1. InterviewInv => ErasureLeavesNothing
  BY DEF InterviewInv
<1> QED
  BY <1>1, InvariantHolds, PTL

\* An answer or a finish that outlives its session leaves no trace: a step
\* changes a session only when it creates, continues or erases it.
THEOREM OnlyLiveSessionsChange == Spec => ChangesOnlyWhileLive
<1> DEFINE Live == \A s \in Sessions :
                     session'[s] # session[s] =>
                       \/ session[s].st = "free"
                       \/ InProgress(s, clock)
                       \/ session'[s].st = "erased"
<1>1. ASSUME InterviewInv, [Next]_vars PROVE Live
  <2>0. session \in [Sessions -> SessionRows]
    BY <1>1 DEF InterviewInv, TypeInv, TypeOK
  <2>1. CASE UNCHANGED session
    BY <2>1
  <2>2. ASSUME NEW k \in Calls, Create(k) PROVE Live
    BY <2>0, <2>2 DEF Create
  <2>3. ASSUME NEW k \in Calls, SaveTurn(k) PROVE Live
    BY <2>0, <2>3 DEF SaveTurn, LockedLive
  <2>4. ASSUME NEW k \in Calls, Finish(k) PROVE Live
    BY <2>0, <2>4 DEF Finish, LockedLive
  <2>5. ASSUME NEW c \in Candidates, Erase(c) PROVE Live
    BY <2>5 DEF Erase, NoSession
  <2>6. Next => \/ UNCHANGED session
                \/ \E k \in Calls : Create(k) \/ SaveTurn(k) \/ Finish(k)
                \/ \E c \in Candidates : Erase(c)
    BY DEF Next, Tick, Request, BeginStart, BeginFinish, BeginAnswer, Refused, Abort
  <2> QED
    BY <1>1, <2>1, <2>2, <2>3, <2>4, <2>5, <2>6 DEF vars
<1>2. InterviewInv /\ [Next]_vars => [Live]_vars
  BY <1>1
<1>3. Spec => [][Next]_vars
  BY DEF Spec
<1>4. Spec => []InterviewInv
  BY InvariantHolds
<1> QED
  BY <1>2, <1>3, <1>4, PTL DEF ChangesOnlyWhileLive

=============================================================================
