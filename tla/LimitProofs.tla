---------------------------- MODULE LimitProofs ----------------------------
(***************************************************************************)
(* Theorems about what bounds the process's work: the executors, for any   *)
(* number of jobs and workers, and the rate limiter, for any limit, any    *)
(* window and any number of overlapping requests.                          *)
(***************************************************************************)
EXTENDS Executors, RateLimit, FiniteSetTheorems, TLAPS

-----------------------------------------------------------------------------
(***************************************************************************)
(* Theorems about the bounded executors: for any operations and any        *)
(* capacity, admission keeps within it and the shutdown outwaits the work. *)
(***************************************************************************)

\* What EngineOutlivesWork rests on: executors close in their order and only during a
\* shutdown, each step of which found the one before it idle; a child lives in a running
\* job; and a job told to stop in time can neither pass its last look nor yield a text.
ShutdownInOrder ==
  /\ closed # {} => cleanup # "open"
  /\ "pdf" \in closed => "sql" \in closed /\ Active("sql") = {}
  /\ cleanup \in {"disposed", "finished"} => "pdf" \in closed /\ Active("pdf") = {}
  /\ closer \in {"returned", "failed", "raised"} => cleanup = "finished"

SlotsHeld == \A k \in Kinds : IsFiniteSet(Active(k)) /\ Cardinality(Active(k)) <= Capacity

JobSound(j, pdf) ==
  /\ j.child => j.st = "running"
  /\ j.result # "none" => j.st \in {"ended", "released"}
  /\ j.stop /\ ~j.late => pdf /\ j.st # "checked" /\ j.result # "ok"

JobsSound == \A o \in Work : JobSound(work[o], o \in PdfWork)

ExecInv == ExecTypeOK /\ ShutdownInOrder /\ SlotsHeld /\ JobsSound

-----------------------------------------------------------------------------
\* Nothing is admitted to a closed executor, so nothing joins the active set of one that
\* is waited for; every step but an admission can only shrink it.
LEMMA ActiveShrinks ==
  ASSUME NEW k \in Kinds, IsFiniteSet(Active(k)), Cardinality(Active(k)) <= Capacity,
         Active(k)' \subseteq Active(k)
  PROVE  IsFiniteSet(Active(k)') /\ Cardinality(Active(k)') <= Capacity
<1>1. IsFiniteSet(Active(k)') /\ Cardinality(Active(k)') <= Cardinality(Active(k))
  BY FS_Subset
<1>2. Cardinality(Active(k)) \in Int /\ Cardinality(Active(k)') \in Int /\ Capacity \in Int
  BY <1>1, FS_CardinalityType, CapacityOK
<1> QED BY <1>1, <1>2

LEMMA ExecutorsStart == ExecInit => ExecInv
<1> SUFFICES ASSUME ExecInit PROVE ExecInv
  OBVIOUS
<1>1. ExecTypeOK
  BY DEF ExecInit, ExecTypeOK, NoWork
<1>2. \A k \in Kinds : Active(k) = {}
  BY DEF ExecInit, Active, OfKind, NoWork, Work
<1>3. ShutdownInOrder
  BY DEF ExecInit, ShutdownInOrder
<1>4. SlotsHeld
  BY <1>2, FS_EmptySet, CapacityOK DEF SlotsHeld
<1>5. JobsSound
  BY DEF ExecInit, JobsSound, JobSound, NoWork
<1> QED BY <1>1, <1>3, <1>4, <1>5 DEF ExecInv

Job == [st : {"free", "running", "checked", "ended", "released", "refused"},
        caller : {"none", "waiting", "answered", "refused", "pending", "gone"},
        stop : BOOLEAN, late : BOOLEAN, child : BOOLEAN, result : {"none", "ok", "error", "stopped"}]

Held == {"running", "checked", "ended"}

\* A step that touches one operation, admits nothing and leaves the shutdown alone.
LEMMA JobStep ==
  ASSUME ExecInv, NEW o \in Work, NEW e \in Job,
         UNCHANGED <<closed, cleanup, closer>>, work' = [work EXCEPT ![o] = e],
         e.st \in Held => work[o].st \in Held, JobSound(e, o \in PdfWork)
  PROVE  ExecInv'
<1>1. work \in [Work -> Job] /\ work' \in [Work -> Job]
  BY DEF ExecInv, ExecTypeOK, Job
<1>2. ExecTypeOK'
  BY <1>1 DEF ExecInv, ExecTypeOK, Job
<1>3. \A q \in Work : work'[q] = IF q = o THEN e ELSE work[q]
  BY <1>1
<1>4. \A k \in Kinds : Active(k)' \subseteq Active(k)
  BY <1>3 DEF Active, OfKind, Held
<1>5. SlotsHeld'
  BY <1>4, ActiveShrinks DEF ExecInv, SlotsHeld
<1>6. ShutdownInOrder'
  BY <1>4 DEF ExecInv, ShutdownInOrder, Kinds
<1>7. JobsSound'
  BY <1>3 DEF ExecInv, JobsSound
<1> QED BY <1>2, <1>5, <1>6, <1>7 DEF ExecInv

LEMMA RunSound == ASSUME ExecInv, NEW o \in Work, Run(o) PROVE ExecInv'
<1> DEFINE k0 == KindOf(o)
           taken == [work[o] EXCEPT !.st = "running", !.caller = "waiting", !.child = o \in PdfWork]
           turned == [work[o] EXCEPT !.st = "refused", !.caller = "refused"]
<1>1. work \in [Work -> Job] /\ work[o] \in Job /\ work[o].st = "free"
  BY DEF ExecInv, ExecTypeOK, Job, Run
<1>2. JobSound(work[o], o \in PdfWork) /\ (o \in PdfWork) \in BOOLEAN
  BY DEF ExecInv, JobsSound
<1>3. taken \in Job /\ turned \in Job
  BY <1>1, <1>2 DEF Job
<1>4. JobSound(taken, o \in PdfWork) /\ JobSound(turned, o \in PdfWork)
  BY <1>1, <1>2 DEF JobSound, Job
<1>5. CASE work' = [work EXCEPT ![o].st = "refused", ![o].caller = "refused"]
  <2>1. work' = [work EXCEPT ![o] = turned] /\ UNCHANGED <<closed, cleanup, closer>>
    BY <1>1, <1>5 DEF Run
  <2>2. turned.st \notin Held
    BY <1>1 DEF Job, Held
  <2> HIDE DEF turned
  <2> QED BY <1>3, <1>4, <2>1, <2>2, JobStep
<1>6. CASE /\ Admits(k0)
           /\ work' = [work EXCEPT ![o].st = "running", ![o].caller = "waiting", ![o].child = o \in PdfWork]
  <2>1. work' = [work EXCEPT ![o] = taken] /\ UNCHANGED <<closed, cleanup, closer>>
    BY <1>1, <1>6 DEF Run
  <2>2. \A q \in Work : work'[q] = IF q = o THEN taken ELSE work[q]
    BY <1>1, <2>1
  <2>3. ExecTypeOK'
    <3>1. work' \in [Work -> Job]
      BY <1>1, <1>3, <2>1
    <3> QED BY <2>1, <3>1 DEF ExecInv, ExecTypeOK, Job
  <2>4. ShutdownInOrder'
    <3>1. k0 \in Kinds /\ k0 \notin closed
      BY <1>6 DEF Admits, KindOf, Kinds
    <3>2. "pdf" \notin closed
      BY <3>1 DEF ExecInv, ShutdownInOrder, Kinds
    <3> QED BY <2>1, <3>2 DEF ExecInv, ShutdownInOrder
  <2>5. k0 \in Kinds /\ o \in OfKind(k0) /\ \A k \in Kinds : k # k0 => o \notin OfKind(k)
    BY DEF KindOf, Kinds, OfKind
  <2>6. Active(k0)' = Active(k0) \cup {o} /\ \A k \in Kinds : k # k0 => Active(k)' = Active(k)
    <3>1. taken.st = "running"
      BY <1>1 DEF Job
    <3> HIDE DEF taken, k0
    <3> QED BY <2>2, <2>5, <3>1 DEF Active, OfKind
  <2>7. o \notin Active(k0)
    BY <1>1 DEF Active
  <2>8. IsFiniteSet(Active(k0)') /\ Cardinality(Active(k0)') = Cardinality(Active(k0)) + 1
    BY <2>5, <2>6, <2>7, FS_AddElement DEF ExecInv, SlotsHeld
  <2>9. Cardinality(Active(k0)') <= Capacity
    BY <1>6, <2>5, <2>8, FS_CardinalityType, CapacityOK DEF Admits, ExecInv, SlotsHeld
  <2>10. SlotsHeld'
    BY <2>5, <2>6, <2>8, <2>9 DEF ExecInv, SlotsHeld
  <2>11. JobsSound'
    BY <1>4, <2>2 DEF ExecInv, JobsSound
  <2> QED BY <2>3, <2>4, <2>10, <2>11 DEF ExecInv
<1> QED BY <1>5, <1>6 DEF Run

\* The steps of a running operation and of its caller.
LEMMA LastCheckSound == ASSUME ExecInv, NEW o \in Work, LastCheck(o) PROVE ExecInv'
<1> DEFINE e == [work[o] EXCEPT !.st = "checked", !.child = FALSE]
<1>1. work[o] \in Job /\ JobSound(work[o], o \in PdfWork) /\ (o \in PdfWork) \in BOOLEAN
  BY DEF ExecInv, ExecTypeOK, Job, JobsSound
<1>2. e \in Job
  BY <1>1 DEF LastCheck, Job
<1>3. JobSound(e, o \in PdfWork)
  BY <1>1 DEF LastCheck, JobSound, Job
<1>4. e.st \in Held => work[o].st \in Held
  BY <1>1 DEF LastCheck, Held, Job
<1>5. work' = [work EXCEPT ![o] = e] /\ UNCHANGED <<closed, cleanup, closer>>
  BY DEF LastCheck
<1> QED BY <1>2, <1>3, <1>4, <1>5, JobStep

LEMMA ReleaseSound == ASSUME ExecInv, NEW o \in Work, Release(o) PROVE ExecInv'
<1> DEFINE e == [work[o] EXCEPT !.st = "released"]
<1>1. work[o] \in Job /\ JobSound(work[o], o \in PdfWork) /\ (o \in PdfWork) \in BOOLEAN
  BY DEF ExecInv, ExecTypeOK, Job, JobsSound
<1>2. e \in Job
  BY <1>1 DEF Release, Job
<1>3. JobSound(e, o \in PdfWork)
  BY <1>1 DEF Release, JobSound, Job
<1>4. e.st \in Held => work[o].st \in Held
  BY <1>1 DEF Release, Held, Job
<1>5. work' = [work EXCEPT ![o] = e] /\ UNCHANGED <<closed, cleanup, closer>>
  BY DEF Release
<1> QED BY <1>2, <1>3, <1>4, <1>5, JobStep

LEMMA DeliverSound == ASSUME ExecInv, NEW o \in Work, Deliver(o) PROVE ExecInv'
<1> DEFINE e == [work[o] EXCEPT !.caller = IF work[o].result = "stopped" THEN "refused" ELSE "answered"]
<1>1. work[o] \in Job /\ JobSound(work[o], o \in PdfWork) /\ (o \in PdfWork) \in BOOLEAN
  BY DEF ExecInv, ExecTypeOK, Job, JobsSound
<1>2. e \in Job
  BY <1>1 DEF Deliver, Job
<1>3. JobSound(e, o \in PdfWork)
  BY <1>1 DEF Deliver, JobSound, Job
<1>4. e.st \in Held => work[o].st \in Held
  BY <1>1 DEF Deliver, Held, Job
<1>5. work' = [work EXCEPT ![o] = e] /\ UNCHANGED <<closed, cleanup, closer>>
  BY DEF Deliver
<1> QED BY <1>2, <1>3, <1>4, <1>5, JobStep

LEMMA StopWaitingSound == ASSUME ExecInv, NEW o \in Work, StopWaiting(o) PROVE ExecInv'
<1> DEFINE e == [work[o] EXCEPT !.caller = "pending"]
<1>1. work[o] \in Job /\ JobSound(work[o], o \in PdfWork) /\ (o \in PdfWork) \in BOOLEAN
  BY DEF ExecInv, ExecTypeOK, Job, JobsSound
<1>2. e \in Job
  BY <1>1 DEF StopWaiting, Job
<1>3. JobSound(e, o \in PdfWork)
  BY <1>1 DEF StopWaiting, JobSound, Job
<1>4. e.st \in Held => work[o].st \in Held
  BY <1>1 DEF StopWaiting, Held, Job
<1>5. work' = [work EXCEPT ![o] = e] /\ UNCHANGED <<closed, cleanup, closer>>
  BY DEF StopWaiting
<1> QED BY <1>2, <1>3, <1>4, <1>5, JobStep

LEMMA CancelSound == ASSUME ExecInv, NEW o \in Work, Cancel(o) PROVE ExecInv'
<1> DEFINE e == [work[o] EXCEPT !.caller = "gone", !.stop = o \in PdfWork, !.late = work[o].st # "running"]
<1>1. work[o] \in Job /\ JobSound(work[o], o \in PdfWork) /\ (o \in PdfWork) \in BOOLEAN
  BY DEF ExecInv, ExecTypeOK, Job, JobsSound
<1>2. e \in Job
  BY <1>1 DEF Cancel, Job
<1>3. JobSound(e, o \in PdfWork)
  BY <1>1 DEF Cancel, JobSound, Job
<1>4. e.st \in Held => work[o].st \in Held
  BY <1>1 DEF Cancel, Held, Job
<1>5. work' = [work EXCEPT ![o] = e] /\ UNCHANGED <<closed, cleanup, closer>>
  BY DEF Cancel
<1> QED BY <1>2, <1>3, <1>4, <1>5, JobStep

LEMMA EndSound == ASSUME ExecInv, NEW o \in Work, NEW result \in {"ok", "error", "stopped"}, End(o, result) PROVE ExecInv'
<1> DEFINE e == [work[o] EXCEPT !.st = "ended", !.result = result, !.child = FALSE]
<1>1. work[o] \in Job /\ JobSound(work[o], o \in PdfWork) /\ (o \in PdfWork) \in BOOLEAN
  BY DEF ExecInv, ExecTypeOK, Job, JobsSound
<1>2. e \in Job
  BY <1>1 DEF End, Job
<1>3. JobSound(e, o \in PdfWork)
  BY <1>1 DEF End, JobSound, Job
<1>4. e.st \in Held => work[o].st \in Held
  BY <1>1 DEF End, Held, Job
<1>5. work' = [work EXCEPT ![o] = e] /\ UNCHANGED <<closed, cleanup, closer>>
  BY DEF End
<1> QED BY <1>2, <1>3, <1>4, <1>5, JobStep

LEMMA ShutdownSound ==
  ASSUME ExecInv,
         \/ CloseServices \/ CancelClose \/ CloseSqlExecutors \/ DisposeSql
         \/ \E failed \in BOOLEAN : CloseClients(failed)
  PROVE  ExecInv'
<1>1. UNCHANGED work
  BY DEF CloseServices, CancelClose, CloseSqlExecutors, DisposeSql, CloseClients
<1>2. \A k : Active(k)' = Active(k)
  BY <1>1 DEF Active
<1>3. SlotsHeld' /\ JobsSound'
  BY <1>1, <1>2 DEF ExecInv, SlotsHeld, JobsSound
<1>4. ExecTypeOK'
  BY <1>1 DEF ExecInv, ExecTypeOK, Kinds, CloseServices, CancelClose, CloseSqlExecutors, DisposeSql, CloseClients
<1>5. ShutdownInOrder'
  BY <1>2 DEF ExecInv, ExecTypeOK, ShutdownInOrder, CloseServices, CancelClose, CloseSqlExecutors, DisposeSql, CloseClients
<1> QED BY <1>3, <1>4, <1>5 DEF ExecInv

LEMMA ClosePdfSound == ASSUME ExecInv, ClosePdfExecutor PROVE ExecInv'
<1>1. \A k \in Kinds : Active(k)' = Active(k)
  BY DEF ExecInv, ExecTypeOK, ClosePdfExecutor, Active, OfKind
<1>2. ExecTypeOK'
  BY DEF ExecInv, ExecTypeOK, ClosePdfExecutor, Kinds
<1>3. ShutdownInOrder'
  BY <1>1 DEF ExecInv, ShutdownInOrder, ClosePdfExecutor, Kinds
<1>4. SlotsHeld'
  BY <1>1 DEF ExecInv, SlotsHeld
<1>5. ASSUME NEW o \in Work PROVE JobSound(work'[o], o \in PdfWork)
  <2>1. JobSound(work[o], o \in PdfWork)
    BY DEF ExecInv, JobsSound
  <2>2. CASE o \in Active("pdf")
    <3>1. o \in PdfWork
      BY <2>2 DEF Active, OfKind, KindOf
    <3> QED BY <2>1, <2>2, <3>1 DEF ExecInv, ExecTypeOK, ClosePdfExecutor, JobSound, Active
  <2>3. CASE o \notin Active("pdf")
    BY <2>1, <2>3 DEF ClosePdfExecutor
  <2> QED BY <2>2, <2>3
<1> QED BY <1>2, <1>3, <1>4, <1>5 DEF ExecInv, JobsSound

LEMMA ExecutorsStep == ExecInv /\ [ExecNext]_execVars => ExecInv'
<1> SUFFICES ASSUME ExecInv, [ExecNext]_execVars PROVE ExecInv'
  OBVIOUS
<1>1. CASE UNCHANGED execVars
  BY <1>1 DEF execVars, ExecInv, ExecTypeOK, ShutdownInOrder, SlotsHeld, JobsSound, Active
<1>2. CASE ExecNext
  BY <1>2, RunSound, LastCheckSound, ReleaseSound, DeliverSound, StopWaitingSound, CancelSound, EndSound,
     ShutdownSound, ClosePdfSound DEF ExecNext
<1> QED BY <1>1, <1>2

-----------------------------------------------------------------------------
\* Calls, results and the shutdown keep to their values.
THEOREM ExecutorsTyped == ExecSpec => []ExecTypeOK
<1>1. ExecInv => ExecTypeOK
  BY DEF ExecInv
<1> QED BY ExecutorsStart, ExecutorsStep, <1>1, PTL DEF ExecSpec

\* However many operations are offered, given up on or cancelled, each executor runs at
\* most its capacity, and the engine is disposed of only when all have really ended.
THEOREM EngineOutlivesAll == ExecSpec => []EngineOutlivesWork
<1>1. ASSUME ExecInv PROVE EngineOutlivesWork
  <2>1. \A k \in Kinds : Running(k) \subseteq Active(k)
    BY DEF Running, Active
  <2>2. \A k \in Kinds : Cardinality(Running(k)) <= Capacity
    <3> SUFFICES ASSUME NEW k \in Kinds PROVE Cardinality(Running(k)) <= Capacity
      OBVIOUS
    <3>1. IsFiniteSet(Running(k)) /\ Cardinality(Running(k)) <= Cardinality(Active(k))
      BY <1>1, <2>1, FS_Subset DEF ExecInv, SlotsHeld
    <3> QED BY <1>1, <3>1, FS_CardinalityType, CapacityOK DEF ExecInv, SlotsHeld
  <2>3. ASSUME cleanup \in {"disposed", "finished"}
        PROVE  Running("sql") \cup Running("pdf") = {} /\ \A o \in Work : ~work[o].child
    <3>1. Active("sql") = {} /\ Active("pdf") = {}
      BY <1>1, <2>3 DEF ExecInv, ShutdownInOrder
    <3>2. \A o \in Work : work[o].st # "running"
      BY <3>1 DEF Active, OfKind, KindOf
    <3>3. \A o \in Work : ~work[o].child
      BY <1>1, <3>2 DEF ExecInv, JobsSound, JobSound
    <3> QED BY <2>1, <3>1, <3>3 DEF Kinds
  <2>4. \A o \in Work : work[o].caller = "answered" /\ work[o].result = "ok" => ~work[o].stop \/ work[o].late
    BY <1>1 DEF ExecInv, ExecTypeOK, JobsSound, JobSound
  <2> QED BY <1>1, <2>2, <2>3, <2>4 DEF EngineOutlivesWork, ExecInv, ShutdownInOrder
<1> QED BY ExecutorsStart, ExecutorsStep, <1>1, PTL DEF ExecSpec

-----------------------------------------------------------------------------
(***************************************************************************)
(* Theorems about the rate limiter: for any limit, any window and any      *)
(* number of overlapping requests, no bucket exceeds its limit in time.    *)
(***************************************************************************)

Request == [st : {"free", "try", "look", "open", "retry", "done"}, now : 0..RateHorizon,
            ids : Identities, rule : 1..3, denied : 0..2, wait : Nat]
Busy == {"try", "look", "open", "retry"}

\* A request inside `hit` counts against a rule that identifies it, in a window that had
\* begun when it was made; past the first statement its limit is not zero.
RequestSound(q, now) ==
  /\ q.st \in Busy => q.rule \in 1..2 /\ q.ids[q.rule] # Anonymous /\ q.now <= now
  /\ q.st \in Busy \ {"try"} => Limit > 0

\* Until a window has closed its row counts every hit that was allowed in time: only
\* closed windows lose their rows.
RowCountsHits ==
  \A b \in Buckets, w \in Windows :
    /\ w + WindowSeconds > seconds => onTime[b][w] <= counters[b][w]
    /\ onTime[b][w] <= Limit

RateInv ==
  /\ RateTypeOK
  /\ requests \in [Requests -> Request]
  /\ \A r \in Requests : RequestSound(requests[r], seconds)
  /\ RowCountsHits

-----------------------------------------------------------------------------
\* Windows: multiples of their length.

LEMMA MulMono == ASSUME NEW a \in Int, NEW b \in Int, NEW v \in Nat, a <= b PROVE a * v <= b * v
OBVIOUS

LEMMA WindowOfATime ==
  ASSUME NEW now \in 0..RateHorizon
  PROVE  WindowStart(now) \in Windows /\ WindowStart(now) <= now /\ now < WindowStart(now) + WindowSeconds
<1>1. now \in Nat /\ WindowSeconds \in Nat \ {0}
  BY RateConstantsOK
<1>2. now \div WindowSeconds \in Nat
  BY <1>1
<1>3. (now \div WindowSeconds) * WindowSeconds <= now
  BY <1>1
<1>4. now < (now \div WindowSeconds) * WindowSeconds + WindowSeconds
  BY <1>1
<1>5. ((now \div WindowSeconds) * WindowSeconds) % WindowSeconds = 0
  BY <1>1, <1>2
<1>6. (now \div WindowSeconds) * WindowSeconds \in Nat
  BY <1>1, <1>2
<1> DEFINE w == (now \div WindowSeconds) * WindowSeconds
<1>7. WindowStart(now) = w
  BY DEF WindowStart
<1>8. w \in Nat /\ w <= now /\ now < w + WindowSeconds /\ w % WindowSeconds = 0
  BY <1>3, <1>4, <1>5, <1>6
<1> HIDE DEF w
<1>9. w \in 0..RateHorizon
  BY <1>8, RateConstantsOK
<1> QED BY <1>7, <1>8, <1>9 DEF Windows

\* Of two windows the earlier one ends before the later one begins.
LEMMA WindowsApart ==
  ASSUME NEW v \in Windows, NEW w \in Windows, v < w
  PROVE  v + WindowSeconds <= w
<1>1. v \in Nat /\ w \in Nat /\ v % WindowSeconds = 0 /\ w % WindowSeconds = 0 /\ WindowSeconds \in Nat \ {0}
  BY RateConstantsOK DEF Windows
<1> DEFINE j == v \div WindowSeconds
           k == w \div WindowSeconds
<1>2. v = j * WindowSeconds /\ w = k * WindowSeconds
  BY <1>1
<1>3. j \in Int /\ k \in Int
  BY <1>1
<1> HIDE DEF j, k
<1>4. j < k
  BY <1>1, <1>2, <1>3, MulMono
<1>5. (j + 1) * WindowSeconds <= k * WindowSeconds
  BY <1>1, <1>3, <1>4, MulMono
<1>6. (j + 1) * WindowSeconds = j * WindowSeconds + WindowSeconds
  BY <1>1, <1>3
<1> QED BY <1>2, <1>5, <1>6

-----------------------------------------------------------------------------
\* Rules: the next one that identifies the caller, or none.

LEMMA RuleFound ==
  ASSUME NEW ids \in Identities, NEW i \in 1..3
  PROVE  RuleFrom(ids, i) \in i..3 /\ (RuleFrom(ids, i) = 3 \/ ids[RuleFrom(ids, i)] # Anonymous)
<1>1. \E j \in i..3 : (j = 3 \/ ids[j] # Anonymous) /\ \A k \in i..(j - 1) : ids[k] = Anonymous
  <2>1. CASE i = 3
    BY <2>1
  <2>2. CASE i = 2
    BY <2>2
  <2>3. CASE i = 1
    BY <2>3
  <2> QED BY <2>1, <2>2, <2>3
<1> QED BY <1>1 DEF RuleFrom

LEMMA BucketFound ==
  ASSUME NEW ids \in Identities, NEW i \in 1..2, ids[i] # Anonymous
  PROVE  ids[i] \in Buckets
<1>1. PICK m \in Mailboxes \cup {Anonymous}, a \in Addresses \cup {Anonymous} : ids = <<m, a>>
  BY DEF Identities
<1> QED BY <1>1 DEF Buckets

LEMMA AtRuleSound ==
  ASSUME NEW q \in Request, NEW i \in 1..3, NEW now \in Nat, q.now <= now
  PROVE  AtRule(q, i) \in Request /\ RequestSound(AtRule(q, i), now)
<1> DEFINE j == RuleFrom(q.ids, i)
<1>1. q.ids \in Identities
  BY DEF Request
<1>2. j \in 1..3 /\ (j = 3 \/ q.ids[j] # Anonymous)
  BY <1>1, RuleFound
<1>3. AtRule(q, i) = [q EXCEPT !.rule = j, !.st = IF j = 3 THEN "done" ELSE "try"]
  BY DEF AtRule
<1> HIDE DEF j
<1>4. AtRule(q, i) \in Request
  BY <1>2, <1>3 DEF Request
<1>5. RequestSound(AtRule(q, i), now)
  BY <1>2, <1>3 DEF Request, RequestSound, Busy
<1> QED BY <1>4, <1>5

-----------------------------------------------------------------------------
\* What a step does to one request, the counts left alone.
LEMMA RequestStep ==
  ASSUME RateInv, NEW r \in Requests, NEW e \in Request, RequestSound(e, seconds),
         requests' = [requests EXCEPT ![r] = e], UNCHANGED <<seconds, counters, onTime>>
  PROVE  RateInv'
<1>1. requests' \in [Requests -> Request]
  BY DEF RateInv
<1>2. \A q \in Requests : RequestSound(requests'[q], seconds')
  BY DEF RateInv
<1>3. RateTypeOK' /\ RowCountsHits'
  BY DEF RateInv, RateTypeOK, RowCountsHits
<1> QED BY <1>1, <1>2, <1>3 DEF RateInv

\* Where a request inside `hit` counts.
LEMMA WhereItCounts ==
  ASSUME RateInv, NEW r \in Requests, requests[r].st \in Busy
  PROVE  /\ requests[r] \in Request /\ seconds \in 0..RateHorizon /\ requests[r].now <= seconds
         /\ requests[r].rule \in 1..2 /\ Bucket(r) \in Buckets /\ Window(r) \in Windows
         /\ \A w \in Windows : w < Window(r) => w + WindowSeconds <= seconds
<1>1. requests[r] \in Request /\ seconds \in 0..RateHorizon /\ RequestSound(requests[r], seconds)
  BY DEF RateInv, RateTypeOK
<1>2. requests[r].now <= seconds /\ requests[r].rule \in 1..2 /\ requests[r].ids[requests[r].rule] # Anonymous
  BY <1>1 DEF RequestSound
<1>3. requests[r].ids \in Identities /\ requests[r].now \in 0..RateHorizon
  BY <1>1 DEF Request
<1>4. Bucket(r) \in Buckets
  BY <1>2, <1>3, BucketFound DEF Bucket
<1>5. Window(r) \in Windows /\ Window(r) <= requests[r].now
  BY <1>3, WindowOfATime DEF Window
<1>6. ASSUME NEW w \in Windows, w < Window(r) PROVE w + WindowSeconds <= seconds
  <2>1. w + WindowSeconds <= Window(r)
    BY <1>5, <1>6, WindowsApart
  <2>2. w \in Int /\ Window(r) \in Int /\ WindowSeconds \in Int /\ requests[r].now \in Int /\ seconds \in Int
    BY <1>1, <1>3, <1>5, RateConstantsOK DEF Windows
  <2> QED BY <1>2, <1>5, <2>1, <2>2
<1> QED BY <1>1, <1>2, <1>4, <1>5, <1>6

\* A refusal moves the request to its next rule.
LEMMA DenySound ==
  ASSUME RateInv, NEW r \in Requests, requests[r].st \in Busy, Deny(r), UNCHANGED <<seconds, counters>>
  PROVE  RateInv'
<1> DEFINE q == requests[r]
           p == IF q.denied = 0 THEN [q EXCEPT !.denied = q.rule, !.wait = RetryAfter(q.now, Window(r))] ELSE q
<1>1. q \in Request /\ q.rule \in 1..2 /\ q.now <= seconds /\ seconds \in Nat /\ Window(r) \in Windows
  BY WhereItCounts
<1>2. RetryAfter(q.now, Window(r)) \in Nat
  BY <1>1, RateConstantsOK DEF RetryAfter, Windows, Request
<1>3. p \in Request /\ p.now = q.now /\ q.rule + 1 \in 1..3
  <2> HIDE DEF q
  <2>1. q.rule \in 0..2 /\ q.rule + 1 \in 1..3
    BY <1>1
  <2>2. CASE q.denied = 0
    BY <1>1, <1>2, <2>1, <2>2 DEF Request
  <2>3. CASE q.denied # 0
    BY <1>1, <2>1, <2>3
  <2> QED BY <2>2, <2>3
<1> HIDE DEF p
<1>4. AtRule(p, q.rule + 1) \in Request /\ RequestSound(AtRule(p, q.rule + 1), seconds)
  BY <1>1, <1>3, AtRuleSound
<1>5. requests' = [requests EXCEPT ![r] = AtRule(p, q.rule + 1)] /\ UNCHANGED onTime
  BY DEF Deny, FirstRefusal, p
<1> QED BY <1>4, <1>5, RequestStep

LEMMA GotoSound ==
  ASSUME RateInv, NEW r \in Requests, requests[r].st \in Busy, Limit > 0, NEW st \in Busy, Goto(r, st),
         UNCHANGED <<seconds, counters>>
  PROVE  RateInv'
<1>1. requests[r] \in Request /\ RequestSound(requests[r], seconds)
  BY DEF RateInv
<1> DEFINE e == [requests[r] EXCEPT !.st = st]
<1>2. e \in Request /\ RequestSound(e, seconds)
  BY <1>1 DEF Request, RequestSound, Busy
<1>3. requests' = [requests EXCEPT ![r] = e] /\ UNCHANGED onTime
  BY DEF Goto
<1> QED BY <1>2, <1>3, RequestStep

\* An allowed hit is counted by one in its row, and no other row of an open window changes.
LEMMA AllowSound ==
  ASSUME RateInv, NEW r \in Requests, requests[r].st \in Busy, Allow(r), UNCHANGED seconds,
         counters' \in [Buckets -> [Windows -> 0..Limit]],
         counters'[Bucket(r)][Window(r)] = counters[Bucket(r)][Window(r)] + 1,
         \A b \in Buckets, w \in Windows :
           <<b, w>> # <<Bucket(r), Window(r)>> /\ w + WindowSeconds > seconds => counters'[b][w] = counters[b][w]
  PROVE  RateInv'
<1> DEFINE q == requests[r]
           B == Bucket(r)
           V == Window(r)
<1>1. q \in Request /\ q.rule \in 1..2 /\ q.now <= seconds /\ seconds \in 0..RateHorizon /\ B \in Buckets /\ V \in Windows
  BY WhereItCounts
<1>2. AtRule(q, q.rule + 1) \in Request /\ RequestSound(AtRule(q, q.rule + 1), seconds)
  BY <1>1, AtRuleSound
<1>3. requests' = [requests EXCEPT ![r] = AtRule(q, q.rule + 1)]
  BY DEF Allow
<1>4. requests' \in [Requests -> Request] /\ \A p \in Requests : RequestSound(requests'[p], seconds')
  BY <1>2, <1>3 DEF RateInv
<1>5. onTime \in [Buckets -> [Windows -> Nat]] /\ counters \in [Buckets -> [Windows -> 0..Limit]] /\ RowCountsHits
  BY DEF RateInv, RateTypeOK
<1>6. CASE V # WindowStart(seconds)
  <2>1. onTime' = onTime
    BY <1>6 DEF Allow
  <2>2. ASSUME NEW b \in Buckets, NEW w \in Windows PROVE w + WindowSeconds > seconds => onTime[b][w] <= counters'[b][w]
    <3>1. onTime[b][w] \in Nat /\ counters[b][w] \in 0..Limit /\ Limit \in Nat
      BY <1>5, RateConstantsOK
    <3>2. CASE b = B /\ w = V
      BY <1>5, <3>1, <3>2 DEF RowCountsHits
    <3>3. CASE <<b, w>> # <<B, V>>
      BY <1>5, <3>1, <3>3 DEF RowCountsHits
    <3> QED BY <3>2, <3>3
  <2> QED BY <1>1, <1>4, <1>5, <2>1, <2>2 DEF RateInv, RateTypeOK, RowCountsHits
<1>7. CASE V = WindowStart(seconds)
  <2>1. onTime' = [onTime EXCEPT ![B][V] = @ + 1]
    BY <1>7 DEF Allow
  <2>2. V + WindowSeconds > seconds
    BY <1>1, <1>7, WindowOfATime, RateConstantsOK DEF Windows
  <2>3. onTime' \in [Buckets -> [Windows -> Nat]]
    BY <1>1, <1>5, <2>1
  <2>4. ASSUME NEW b \in Buckets, NEW w \in Windows
        PROVE  (w + WindowSeconds > seconds => onTime'[b][w] <= counters'[b][w]) /\ onTime'[b][w] <= Limit
    <3>1. onTime[b][w] \in Nat /\ counters[b][w] \in 0..Limit /\ counters'[b][w] \in 0..Limit /\ Limit \in Nat
      BY <1>5, RateConstantsOK
    <3>2. CASE b = B /\ w = V
      <4>1. onTime'[b][w] = onTime[b][w] + 1
        BY <1>1, <1>5, <2>1, <3>2
      <4>2. onTime[b][w] <= counters[b][w]
        BY <1>5, <2>2, <3>2 DEF RowCountsHits
      <4>3. counters'[b][w] = counters[b][w] + 1
        BY <3>2
      <4> HIDE DEF B, V
      <4> QED BY <3>1, <4>1, <4>2, <4>3
    <3>3. CASE <<b, w>> # <<B, V>>
      <4>1. onTime'[b][w] = onTime[b][w]
        BY <1>1, <1>5, <2>1, <3>3
      <4> QED BY <1>5, <3>1, <3>3, <4>1 DEF RowCountsHits
    <3> QED BY <3>2, <3>3
  <2>5. RowCountsHits'
    BY <2>4 DEF RowCountsHits
  <2> QED BY <1>1, <1>4, <2>3, <2>5 DEF RateInv, RateTypeOK
<1> QED BY <1>6, <1>7

\* A conditional UPDATE that changed a row.
LEMMA IncrementSound ==
  ASSUME RateInv, NEW r \in Requests, requests[r].st \in Busy, CanIncrement(r), Increment(r), Allow(r),
         UNCHANGED seconds
  PROVE  RateInv'
<1>1. Bucket(r) \in Buckets /\ Window(r) \in Windows
  BY WhereItCounts
<1>2. counters \in [Buckets -> [Windows -> 0..Limit]] /\ Limit \in Nat
  BY RateConstantsOK DEF RateInv, RateTypeOK
<1>3. counters[Bucket(r)][Window(r)] + 1 \in 0..Limit
  BY <1>1, <1>2 DEF CanIncrement
<1> DEFINE B == Bucket(r)
           V == Window(r)
<1>4. counters' = [counters EXCEPT ![B][V] = counters[B][V] + 1]
  BY DEF Increment
<1> HIDE DEF B, V
<1>5. B \in Buckets /\ V \in Windows /\ counters[B][V] + 1 \in 0..Limit
  BY <1>1, <1>3 DEF B, V
<1>6. counters' \in [Buckets -> [Windows -> 0..Limit]]
  BY <1>2, <1>4, <1>5
<1>7. counters'[B][V] = counters[B][V] + 1
  BY <1>2, <1>4, <1>5
<1>8. \A b \in Buckets, w \in Windows : <<b, w>> # <<B, V>> => counters'[b][w] = counters[b][w]
  BY <1>2, <1>4, <1>5
<1> QED BY <1>6, <1>7, <1>8, AllowSound DEF B, V

-----------------------------------------------------------------------------
LEMMA RateStarts == RateInit => RateInv
<1> SUFFICES ASSUME RateInit PROVE RateInv
  OBVIOUS
<1>1. NoRequest \in Request
  BY RateConstantsOK DEF NoRequest, Request, Identities
<1>2. RateTypeOK
  BY RateConstantsOK DEF RateInit, RateTypeOK
<1>3. RowCountsHits
  BY RateConstantsOK DEF RateInit, RowCountsHits
<1>4. RequestSound(NoRequest, seconds)
  BY DEF NoRequest, RequestSound, Busy
<1> QED BY <1>1, <1>2, <1>3, <1>4 DEF RateInit, RateInv

LEMMA CheckSound == ASSUME RateInv, NEW r \in Requests, Check(r) PROVE RateInv'
<1>1. PICK ids \in Identities : requests' = [requests EXCEPT ![r] = AtRule([@ EXCEPT !.now = seconds, !.ids = ids], 1)]
  BY DEF Check
<1> DEFINE q == [requests[r] EXCEPT !.now = seconds, !.ids = ids]
<1>2. seconds \in 0..RateHorizon /\ seconds \in Nat /\ requests[r] \in Request
  BY DEF RateInv, RateTypeOK
<1>3. q \in Request /\ q.now <= seconds
  <2>1. q \in Request
    BY <1>2 DEF Request
  <2>2. q.now = seconds
    BY <1>2 DEF Request
  <2> QED BY <1>2, <2>1, <2>2
<1>4. requests' = [requests EXCEPT ![r] = AtRule(q, 1)] /\ UNCHANGED <<seconds, counters, onTime>>
  BY <1>1 DEF Check
<1> HIDE DEF q
<1>5. AtRule(q, 1) \in Request /\ RequestSound(AtRule(q, 1), seconds)
  BY <1>2, <1>3, AtRuleSound
<1> QED BY <1>4, <1>5, RequestStep

LEMMA TryIncrementSound == ASSUME RateInv, NEW r \in Requests, TryIncrement(r) PROVE RateInv'
<1>1. requests[r].st \in Busy /\ UNCHANGED seconds /\ Limit \in Nat
  BY RateConstantsOK DEF TryIncrement, At, Busy
<1>2. CASE Limit <= 0
  BY <1>1, <1>2, DenySound DEF TryIncrement
<1>3. CASE Limit > 0 /\ CanIncrement(r)
  BY <1>1, <1>3, IncrementSound DEF TryIncrement
<1>4. CASE Limit > 0 /\ ~CanIncrement(r)
  <2>1. Goto(r, "look") /\ UNCHANGED counters /\ "look" \in Busy
    BY <1>1, <1>4 DEF TryIncrement, Busy
  <2> QED BY <1>1, <1>4, <2>1, GotoSound
<1> QED BY <1>1, <1>2, <1>3, <1>4

LEMMA LookAgainSound == ASSUME RateInv, NEW r \in Requests, LookAgain(r) PROVE RateInv'
<1>1. requests[r].st \in Busy /\ Limit > 0 /\ UNCHANGED <<seconds, counters>>
  BY DEF LookAgain, At, Busy, RateInv, RequestSound
<1>2. CASE RowExists(r)
  BY <1>1, <1>2, DenySound DEF LookAgain
<1>3. CASE ~RowExists(r)
  <2>1. Goto(r, "open") /\ "open" \in Busy
    BY <1>3 DEF LookAgain, Busy
  <2> QED BY <1>1, <2>1, GotoSound
<1> QED BY <1>2, <1>3

LEMMA OpenWindowSound == ASSUME RateInv, NEW r \in Requests, OpenWindow(r) PROVE RateInv'
<1>1. requests[r].st \in Busy /\ Limit > 0 /\ Limit \in Nat /\ UNCHANGED seconds
  BY RateConstantsOK DEF OpenWindow, At, Busy, RateInv, RequestSound
<1>2. CASE RowExists(r)
  <2>1. Goto(r, "retry") /\ UNCHANGED counters /\ "retry" \in Busy
    BY <1>2 DEF OpenWindow, Busy
  <2> QED BY <1>1, <2>1, GotoSound
<1>3. CASE ~RowExists(r)
  <2> DEFINE B == Bucket(r)
             V == Window(r)
             row == [w \in Windows |-> IF w < V THEN 0 ELSE IF w = V THEN 1 ELSE counters[B][w]]
  <2>1. B \in Buckets /\ V \in Windows /\ \A w \in Windows : w < V => w + WindowSeconds <= seconds
    BY <1>1, WhereItCounts
  <2>2. counters \in [Buckets -> [Windows -> 0..Limit]] /\ counters[B][V] = 0 /\ seconds \in Int
    BY <1>3, <2>1 DEF RateInv, RateTypeOK, RowExists
  <2>3. counters' = [counters EXCEPT ![B] = row] /\ Allow(r)
    BY <1>3 DEF OpenWindow
  <2> HIDE DEF B, V
  <2>4. row \in [Windows -> 0..Limit] /\ row[V] = 1 /\ \A w \in Windows : w > V => row[w] = counters[B][w]
    <3>1. counters[B] \in [Windows -> 0..Limit] /\ 0 \in 0..Limit /\ 1 \in 0..Limit /\ Windows \subseteq Int
      <4>1. counters[B] \in [Windows -> 0..Limit]
        BY <2>1, <2>2
      <4>2. 0 \in 0..Limit /\ 1 \in 0..Limit
        BY <1>1
      <4>3. Windows \subseteq Int
        BY DEF Windows
      <4> QED BY <4>1, <4>2, <4>3
    <3>2. row \in [Windows -> 0..Limit]
      BY <3>1
    <3>3. \A w \in Windows : row[w] = IF w < V THEN 0 ELSE IF w = V THEN 1 ELSE counters[B][w]
      OBVIOUS
    <3>4. V \in Int /\ \A w \in Windows : w \in Int
      BY <2>1, <3>1
    <3> HIDE DEF row
    <3>5. row[V] = 1 /\ \A w \in Windows : w > V => row[w] = counters[B][w]
      BY <2>1, <3>3, <3>4
    <3> QED BY <3>2, <3>5
  <2> HIDE DEF row
  <2>5. counters' \in [Buckets -> [Windows -> 0..Limit]] /\ counters'[B] = row /\ \A b \in Buckets : b # B => counters'[b] = counters[b]
    BY <2>1, <2>2, <2>3, <2>4
  <2>6. counters'[B][V] = counters[B][V] + 1
    BY <2>2, <2>4, <2>5
  <2>7. ASSUME NEW b \in Buckets, NEW w \in Windows, <<b, w>> # <<B, V>>, w + WindowSeconds > seconds
        PROVE  counters'[b][w] = counters[b][w]
    <3>1. CASE b # B
      BY <2>5, <3>1
    <3>2. CASE b = B
      <4>1. w # V
        BY <2>7, <3>2
      <4>2. w \in Int /\ V \in Int /\ w + WindowSeconds \in Int
        BY <2>1, RateConstantsOK DEF Windows
      <4>3. ~(w < V)
        BY <2>1, <2>2, <2>7, <4>2
      <4>4. w > V
        BY <4>1, <4>2, <4>3
      <4> QED BY <2>4, <2>5, <3>2, <4>4
    <3> QED BY <3>1, <3>2
  <2> QED BY <1>1, <2>3, <2>5, <2>6, <2>7, AllowSound DEF B, V
<1> QED BY <1>2, <1>3

LEMMA RetryIncrementSound == ASSUME RateInv, NEW r \in Requests, RetryIncrement(r) PROVE RateInv'
<1>1. requests[r].st \in Busy /\ UNCHANGED seconds
  BY DEF RetryIncrement, At, Busy
<1>2. CASE CanIncrement(r)
  BY <1>1, <1>2, IncrementSound DEF RetryIncrement
<1>3. CASE ~CanIncrement(r)
  BY <1>1, <1>3, DenySound DEF RetryIncrement
<1> QED BY <1>2, <1>3

\* The sweep takes rows of closed windows only; the clock closes windows.
LEMMA SweepCountersSound == ASSUME RateInv, SweepCounters PROVE RateInv'
<1>1. counters' \in [Buckets -> [Windows -> 0..Limit]]
  BY RateConstantsOK DEF RateInv, RateTypeOK, SweepCounters
<1>2. ASSUME NEW b \in Buckets, NEW w \in Windows, w + WindowSeconds > seconds PROVE counters'[b][w] = counters[b][w]
  <2>1. w \in Int /\ seconds \in Int /\ WindowSeconds \in Int
    BY RateConstantsOK DEF Windows, RateInv, RateTypeOK
  <2> QED BY <1>2, <2>1 DEF SweepCounters
<1> QED BY <1>1, <1>2 DEF RateInv, RateTypeOK, RowCountsHits, SweepCounters

LEMMA RateTickSound == ASSUME RateInv, RateTick PROVE RateInv'
<1>1. seconds \in 0..RateHorizon /\ seconds' = seconds + 1 /\ seconds' \in 0..RateHorizon
  BY RateConstantsOK DEF RateInv, RateTypeOK, RateTick
<1>2. UNCHANGED <<counters, requests, onTime>>
  BY DEF RateTick
<1>3. ASSUME NEW r \in Requests PROVE RequestSound(requests[r], seconds')
  <2>1. requests[r] \in Request /\ RequestSound(requests[r], seconds)
    BY DEF RateInv
  <2>2. requests[r].now \in 0..RateHorizon
    BY <2>1 DEF Request
  <2> QED BY <1>1, <2>1, <2>2 DEF RequestSound
<1>4. RowCountsHits'
  <2>1. \A w \in Windows : w + WindowSeconds > seconds' => w + WindowSeconds > seconds
    BY <1>1, RateConstantsOK DEF Windows
  <2> QED BY <1>2, <2>1 DEF RateInv, RowCountsHits
<1> QED BY <1>1, <1>2, <1>3, <1>4 DEF RateInv, RateTypeOK

LEMMA RateStep == RateInv /\ [RateNext]_rateVars => RateInv'
<1> SUFFICES ASSUME RateInv, [RateNext]_rateVars PROVE RateInv'
  OBVIOUS
<1>1. CASE UNCHANGED rateVars
  BY <1>1 DEF rateVars, RateInv, RateTypeOK, RowCountsHits
<1>2. CASE RateNext
  BY <1>2, RateTickSound, SweepCountersSound, CheckSound, TryIncrementSound, LookAgainSound, OpenWindowSound,
     RetryIncrementSound DEF RateNext
<1> QED BY <1>1, <1>2

-----------------------------------------------------------------------------
\* No count exceeds its limit, whatever the row was.
THEOREM RateTyped == RateSpec => []RateTypeOK
<1>1. RateInv => RateTypeOK
  BY DEF RateInv
<1> QED BY RateStarts, RateStep, <1>1, PTL DEF RateSpec

\* For any limit and window length and however hits, housekeeping and the sweep overlap,
\* a bucket allows at most its limit of hits while a window is open.
THEOREM LimitHolds == RateSpec => []WithinLimit
<1>1. ASSUME RateInv PROVE WithinLimit
  <2> SUFFICES ASSUME NEW b \in Buckets, NEW w \in Windows
               PROVE  onTime[b][w] <= (IF Limit > 0 THEN Limit ELSE 0)
    BY DEF WithinLimit
  <2>1. onTime[b][w] <= Limit /\ onTime[b][w] \in Nat
    BY <1>1 DEF RateInv, RateTypeOK, RowCountsHits
  <2> QED BY <2>1, RateConstantsOK
<1> QED BY RateStarts, RateStep, <1>1, PTL DEF RateSpec

=============================================================================
