----------------------------- MODULE Executors -----------------------------
(***************************************************************************)
(* The bounded executors of one application and its shutdown.  SQL work    *)
(* runs whole on a thread of a BoundedExecutor, PDF work on the            *)
(* PdfExecutor, whose jobs supervise a child process and carry a stop      *)
(* signal.  Nothing queues: work is admitted or refused.  The caller waits *)
(* on the event loop, may time out (SQL) or be cancelled, and the work     *)
(* keeps its slot until it has really ended.  Shutdown closes the          *)
(* executors, waits for their threads, and only then disposes of the SQL   *)
(* engine and the clients, though whoever asked for it be cancelled.       *)
(***************************************************************************)
EXTENDS Integers, FiniteSets

CONSTANTS
  SqlWork, PdfWork,    \* the operations offered to either kind of executor
  Capacity             \* max_concurrent_requests

ASSUME CapacityOK == Capacity \in Nat \ {0} /\ SqlWork \cap PdfWork = {}

VARIABLES
  work,      \* one record per operation
  closed,    \* the executors that admit nothing more
  cleanup,   \* how far the shutdown of the services has come
  closer     \* the caller of Services.aclose

execVars == <<work, closed, cleanup, closer>>

Work == SqlWork \cup PdfWork
Kinds == {"sql", "pdf"}
KindOf(o) == IF o \in PdfWork THEN "pdf" ELSE "sql"
OfKind(k) == {o \in Work : KindOf(o) = k}

\* st is the future: "checked" after a PDF job's last look at its signal, "ended" when
\* it has its result, "released" after its callback.  `late` (history): the signal came
\* after that look.
NoWork == [st |-> "free", caller |-> "none", stop |-> FALSE, late |-> FALSE, child |-> FALSE,
           result |-> "none"]

ExecInit ==
  /\ work = [o \in Work |-> NoWork]
  /\ closed = {}
  /\ cleanup = "open"
  /\ closer = "none"

\* A wrong Active: an operation nobody waits for has given its slot back.
ActiveWhileAwaited(k) == {o \in OfKind(k) : work[o].st \in {"running", "checked", "ended"} /\ work[o].caller = "waiting"}

\* The futures in `_active`.
Active(k) == {o \in OfKind(k) : work[o].st \in {"running", "checked", "ended"}}
Running(k) == {o \in OfKind(k) : work[o].st \in {"running", "checked"}}

\* Services that are closing hand out no executor; a caller may hold one from before.
Offered == cleanup = "open"
Admits(k) == k \notin closed /\ Cardinality(Active(k)) < Capacity

\* run: under the lock, refuse when closed or full, else submit and take the slot.
Run(o) ==
  /\ work[o].st = "free"
  /\ \/ /\ Admits(KindOf(o))
        /\ work' = [work EXCEPT ![o].st = "running", ![o].caller = "waiting", ![o].child = o \in PdfWork]
     \/ /\ ~Admits(KindOf(o)) \/ ~Offered
        /\ work' = [work EXCEPT ![o].st = "refused", ![o].caller = "refused"]
  /\ UNCHANGED <<closed, cleanup, closer>>

\* The text is read, the child gone, and the signal looked at for the last time.
LastCheck(o) ==
  /\ o \in PdfWork /\ work[o].st = "running" /\ ~work[o].stop
  /\ work' = [work EXCEPT ![o].st = "checked", ![o].child = FALSE]
  /\ UNCHANGED <<closed, cleanup, closer>>

\* An operation ends, a PDF job also when it sees its signal; its child process is
\* killed and awaited on every way out.
End(o, result) ==
  /\ \/ work[o].st = "running" /\ result = "error"
     \/ work[o].st = "running" /\ result = "stopped" /\ work[o].stop
     \/ work[o].st = (IF o \in PdfWork THEN "checked" ELSE "running") /\ result = "ok"
  /\ work' = [work EXCEPT ![o].st = "ended", ![o].result = result, ![o].child = FALSE]
  /\ UNCHANGED <<closed, cleanup, closer>>

\* The future's first callback frees the slot, its second wakes the event loop.
Release(o) ==
  /\ work[o].st = "ended"
  /\ work' = [work EXCEPT ![o].st = "released"]
  /\ UNCHANGED <<closed, cleanup, closer>>

\* A caller that still waits gets the result, or a refusal when the job was stopped.
Deliver(o) ==
  /\ work[o].st = "released" /\ work[o].caller = "waiting"
  /\ work' = [work EXCEPT ![o].caller = IF work[o].result = "stopped" THEN "refused" ELSE "answered"]
  /\ UNCHANGED <<closed, cleanup, closer>>

\* SQL callers stop waiting after wait_seconds, although the transaction may still
\* commit, or has, and the event loop has yet to be woken.
StopWaiting(o) ==
  /\ o \in SqlWork /\ work[o].caller = "waiting"
  /\ work' = [work EXCEPT ![o].caller = "pending"]
  /\ UNCHANGED <<closed, cleanup, closer>>

\* Cancelling the caller cancels no SQL; it signals the PDF job.
Cancel(o) ==
  /\ work[o].caller = "waiting"
  /\ work' = [work EXCEPT ![o].caller = "gone",
                          ![o].stop = o \in PdfWork,
                          ![o].late = work[o].st # "running"]
  /\ UNCHANGED <<closed, cleanup, closer>>

----------------------------------------------------------------------------
\* aclose of the services: the SQL executors, the PDF executor, the engine, the clients.

CloseServices ==
  /\ cleanup = "open"
  /\ cleanup' = "closing" /\ closer' = "waiting"
  /\ UNCHANGED <<work, closed>>

\* The shutdown is shielded: its caller waits on and is told afterwards.
CancelClose ==
  /\ closer = "waiting"
  /\ closer' = "cancelled"
  /\ UNCHANGED <<work, closed, cleanup>>

CloseSqlExecutors ==
  /\ cleanup = "closing" /\ "sql" \notin closed
  /\ closed' = closed \cup {"sql"}
  /\ UNCHANGED <<work, cleanup, closer>>

ClosePdfExecutor ==
  /\ cleanup = "closing" /\ "sql" \in closed /\ "pdf" \notin closed
  /\ Active("sql") = {}
  /\ closed' = closed \cup {"pdf"}
  /\ work' = [o \in Work |-> IF o \in Active("pdf")
                             THEN [work[o] EXCEPT !.stop = TRUE, !.late = @ \/ work[o].st # "running"]
                             ELSE work[o]]
  /\ UNCHANGED <<cleanup, closer>>

DisposeSql ==
  /\ cleanup = "closing" /\ "pdf" \in closed /\ Active("pdf") = {}
  /\ cleanup' = "disposed"
  /\ UNCHANGED <<work, closed, closer>>

\* A client that fails to close stops neither the others nor the answer.
CloseClients(failed) ==
  /\ cleanup = "disposed"
  /\ cleanup' = "finished"
  /\ closer' = IF closer = "cancelled" THEN "raised" ELSE IF failed THEN "failed" ELSE "returned"
  /\ UNCHANGED <<work, closed>>

ExecNext ==
  \/ CloseServices \/ CancelClose \/ CloseSqlExecutors \/ ClosePdfExecutor \/ DisposeSql
  \/ \E failed \in BOOLEAN : CloseClients(failed)
  \/ \E o \in Work :
       \/ Run(o) \/ LastCheck(o) \/ Release(o) \/ Deliver(o) \/ StopWaiting(o) \/ Cancel(o)
       \/ \E result \in {"ok", "error", "stopped"} : End(o, result)

ExecSpec == ExecInit /\ [][ExecNext]_execVars

----------------------------------------------------------------------------
ExecTypeOK ==
  /\ work \in [Work -> [st : {"free", "running", "checked", "ended", "released", "refused"},
                        caller : {"none", "waiting", "answered", "refused", "pending", "gone"},
                        stop : BOOLEAN, late : BOOLEAN, child : BOOLEAN,
                        result : {"none", "ok", "error", "stopped"}]]
  /\ closed \subseteq Kinds
  /\ cleanup \in {"open", "closing", "disposed", "finished"}
  /\ closer \in {"none", "waiting", "cancelled", "returned", "failed", "raised"}

\* No transaction and no child process outlives the engine: whether callers timed out
\* or were cancelled, or the shutdown's own caller was, the engine is disposed of, and
\* the shutdown reported, only when every admitted operation has ended.  Until then each
\* keeps its slot, those whose caller gave up included, and no caller is handed the
\* text of a job that was told to stop in time.
EngineOutlivesWork ==
  /\ cleanup \in {"disposed", "finished"} \/ closer \in {"returned", "failed", "raised"} =>
       Running("sql") \cup Running("pdf") = {} /\ \A o \in Work : ~work[o].child
  /\ closer \in {"returned", "failed", "raised"} => cleanup = "finished"
  /\ \A k \in Kinds : Cardinality(Running(k)) <= Capacity
  /\ \A o \in Work : work[o].caller = "answered" /\ work[o].result = "ok" => ~work[o].stop \/ work[o].late

=============================================================================
