-------------------------- MODULE ScreeningPostgres --------------------------
(***************************************************************************)
(* Screening over PostgreSQL at READ COMMITTED, where requeue_failed is    *)
(* two steps.  Its generation row lock is shared: it keeps erasure out,    *)
(* and neither claims nor another requeue.  The failed rows it reads are   *)
(* not locked, and each is written back by primary key alone.  (On SQLite  *)
(* the generation lock is the database's write lock and Screening's atomic *)
(* Requeue is exact.)                                                      *)
(***************************************************************************)
EXTENDS Screening, TLC

VARIABLE requeuing      \* per batch, the rows a requeue in flight will write

pgVars == <<vars, requeuing>>

PgInit == Init /\ requeuing = [b \in Batches |-> {}]

RequeueRead(b) ==
  /\ batch[b] = "live" /\ requeuing[b] = {}
  /\ LET found == {i \in Items : BatchOf[i] = b /\ Retryable(i)}
     IN  found # {} /\ requeuing' = [requeuing EXCEPT ![b] = found]
  /\ UNCHANGED vars

\* A row deleted meanwhile fails the flush: nothing is written.
RequeueWrite(b) ==
  /\ requeuing[b] # {}
  /\ item' = [i \in Items |->
                IF i \in requeuing[b] /\ \A j \in requeuing[b] : Registered(j)
                THEN [item[i] EXCEPT !.status = "pending", !.error = "none", !.claimedAt = NoTime]
                ELSE item[i]]
  /\ requeuing' = [requeuing EXCEPT ![b] = {}]
  /\ UNCHANGED <<clock, generation, batch, input, rows, worker, tainted>>

\* Erasure waits for the shared generation lock of a requeue in flight.
ErasureWaits == \E b \in Batches : requeuing[b] # {}

PgNext ==
  \/ \E b \in Batches : RequeueRead(b) \/ RequeueWrite(b)
  \/ Next /\ (ErasureWaits => generation' = generation) /\ UNCHANGED requeuing

PgSpec == PgInit /\ [][PgNext]_pgVars

-----------------------------------------------------------------------------

\* Retry re-queues failed items and no others: an item that is not failed any
\* more, because another retry and another call got to it first, stays as it is.
OnlyFailedItemsRequeued ==
  [][\A i \in Items : item'[i].status = "pending" /\ item[i].status # "pending"
                      => item[i].status \in {"none", "failed"}]_pgVars

-----------------------------------------------------------------------------
(* The small instance: one batch of items with one text about one person.  *)

CONSTANTS t1, p1

OneBatch == [i \in Items |-> CHOOSE b \in Batches : TRUE]
SameText == [i \in Items |-> t1]
SamePerson == [t \in Texts |-> p1]

=============================================================================
