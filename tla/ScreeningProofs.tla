--------------------------- MODULE ScreeningProofs ---------------------------
(***************************************************************************)
(* Proofs about Screening for any items, calls, timeouts and bounds.       *)
(***************************************************************************)
EXTENDS Screening, FiniteSetTheorems, TLAPS

\* Type correctness is inductive once a call in flight is known to carry a time,
\* one past its claim an item, and a stored resume to have come from an item.
Equipped(W) == /\ W.pc # "idle" => W.lease \in Nat
               /\ W.pc \in Busy => W.item \in Items
ItemInHand == \A w \in Workers : Equipped(worker[w])
Sourced == \A r \in Resumes : resume[r].st = "live" => resume[r].src \in Items
TypeInv == TypeOK /\ ItemInHand /\ Sourced

-----------------------------------------------------------------------------
(* How a call moves on. *)

\* The record that stands for "no call" has its type and needs no fields.
LEMMA IdleTyped == Idle \in WorkerRecs /\ Equipped(Idle)
BY DEF Equipped, Idle, WorkerRecs, Stages, Busy, Errors, NoTime, NoGen

\* The records that stand for "no row" have their types.
LEMMA NoItemTyped == NoItem \in ItemRows /\ NoInput \in InputRows
BY DEF NoItem, ItemRows, Statuses, NoInput, InputRows, Errors, NoTime, NoGen

\* The row writes of the store, each from a row to a row.
LEMMA ItemRowTyped ==
  ASSUME NEW row \in ItemRows
  PROVE  /\ [row EXCEPT !.text = FALSE] \in ItemRows
         /\ [row EXCEPT !.status = "pending", !.error = "none", !.claimedAt = NoTime] \in ItemRows
         /\ [row EXCEPT !.status = "failed", !.error = FreshUpload, !.claimedAt = NoTime] \in ItemRows
         /\ [row EXCEPT !.status = "failed", !.error = Erased, !.text = FALSE,
                         !.cand = None, !.resume = None, !.report = None] \in ItemRows
<1>1. [row EXCEPT !.text = FALSE] \in ItemRows
  BY DEF ItemRows
<1>2. [row EXCEPT !.status = "pending", !.error = "none", !.claimedAt = NoTime] \in ItemRows
  BY DEF ItemRows, Statuses, Errors
<1>3. [row EXCEPT !.status = "failed", !.error = FreshUpload, !.claimedAt = NoTime] \in ItemRows
  BY DEF ItemRows, Statuses, Errors
<1>4. [row EXCEPT !.status = "failed", !.error = Erased, !.text = FALSE,
                  !.cand = None, !.resume = None, !.report = None] \in ItemRows
  BY DEF ItemRows, Statuses, Errors
<1> QED
  BY <1>1, <1>2, <1>3, <1>4

\* `complete` writes a row with its links.
LEMMA ItemRowDone ==
  ASSUME NEW row \in ItemRows, NEW c \in Candidates \cup {None},
         NEW r \in Resumes \cup {None}, NEW p \in Reports \cup {None}
  PROVE  [row EXCEPT !.status = "done", !.text = FALSE, !.error = "none",
                     !.cand = c, !.resume = r, !.report = p] \in ItemRows
BY DEF ItemRows, Statuses, Errors

\* The claim writes a row.
LEMMA ItemRowClaimed ==
  ASSUME NEW row \in ItemRows, NEW t \in Nat
  PROVE  [row EXCEPT !.status = "processing", !.claimedAt = t] \in ItemRows
BY DEF ItemRows, Statuses

\* `fail` writes a row.
LEMMA ItemRowFailed ==
  ASSUME NEW row \in ItemRows, NEW e \in Errors
  PROVE  [row EXCEPT !.status = "failed", !.error = e] \in ItemRows
BY DEF ItemRows, Statuses

\* An erased candidate or resume is still a row, and not a live one.
LEMMA RowErased ==
  /\ \A row \in CandidateRows : [row EXCEPT !.st = "erased"] \in CandidateRows
  /\ \A row \in ResumeRows :
       LET e == [row EXCEPT !.st = "erased", !.fp = FALSE] IN e \in ResumeRows /\ e.st # "live"
  /\ \A row \in ReportRows : [row EXCEPT !.st = "erased"] \in ReportRows
BY DEF CandidateRows, ResumeRows, ReportRows, RowStates

\* A call that ends holds no item.
LEMMA LeaveTyped ==
  ASSUME TypeInv, NEW w \in Workers, Leave(w)
  PROVE  worker' \in [Workers -> WorkerRecs] /\ ItemInHand'
BY IdleTyped DEF TypeInv, TypeOK, ItemInHand, Leave

\* A call may take any record that has the fields its point requires.
LEMMA PutTyped ==
  ASSUME TypeInv, NEW w \in Workers, NEW next \in WorkerRecs,
         Equipped(next),
         worker' = [worker EXCEPT ![w] = next]
  PROVE  worker' \in [Workers -> WorkerRecs] /\ ItemInHand'
BY DEF TypeInv, TypeOK, ItemInHand

\* The same, for a call that moves on with its item.
LEMMA GotoTyped ==
  ASSUME TypeInv, NEW w \in Workers, NEW next \in WorkerRecs,
         Equipped(next),
         Goto(w, next)
  PROVE  worker' \in [Workers -> WorkerRecs] /\ ItemInHand'
BY IdleTyped DEF TypeInv, TypeOK, ItemInHand, Goto

\* The record of a call past its claim.
LEMMA WorkerTyped ==
  ASSUME TypeInv, NEW w \in Workers, Active(w)
  PROVE  /\ worker[w] \in WorkerRecs
         /\ worker[w].item \in Items /\ worker[w].lease \in Nat
BY DEF TypeInv, TypeOK, ItemInHand, Equipped, Active, Busy

\* Such a call goes on with the same item and lease, unless it is an orphan.
LEMMA MoveTyped ==
  ASSUME TypeInv, NEW w \in Workers, Active(w), NEW next \in WorkerRecs,
         next.item = worker[w].item, next.lease = worker[w].lease,
         Goto(w, next) \/ worker' = [worker EXCEPT ![w] = next]
  PROVE  worker' \in [Workers -> WorkerRecs] /\ ItemInHand'
<1>1. Equipped(next)
  BY WorkerTyped DEF Equipped
<1> QED
  BY <1>1, GotoTyped, PutTyped

\* A call that takes an error to `fail` has the fields `fail` needs.
LEMMA RefuseTyped ==
  ASSUME TypeInv, NEW w \in Workers, Active(w), NEW e \in Errors, Refuse(w, e)
  PROVE  worker' \in [Workers -> WorkerRecs] /\ ItemInHand'
<1> DEFINE next == [worker[w] EXCEPT !.pc = "failing", !.err = e]
<1>1. next \in WorkerRecs /\ next.item = worker[w].item /\ next.lease = worker[w].lease
  BY WorkerTyped DEF WorkerRecs, Stages, Busy
<1> HIDE DEF next
<1> QED
  BY <1>1, MoveTyped DEF Refuse, next

\* The errors the store tells apart are error codes of a row.
LEMMA ErrorsTyped == FreshUpload \in Errors /\ Erased \in Errors /\ Ordinary \in Errors
BY DEF Errors, FreshUpload, Erased, Ordinary

\* Identity resolution yields a candidate or nobody.
LEMMA ResolvedTyped ==
  ASSUME NEW p
  PROVE  Resolved(p) \in Candidates \cup {None}
<1>1. CASE Cardinality(Matches(p)) = 1
  <2>1. Matches(p) # {}
    BY <1>1, FS_EmptySet
  <2> QED
    BY <2>1 DEF Resolved, Matches
<1>2. CASE Cardinality(Matches(p)) # 1
  BY <1>2 DEF Resolved
<1> QED
  BY <1>1, <1>2

-----------------------------------------------------------------------------
(* Each action preserves TypeInv. *)

\* The empty tables have their types.
LEMMA InitTyped == Init => TypeInv
<1> SUFFICES ASSUME Init PROVE TypeInv
  OBVIOUS
<1>1. item \in [Items -> ItemRows]
  BY NoItemTyped DEF Init, NoItem, ItemRows, Statuses, Errors, NoTime, NoGen
<1>2. input \in [Items -> InputRows] /\ worker \in [Workers -> WorkerRecs] /\ ItemInHand
  BY NoItemTyped, IdleTyped DEF Init, ItemInHand
<1>3. batch \in [Batches -> {"none", "live", "deleted"}]
  BY DEF Init
<1>4. /\ candidate \in [Candidates -> CandidateRows]
      /\ resume \in [Resumes -> ResumeRows]
      /\ report \in [Reports -> ReportRows]
      /\ Sourced
  BY DEF Init, RowStates, CandidateRows, ResumeRows, ReportRows, Sourced
<1> QED
  BY <1>1, <1>2, <1>3, <1>4 DEF Init, TypeInv, TypeOK

\* Registration, retry and deletion of a batch keep the types.
LEMMA OrganisationTyped ==
  ASSUME TypeInv, Organisation
  PROVE  TypeInv'
<1> USE NoItemTyped DEF TypeInv, TypeOK, ItemInHand, Sourced, rows
<1>1. ASSUME NEW b \in Batches, NEW S \in SUBSET Items \ {{}}, Register(b, S)
      PROVE  TypeInv'
  <2>1. [NoItem EXCEPT !.status = "pending", !.text = TRUE, !.gen = generation, !.created = clock]
          \in ItemRows
    BY DEF ItemRows, Statuses, NoItem, Errors, NoTime, NoGen
  <2> QED
    BY <1>1, <2>1 DEF Register
<1>2. ASSUME NEW b \in Batches, Requeue(b)
      PROVE  TypeInv'
  <2>1. \A i \in Items : item[i] \in ItemRows
    OBVIOUS
  <2>2. item' = [i \in Items |->
                   IF BatchOf[i] = b /\ Retryable(i)
                   THEN [item[i] EXCEPT !.status = "pending", !.error = "none", !.claimedAt = NoTime]
                   ELSE item[i]]
    BY <1>2 DEF Requeue
  <2>3. item' \in [Items -> ItemRows]
    BY <2>1, <2>2, ItemRowTyped
  <2> QED
    BY <1>2, <2>3 DEF Requeue
<1>3. ASSUME NEW b \in Batches, DeleteBatch(b)
      PROVE  TypeInv'
  <2>1. [NoItem EXCEPT !.status = "deleted"] \in ItemRows
    BY DEF ItemRows, Statuses, NoItem, Errors, NoTime, NoGen
  <2> QED
    BY <1>3, <2>1 DEF DeleteBatch
<1> QED
  BY <1>1, <1>2, <1>3 DEF Organisation

\* Deletions, with the links and the triggers they fire, keep the types.
LEMMA ErasureTyped ==
  ASSUME TypeInv, Erasure
  PROVE  TypeInv'
<1>1. ASSUME NEW cs, NEW rs, NEW ps, Delete(cs, rs, ps),
             tainted' \subseteq Items
      PROVE  TypeInv'
  <2> DEFINE rs1 == rs \cup {r \in Resumes : ResumeLive(r) /\ resume[r].cand \in cs}
             ps1 == ps \cup {p \in Reports : ReportLive(p) /\ report[p].cand \in cs}
  <2>1. item' \in [Items -> ItemRows]
    <3>1. item' = [i \in Items |->
                     [item[i] EXCEPT !.cand = IF @ \in cs THEN None ELSE @,
                                     !.resume = IF @ \in rs1 THEN None ELSE @,
                                     !.report = IF @ \in ps1 THEN None ELSE @]]
      BY <1>1 DEF Delete
    <3> HIDE DEF rs1, ps1
    <3>2. ASSUME NEW i \in Items
          PROVE  item'[i] \in ItemRows
      <4>1. item[i] \in ItemRows
        BY DEF TypeInv, TypeOK
      <4> DEFINE c == IF item[i].cand \in cs THEN None ELSE item[i].cand
                 r == IF item[i].resume \in rs1 THEN None ELSE item[i].resume
                 p == IF item[i].report \in ps1 THEN None ELSE item[i].report
      <4>2. c \in Candidates \cup {None} /\ r \in Resumes \cup {None} /\ p \in Reports \cup {None}
        BY <4>1 DEF ItemRows
      <4>3. item'[i] = [item[i] EXCEPT !.cand = c, !.resume = r, !.report = p]
        BY <3>1
      <4> HIDE DEF c, r, p
      <4> QED
        BY <4>1, <4>2, <4>3 DEF ItemRows
    <3> QED
      BY <3>1, <3>2
  <2>2. input' \in [Items -> InputRows]
    BY <1>1, NoItemTyped DEF Delete, TypeInv, TypeOK
  <2>3. candidate' \in [Candidates -> CandidateRows]
    <3>1. candidate' = [c \in Candidates |->
                          IF c \in cs THEN [candidate[c] EXCEPT !.st = "erased"] ELSE candidate[c]]
      BY <1>1 DEF Delete
    <3> QED
      BY <3>1, RowErased DEF TypeInv, TypeOK
  <2>4. /\ resume' \in [Resumes -> ResumeRows]
        /\ Sourced'
    <3>1. resume' = [r \in Resumes |->
                       IF r \in rs1 THEN [resume[r] EXCEPT !.st = "erased", !.fp = FALSE] ELSE resume[r]]
      BY <1>1 DEF Delete
    <3> HIDE DEF rs1
    <3> QED
      BY <3>1, RowErased DEF TypeInv, TypeOK, Sourced
  <2>5. report' \in [Reports -> ReportRows]
    <3>1. report' = [p \in Reports |->
                       IF p \in ps1 THEN [report[p] EXCEPT !.st = "erased"] ELSE report[p]]
      BY <1>1 DEF Delete
    <3> HIDE DEF ps1
    <3> QED
      BY <3>1, RowErased DEF TypeInv, TypeOK
  <2>6. generation' \in Nat /\ UNCHANGED <<clock, batch, worker>>
    <3>1. generation' = generation + 1 /\ UNCHANGED <<clock, batch, worker>>
      BY <1>1 DEF Delete, AdvanceGeneration
    <3> QED
      BY <3>1 DEF TypeInv, TypeOK
  <2> QED
    BY <1>1, <2>1, <2>2, <2>3, <2>4, <2>5, <2>6 DEF ItemInHand, TypeInv, TypeOK
<1>2. ASSUME NEW c \in Candidates, EraseCandidate(c)
      PROVE  TypeInv'
  BY <1>1, <1>2 DEF EraseCandidate, ItemsAbout, ResumeLive, TypeInv, TypeOK, Sourced
<1>3. ASSUME NEW r \in Resumes, EraseResume(r)
      PROVE  TypeInv'
  BY <1>1, <1>3 DEF EraseResume, ItemsAbout, ResumeLive, TypeInv, TypeOK, Sourced
<1>4. ASSUME NEW p \in Reports, EraseReport(p)
      PROVE  TypeInv'
  BY <1>1, <1>4 DEF EraseReport, TypeInv, TypeOK
<1> QED
  BY <1>2, <1>3, <1>4 DEF Erasure

\* The clock and the two retention targets keep the types.
LEMMA PassiveTyped ==
  ASSUME TypeInv, Tick \/ SweepText \/ SweepInputs
  PROVE  TypeInv'
<1> USE DEF TypeInv, TypeOK, ItemInHand, Sourced, rows
<1>1. CASE Tick
  BY <1>1 DEF Tick
<1>2. CASE SweepText
  BY <1>2, ItemRowTyped DEF SweepText
<1>3. CASE SweepInputs
  BY <1>3, NoItemTyped DEF SweepInputs
<1> QED
  BY <1>1, <1>2, <1>3

\* Actions that move the call and nothing else.
LEMMA OnlyWorkerTyped ==
  ASSUME TypeInv, worker' \in [Workers -> WorkerRecs], ItemInHand',
         UNCHANGED <<clock, generation, batch, item, input, rows, tainted>>
  PROVE  TypeInv'
BY DEF TypeInv, TypeOK, Sourced, rows

\* Sampling the clock keeps the types.
LEMMA BeginClaimTyped ==
  ASSUME TypeInv, NEW w \in Workers, NEW b \in Batches, BeginClaim(w, b)
  PROVE  TypeInv'
<1> DEFINE next == [Idle EXCEPT !.pc = "claiming", !.batch = b, !.lease = clock]
<1>1. next \in WorkerRecs /\ Equipped(next)
  BY DEF Equipped, Idle, WorkerRecs, Stages, Busy, Errors, NoTime, NoGen, TypeInv, TypeOK
<1> QED
  BY <1>1, PutTyped, OnlyWorkerTyped DEF BeginClaim

\* The claim hands an existing item to the call, or ends it.
LEMMA ClaimTyped ==
  ASSUME TypeInv, NEW w \in Workers, Claim(w)
  PROVE  TypeInv'
<1> DEFINE b == worker[w].batch
           now == worker[w].lease
           refused == [i \in Items |->
                         IF BatchOf[i] = b /\ Blocked(i)
                         THEN [item[i] EXCEPT !.status = "failed", !.error = FreshUpload, !.claimedAt = NoTime]
                         ELSE item[i]]
           free == {i \in Items : BatchOf[i] = b /\ ~Blocked(i) /\ Claimable(i, now)}
           oldest == {i \in free : \A j \in free : item[i].created <= item[j].created}
<1>1. \A i \in Items : item[i] \in ItemRows
  BY DEF TypeInv, TypeOK
<1>2. refused \in [Items -> ItemRows]
  BY <1>1, ItemRowTyped
<1>3. worker[w] \in WorkerRecs /\ now \in Nat
  BY DEF Claim, At, TypeInv, TypeOK, ItemInHand, Equipped
<1>4. \/ item' = refused /\ Leave(w)
      \/ \E i \in oldest :
           /\ item' = [refused EXCEPT ![i].status = "processing", ![i].claimedAt = now]
           /\ worker' = [worker EXCEPT ![w].pc = "load", ![w].item = i]
  BY DEF Claim
<1>5. UNCHANGED <<clock, generation, batch, input, rows, tainted>>
  BY DEF Claim
<1>6. oldest \subseteq Items
  OBVIOUS
<1> HIDE DEF refused, oldest
<1>7. item' \in [Items -> ItemRows] /\ worker' \in [Workers -> WorkerRecs] /\ ItemInHand'
  <2>1. CASE item' = refused /\ Leave(w)
    BY <2>1, <1>2, LeaveTyped
  <2>2. ASSUME NEW i \in oldest,
               item' = [refused EXCEPT ![i].status = "processing", ![i].claimedAt = now],
               worker' = [worker EXCEPT ![w].pc = "load", ![w].item = i]
        PROVE  item' \in [Items -> ItemRows] /\ worker' \in [Workers -> WorkerRecs] /\ ItemInHand'
    <3> DEFINE row == [refused[i] EXCEPT !.status = "processing", !.claimedAt = now]
               next == [worker[w] EXCEPT !.pc = "load", !.item = i]
    <3>1. i \in Items /\ refused[i] \in ItemRows
      BY <1>2, <1>6
    <3>2. row \in ItemRows
      BY <1>3, <3>1, ItemRowClaimed
    <3>3. item' = [refused EXCEPT ![i] = row]
      BY <2>2
    <3>4. next \in WorkerRecs /\ Equipped(next)
      BY <1>3, <3>1 DEF WorkerRecs, Stages, Busy, Equipped
    <3>5. worker' = [worker EXCEPT ![w] = next]
      BY <2>2
    <3> HIDE DEF row, next
    <3> QED
      BY <1>2, <3>1, <3>2, <3>3, <3>4, <3>5, PutTyped
  <2> QED
    BY <1>4, <2>1, <2>2
<1> QED
  BY <1>5, <1>7 DEF TypeInv, TypeOK, Sourced, rows

-----------------------------------------------------------------------------
(* Steps of a call past its claim. *)

\* Reading the rows back keeps the types.
LEMMA LoadTyped ==
  ASSUME TypeInv, NEW w \in Workers, Load(w)
  PROVE  TypeInv'
<1> DEFINE i == worker[w].item
           e == input[i].resume
           g == item[i].gen
           h == HasInput(i) \/ item[i].text
           next == [worker[w] EXCEPT !.pc = "recover", !.expected = e, !.gen = g, !.hasText = h]
<1>1. Active(w)
  BY DEF Load, At, Active, Busy
<1>2. item[i] \in ItemRows /\ input[i] \in InputRows
  BY <1>1, WorkerTyped DEF TypeInv, TypeOK
<1>3. next \in WorkerRecs /\ next.item = worker[w].item /\ next.lease = worker[w].lease
  <2>1. g \in Nat \cup {NoGen} /\ e \in Resumes \cup {None}
    BY <1>2 DEF ItemRows, InputRows
  <2>2. h \in BOOLEAN
    OBVIOUS
  <2> HIDE DEF e, g, h
  <2> QED
    BY <1>1, <2>1, <2>2, WorkerTyped DEF WorkerRecs, Stages, Busy
<1>4. Leave(w) \/ worker' = [worker EXCEPT ![w] = next]
  BY DEF Load
<1> HIDE DEF next
<1> QED
  BY <1>1, <1>3, <1>4, MoveTyped, LeaveTyped, OnlyWorkerTyped DEF Load

\* Settling an item writes a row and an input.
LEMMA SettledTyped ==
  ASSUME TypeInv, NEW i \in Items, NEW c \in Candidates \cup {None},
         NEW r \in Resumes \cup {None}, NEW p \in Reports \cup {None}, Settled(i, c, r, p)
  PROVE  item' \in [Items -> ItemRows] /\ input' \in [Items -> InputRows]
<1>1. item[i] \in ItemRows
  BY DEF TypeInv, TypeOK
<1> DEFINE row == [item[i] EXCEPT !.status = "done", !.text = FALSE, !.error = "none",
                                  !.cand = c, !.resume = r, !.report = p]
<1>2. row \in ItemRows
  BY <1>1, ItemRowDone
<1>3. item' = [item EXCEPT ![i] = row]
  BY DEF Settled
<1> HIDE DEF row
<1> QED
  BY <1>2, <1>3, NoItemTyped DEF Settled, TypeInv, TypeOK

\* Cleaning up after an erasure writes a row and an input.
LEMMA ScrubbedTyped ==
  ASSUME TypeInv, NEW i \in Items, Scrubbed(i)
  PROVE  item' \in [Items -> ItemRows] /\ input' \in [Items -> InputRows]
<1>1. item[i] \in ItemRows
  BY DEF TypeInv, TypeOK
<1> DEFINE row == [item[i] EXCEPT !.status = "failed", !.error = Erased, !.text = FALSE,
                                  !.cand = None, !.resume = None, !.report = None]
<1>2. row \in ItemRows
  BY <1>1, ItemRowTyped
<1>3. item' = [item EXCEPT ![i] = row]
  BY DEF Scrubbed
<1> HIDE DEF row
<1> QED
  BY <1>2, <1>3, NoItemTyped DEF Scrubbed, TypeInv, TypeOK

\* What a live row tells of its columns.
LEMMA LinkTyped ==
  ASSUME TypeInv, NEW r \in Resumes \cup {None}, ResumeLive(r)
  PROVE  r \in Resumes /\ resume[r].cand \in Candidates \cup {None}
BY DEF ResumeLive, TypeInv, TypeOK, ResumeRows

\* Completing from a saved report keeps the types.
LEMMA RecoverTyped ==
  ASSUME TypeInv, NEW w \in Workers, Recover(w)
  PROVE  TypeInv'
<1> DEFINE i == worker[w].item
<1>1. Active(w)
  BY DEF Recover, RecoverRefused, RecoverNothing, RecoverUnusable, RecoverDone, At, Active, Busy
<1>2. CASE RecoverRefused(w) \/ RecoverUnusable(w)
  BY <1>1, <1>2, LeaveTyped, RefuseTyped, ErrorsTyped, OnlyWorkerTyped DEF RecoverRefused, RecoverUnusable
<1>3. CASE RecoverNothing(w)
  <2> DEFINE next == [worker[w] EXCEPT !.pc = "resolve"]
  <2>1. next \in WorkerRecs /\ next.item = worker[w].item /\ next.lease = worker[w].lease
    BY <1>1, WorkerTyped DEF WorkerRecs, Stages, Busy
  <2>2. Refuse(w, FreshUpload) \/ worker' = [worker EXCEPT ![w] = next]
    BY <1>3 DEF RecoverNothing
  <2> HIDE DEF next
  <2> QED
    BY <1>1, <1>3, <2>1, <2>2, MoveTyped, RefuseTyped, ErrorsTyped, OnlyWorkerTyped DEF RecoverNothing
<1>4. CASE RecoverDone(w)
  <2>1. /\ i \in Items
        /\ input[i].resume \in Resumes \cup {None} /\ input[i].report \in Reports \cup {None}
    BY <1>1, WorkerTyped DEF TypeInv, TypeOK, InputRows
  <2>2. resume[input[i].resume].cand \in Candidates \cup {None}
    BY <1>4, <2>1, LinkTyped DEF RecoverDone
  <2>3. Settled(i, resume[input[i].resume].cand, input[i].resume, input[i].report) /\ Leave(w)
    BY <1>4 DEF RecoverDone
  <2>4. item' \in [Items -> ItemRows] /\ input' \in [Items -> InputRows]
    BY <2>1, <2>2, <2>3, SettledTyped
  <2> QED
    BY <1>4, <2>3, <2>4, LeaveTyped DEF RecoverDone, TypeInv, TypeOK, Sourced, rows
<1> QED
  BY <1>2, <1>3, <1>4 DEF Recover

\* Identity resolution keeps the types.
LEMMA ResolveTyped ==
  ASSUME TypeInv, NEW w \in Workers, Resolve(w)
  PROVE  TypeInv'
<1> DEFINE W == worker[w]
           c == IF W.expected # None THEN resume[W.expected].cand ELSE Resolved(PersonOf[TextOf[W.item]])
           next == [worker[w] EXCEPT !.pc = "ingest", !.cand = c]
<1>1. Active(w)
  BY DEF Resolve, At, Active, Busy
<1>2. Refuse(w, Ordinary) \/ Refuse(w, Erased) \/ worker' = [worker EXCEPT ![w] = next]
  BY DEF Resolve
<1>3. c \in Candidates \cup {None}
  <2>1. W.expected \in Resumes \cup {None}
    BY <1>1, WorkerTyped DEF WorkerRecs
  <2> QED
    BY <2>1, ResolvedTyped DEF TypeInv, TypeOK, ResumeRows
<1> HIDE DEF c
<1>4. next \in WorkerRecs /\ next.item = W.item /\ next.lease = W.lease
  BY <1>1, <1>3, WorkerTyped DEF WorkerRecs, Stages, Busy
<1> HIDE DEF next
<1> QED
  BY <1>1, <1>2, <1>4, MoveTyped, RefuseTyped, ErrorsTyped, OnlyWorkerTyped DEF Resolve

\* `ingest_resume` creates or reuses rows with the ids the call then carries.
LEMMA IngestTyped ==
  ASSUME TypeInv, NEW w \in Workers, Ingest(w)
  PROVE  TypeInv'
<1> DEFINE W == worker[w]
           i == W.item
           t == TextOf[i]
<1>1. Active(w)
  BY DEF Ingest, IngestErased, IngestStale, IngestUnavailable, IngestFirst, IngestRetry, At, Active, Busy
<1>2. W \in WorkerRecs /\ i \in Items /\ item[i] \in ItemRows
  BY <1>1, WorkerTyped DEF TypeInv, TypeOK
<1>3. [item EXCEPT ![i].text = FALSE] \in [Items -> ItemRows]
  BY <1>2, ItemRowTyped DEF TypeInv, TypeOK
<1>4. CASE IngestErased(w) \/ IngestStale(w) \/ IngestUnavailable(w)
  BY <1>1, <1>4, RefuseTyped, ErrorsTyped, OnlyWorkerTyped DEF IngestErased, IngestStale, IngestUnavailable
<1>5. CASE IngestFirst(w)
  <2>1. PICK c \in Candidates, r \in Resumes :
          /\ candidate' = IF CandidateLive(c) THEN candidate
                          ELSE [candidate EXCEPT ![c] = [st |-> "live", person |-> PersonOf[t]]]
          /\ resume' = IF ResumeLive(r) THEN resume
                       ELSE [resume EXCEPT ![r] = [st |-> "live", cand |-> c, text |-> t,
                                                   fp |-> FALSE, src |-> i]]
          /\ input' = [input EXCEPT ![i] = [resume |-> r, report |-> None, created |-> item[i].created]]
          /\ Goto(w, [worker[w] EXCEPT !.pc = "farm", !.cand = c, !.resume = r])
    BY <1>5 DEF IngestFirst
  <2>2. t \in Texts /\ PersonOf[t] \in Persons \cup {None}
    BY <1>2, ConstantsOK DEF ConstantsOK
  <2>3. candidate' \in [Candidates -> CandidateRows]
    BY <2>1, <2>2 DEF TypeInv, TypeOK, CandidateRows, RowStates
  <2>4. resume' \in [Resumes -> ResumeRows] /\ Sourced'
    <3>1. [st |-> "live", cand |-> c, text |-> t, fp |-> FALSE, src |-> i] \in ResumeRows
      BY <1>2, <2>2 DEF ResumeRows, RowStates
    <3> QED
      BY <1>2, <2>1, <3>1 DEF TypeInv, TypeOK, Sourced
  <2>5. input' \in [Items -> InputRows]
    BY <1>2, <2>1 DEF TypeInv, TypeOK, InputRows, ItemRows
  <2>6. worker' \in [Workers -> WorkerRecs] /\ ItemInHand'
    <3> DEFINE next == [worker[w] EXCEPT !.pc = "farm", !.cand = c, !.resume = r]
    <3>1. next \in WorkerRecs /\ next.item = W.item /\ next.lease = W.lease
      BY <1>2 DEF WorkerRecs, Stages, Busy
    <3> HIDE DEF next
    <3> QED
      BY <1>1, <2>1, <3>1, MoveTyped DEF next
  <2> QED
    BY <1>3, <1>5, <2>3, <2>4, <2>5, <2>6 DEF IngestFirst, TypeInv, TypeOK
<1>6. CASE IngestRetry(w)
  <2> DEFINE next == [worker[w] EXCEPT !.pc = "farm", !.resume = worker[w].expected]
  <2>1. next \in WorkerRecs /\ next.item = W.item /\ next.lease = W.lease
    BY <1>2 DEF WorkerRecs, Stages, Busy
  <2>2. Goto(w, next)
    BY <1>6 DEF IngestRetry
  <2> HIDE DEF next
  <2>3. worker' \in [Workers -> WorkerRecs] /\ ItemInHand'
    BY <1>1, <2>1, <2>2, MoveTyped
  <2> QED
    BY <1>3, <1>6, <2>3 DEF IngestRetry, TypeInv, TypeOK, Sourced, rows
<1> QED
  BY <1>4, <1>5, <1>6 DEF Ingest

\* Steps that change the program counter only.
LEMMA AdvanceTyped ==
  ASSUME TypeInv, NEW w \in Workers, Active(w), NEW pc \in Stages,
         LET next == [worker[w] EXCEPT !.pc = pc]
         IN  Goto(w, next) \/ worker' = [worker EXCEPT ![w] = next]
  PROVE  worker' \in [Workers -> WorkerRecs] /\ ItemInHand'
<1> DEFINE next == [worker[w] EXCEPT !.pc = pc]
<1>1. next \in WorkerRecs /\ next.item = worker[w].item /\ next.lease = worker[w].lease
  BY WorkerTyped DEF WorkerRecs
<1>2. Goto(w, next) \/ worker' = [worker EXCEPT ![w] = next]
  OBVIOUS
<1> HIDE DEF next
<1> QED
  BY <1>1, <1>2, MoveTyped

\* Registering the fingerprint of a resume keeps the types.
LEMMA FarmTyped ==
  ASSUME TypeInv, NEW w \in Workers, Farm(w)
  PROVE  TypeInv'
<1> DEFINE r == worker[w].resume
<1>1. Active(w)
  BY DEF Farm, At, Active, Busy
<1>2. worker' \in [Workers -> WorkerRecs] /\ ItemInHand'
  <2>1. Refuse(w, Erased) \/ Goto(w, [worker[w] EXCEPT !.pc = "require"])
    BY DEF Farm
  <2> QED
    BY <1>1, <2>1, AdvanceTyped, RefuseTyped, ErrorsTyped DEF Stages, Busy
<1>3. resume' \in [Resumes -> ResumeRows] /\ Sourced'
  <2>1. resume' = resume \/ resume' = [resume EXCEPT ![r].fp = TRUE]
    BY DEF Farm
  <2>2. CASE r \in Resumes
    <3> DEFINE row == [resume[r] EXCEPT !.fp = TRUE]
    <3>1. row \in ResumeRows /\ row.st = resume[r].st /\ row.src = resume[r].src
      BY <2>2 DEF TypeInv, TypeOK, ResumeRows
    <3>2. resume' = resume \/ resume' = [resume EXCEPT ![r] = row]
      BY <2>1
    <3> HIDE DEF row
    <3> QED
      BY <2>2, <3>1, <3>2 DEF TypeInv, TypeOK, Sourced
  <2>3. CASE r \notin Resumes
    BY <2>1, <2>3 DEF TypeInv, TypeOK, Sourced
  <2> QED
    BY <2>2, <2>3
<1> QED
  BY <1>2, <1>3 DEF Farm, TypeInv, TypeOK

\* The checks of evaluation and of confirmation keep the types.
LEMMA RequireTyped ==
  ASSUME TypeInv, NEW w \in Workers, Evaluate(w) \/ Confirm(w)
  PROVE  TypeInv'
<1>1. Active(w)
  BY DEF Evaluate, Require, Confirm, At, Active, Busy
<1>2. PICK pc \in Stages : Refuse(w, Erased) \/ worker' = [worker EXCEPT ![w].pc = pc]
  BY DEF Evaluate, Require, Confirm, Stages, Busy
<1>3. worker' \in [Workers -> WorkerRecs] /\ ItemInHand'
  BY <1>1, <1>2, AdvanceTyped, RefuseTyped, ErrorsTyped
<1> QED
  BY <1>3, OnlyWorkerTyped DEF Evaluate, Require, Confirm

\* Saving the report keeps the types.
LEMMA SaveTyped ==
  ASSUME TypeInv, NEW w \in Workers, Save(w)
  PROVE  TypeInv'
<1> DEFINE W == worker[w]
           i == W.item
<1>1. Active(w)
  BY DEF Save, SaveRefused, SaveReport, At, Active, Busy
<1>2. CASE SaveRefused(w)
  BY <1>1, <1>2, RefuseTyped, ErrorsTyped, OnlyWorkerTyped DEF SaveRefused
<1>3. CASE SaveReport(w)
  <2>1. W \in WorkerRecs /\ i \in Items /\ item[i] \in ItemRows
    BY <1>1, WorkerTyped DEF TypeInv, TypeOK
  <2>2. PICK p \in Reports :
          /\ report' = [report EXCEPT ![p] = [st |-> "live", cand |-> W.cand, src |-> i]]
          /\ input' = [input EXCEPT ![i].report = p]
          /\ Goto(w, [W EXCEPT !.pc = "confirm", !.report = p])
    BY <1>3 DEF SaveReport, BindReport
  <2>3. report' \in [Reports -> ReportRows]
    <3>1. [st |-> "live", cand |-> W.cand, src |-> i] \in ReportRows
      BY <2>1 DEF ReportRows, RowStates, WorkerRecs
    <3> QED
      BY <2>2, <3>1 DEF TypeInv, TypeOK
  <2>4. input' \in [Items -> InputRows]
    BY <2>1, <2>2 DEF TypeInv, TypeOK, InputRows
  <2>5. item' \in [Items -> ItemRows]
    BY <1>3, <2>1, ItemRowTyped DEF SaveReport, TypeInv, TypeOK
  <2>6. worker' \in [Workers -> WorkerRecs] /\ ItemInHand'
    <3> DEFINE next == [W EXCEPT !.pc = "confirm", !.report = p]
    <3>1. next \in WorkerRecs /\ next.item = W.item /\ next.lease = W.lease
      BY <2>1 DEF WorkerRecs, Stages, Busy
    <3> HIDE DEF next
    <3> QED
      BY <1>1, <2>2, <3>1, MoveTyped DEF next
  <2> QED
    BY <1>3, <2>3, <2>4, <2>5, <2>6 DEF SaveReport, TypeInv, TypeOK, Sourced
<1> QED
  BY <1>2, <1>3 DEF Save

\* `complete`, its cleanup and `fail` keep the types.
LEMMA FinishTyped ==
  ASSUME TypeInv, NEW w \in Workers, Finish(w)
  PROVE  TypeInv'
<1> DEFINE W == worker[w]
           i == W.item
<1>1. Active(w)
  BY DEF Finish, CompleteRefused, CompleteRolledBack, Complete, Cleanup, Fail, At, Active, Busy
<1>2. W \in WorkerRecs /\ i \in Items /\ item[i] \in ItemRows
  BY <1>1, WorkerTyped DEF TypeInv, TypeOK
<1>3. CASE CompleteRefused(w)
  BY <1>3, LeaveTyped, OnlyWorkerTyped DEF CompleteRefused
<1>4. CASE CompleteRolledBack(w)
  BY <1>1, <1>4, AdvanceTyped, OnlyWorkerTyped DEF CompleteRolledBack, Stages, Busy
<1>5. CASE Complete(w)
  <2>1. item' \in [Items -> ItemRows] /\ input' \in [Items -> InputRows]
    BY <1>2, <1>5, SettledTyped DEF Complete, WorkerRecs
  <2> QED
    BY <1>5, <2>1, LeaveTyped DEF Complete, TypeInv, TypeOK, Sourced, rows
<1>6. CASE Cleanup(w)
  <2>1. item' \in [Items -> ItemRows] /\ input' \in [Items -> InputRows]
    BY <1>2, <1>6, ScrubbedTyped DEF Cleanup, TypeInv, TypeOK
  <2> QED
    BY <1>6, <2>1, LeaveTyped DEF Cleanup, TypeInv, TypeOK, Sourced, rows
<1>7. CASE Fail(w)
  <2>1. item' \in [Items -> ItemRows] /\ input' \in [Items -> InputRows]
    <3> DEFINE row == [item[i] EXCEPT !.status = "failed", !.error = W.err]
    <3>1. row \in ItemRows
      BY <1>2, ItemRowFailed DEF WorkerRecs
    <3>2. \/ UNCHANGED <<item, input>>
          \/ Scrubbed(i)
          \/ item' = [item EXCEPT ![i] = row] /\ input' = input
      BY <1>7 DEF Fail
    <3> HIDE DEF row
    <3> QED
      BY <1>2, <3>1, <3>2, ScrubbedTyped DEF TypeInv, TypeOK
  <2> QED
    BY <1>7, <2>1, LeaveTyped DEF Fail, TypeInv, TypeOK, Sourced, rows
<1> QED
  BY <1>3, <1>4, <1>5, <1>6, <1>7 DEF Finish

\* A call that dies or is abandoned keeps the types.
LEMMA InterruptTyped ==
  ASSUME TypeInv, NEW w \in Workers, Interrupt(w)
  PROVE  TypeInv'
<1>1. CASE PipelineFails(w)
  <2>1. Active(w)
    BY <1>1 DEF PipelineFails, Active, Busy
  <2> QED
    BY <1>1, <2>1, RefuseTyped, ErrorsTyped, OnlyWorkerTyped DEF PipelineFails
<1>2. CASE Abandon(w)
  <2> DEFINE next == [worker[w] EXCEPT !.orphan = TRUE]
  <2>1. Active(w)
    BY <1>2 DEF Abandon, Active, Busy
  <2>2. next \in WorkerRecs /\ next.item = worker[w].item /\ next.lease = worker[w].lease
    BY <2>1, WorkerTyped DEF WorkerRecs
  <2>3. worker' = [worker EXCEPT ![w] = next]
    BY <1>2 DEF Abandon
  <2> HIDE DEF next
  <2> QED
    BY <1>2, <2>1, <2>2, <2>3, MoveTyped, OnlyWorkerTyped DEF Abandon
<1>3. CASE Stop(w)
  BY <1>3, LeaveTyped, OnlyWorkerTyped DEF Stop
<1> QED
  BY <1>1, <1>2, <1>3 DEF Interrupt

-----------------------------------------------------------------------------

\* Every step of the component keeps the types.
LEMMA NextTyped == TypeInv /\ [Next]_vars => TypeInv'
<1> SUFFICES ASSUME TypeInv, [Next]_vars PROVE TypeInv'
  OBVIOUS
<1>1. CASE UNCHANGED vars
  BY <1>1 DEF vars, rows, TypeInv, TypeOK, ItemInHand, Sourced
<1>2. ASSUME NEW w \in Workers, Step(w)
      PROVE  TypeInv'
  BY <1>2, ClaimTyped, LoadTyped, RecoverTyped, ResolveTyped, IngestTyped, FarmTyped,
     RequireTyped, SaveTyped, FinishTyped DEF Step
<1> QED
  BY <1>1, <1>2, PassiveTyped, OrganisationTyped, ErasureTyped, BeginClaimTyped, InterruptTyped DEF Next

\* Every row and every call record stays of its type, and what a call in flight
\* acts on exists: it has a lease time, and past its claim an item.
THEOREM TypeCorrect == Spec => []TypeOK
<1>1. Spec => []TypeInv
  BY InitTyped, NextTyped, PTL DEF Spec
<1>2. TypeInv => TypeOK
  BY DEF TypeInv
<1> QED
  BY <1>1, <1>2, PTL

-----------------------------------------------------------------------------
(***************************************************************************)
(* Two calls never hold one item under a live lease, for any number of     *)
(* calls and items, any claim timeout and any clock.                       *)
(*                                                                         *)
(* A claim writes the time its call began with as the lease, so two calls  *)
(* may carry equal leases on one item.  The argument: they do so only when *)
(* that lease has expired (OneHolder), because an item whose live lease    *)
(* was overtaken can only have been settled or refused, which no claim and *)
(* no retry undoes (StillHeld).                                            *)
(***************************************************************************)

NoFuture == \A w \in Workers : worker[w].lease <= clock

OneHolder ==
  \A v, w \in Workers :
    /\ v # w /\ Active(v) /\ Active(w)
    /\ worker[v].item = worker[w].item /\ worker[v].lease = worker[w].lease
    => ~Live(worker[w].lease)

Closed(i) == item[i].status \in {"done", "deleted"} \/ Refused(i)

StillHeld ==
  \A w \in Workers :
    Active(w) /\ Live(worker[w].lease) => HoldsLease(w) \/ Closed(worker[w].item)

LeaseInv == TypeInv /\ NoFuture /\ OneHolder /\ StillHeld

-----------------------------------------------------------------------------
(* What an action does to calls and items, as far as leases are concerned. *)

\* Calls go on with what they have, or leave.
Continues ==
  \A w \in Workers :
    worker'[w].pc \in Busy =>
      /\ worker[w].pc \in Busy
      /\ worker'[w].item = worker[w].item /\ worker'[w].lease = worker[w].lease

Unmoved(i) == /\ item'[i].status = item[i].status
              /\ item'[i].claimedAt = item[i].claimedAt
              /\ item'[i].error = item[i].error

\* No call at work on the item has a live lease.
Unclaimed(i) == \A w \in Workers :
                  Active(w) /\ worker[w].item = i => ~Live(worker[w].lease)

\* A step after which calls only carry on with what they held, and items are
\* left alone, closed or unclaimed, keeps the invariant.
LEMMA Frame ==
  ASSUME LeaseInv, TypeInv', NoFuture', clock' >= clock, Continues,
         \A i \in Items : Unmoved(i) \/ Closed(i)' \/ Unclaimed(i)'
  PROVE  LeaseInv'
<1>1. ASSUME NEW w \in Workers, Active(w)', Live(worker[w].lease)'
      PROVE  Active(w) /\ Live(worker[w].lease)
  <2>1. worker[w].lease \in Nat /\ clock \in Nat /\ clock' \in Nat /\ ClaimTimeout \in Nat
    BY <1>1, WorkerTyped, ConstantsOK DEF LeaseInv, TypeInv, TypeOK, Continues, Active, ConstantsOK
  <2> QED
    BY <1>1, <2>1 DEF Continues, Active, Live
<1>2. OneHolder'
  BY <1>1 DEF LeaseInv, OneHolder, Continues, Active
<1>3. StillHeld'
  <2> SUFFICES ASSUME NEW w \in Workers, Active(w)', Live(worker[w].lease)'
               PROVE  HoldsLease(w)' \/ Closed(worker[w].item)'
    BY DEF StillHeld
  <2> DEFINE i == worker[w].item
  <2>1. worker'[w].item = i /\ worker'[w].lease = worker[w].lease /\ i \in Items
    BY <1>1, WorkerTyped DEF Continues, Active, LeaseInv
  <2>2. HoldsLease(w) \/ Closed(i)
    BY <1>1 DEF LeaseInv, StillHeld
  <2>3. ~Unclaimed(i)'
    BY <2>1 DEF Unclaimed
  <2>4. CASE Closed(i)'
    BY <2>1, <2>4
  <2>5. CASE Unmoved(i)
    BY <2>1, <2>2, <2>5 DEF Unmoved, HoldsLease, Closed, Refused
  <2> QED
    BY <2>1, <2>3, <2>4, <2>5
<1> QED
  BY <1>2, <1>3 DEF LeaseInv

\* An item no live call can be at work on: not registered, or failed and open
\* to a retry.
LEMMA NobodyThere ==
  ASSUME LeaseInv, NEW i \in Items, ~Closed(i), item[i].status # "processing",
         UNCHANGED <<worker, clock>>
  PROVE  Unclaimed(i)'
<1> SUFFICES ASSUME NEW w \in Workers, Active(w), worker[w].item = i, Live(worker[w].lease)
             PROVE  FALSE
  BY DEF Unclaimed, Active, Live
<1> QED
  BY DEF LeaseInv, StillHeld, Active, HoldsLease

\* The call that holds the live lease leaves nobody behind.
LEMMA HolderLeaves ==
  ASSUME LeaseInv, NEW w \in Workers, Active(w), HoldsLiveLease(w), Leave(w), UNCHANGED clock
  PROVE  \A i \in Items : i = worker[w].item => Unclaimed(i)'
<1> DEFINE i == worker[w].item
<1>1. i \in Items /\ item[i].status = "processing" /\ ~Closed(i)
  BY WorkerTyped DEF LeaseInv, HoldsLiveLease, HoldsLease, Closed, Refused
<1> SUFFICES ASSUME NEW v \in Workers, Active(v)', worker'[v].item = i, Live(worker'[v].lease)
             PROVE  FALSE
  BY DEF Unclaimed, Live
<1>2. v # w
  BY DEF Leave, Idle, Busy, Active, LeaseInv, TypeInv, TypeOK
<1>3. worker'[v] = worker[v]
  BY <1>2 DEF Leave, LeaseInv, TypeInv, TypeOK
<1>4. HoldsLease(v)
  BY <1>1, <1>3 DEF LeaseInv, StillHeld, Active
<1>5. worker[v].lease = worker[w].lease
  BY <1>3, <1>4 DEF HoldsLiveLease, HoldsLease
<1> QED
  BY <1>2, <1>3, <1>5 DEF LeaseInv, OneHolder, Active

\* A call that ends lets the others carry on.
LEMMA LeaveContinues ==
  ASSUME LeaseInv, NEW w \in Workers, Leave(w), UNCHANGED clock
  PROVE  Continues /\ NoFuture'
<1>1. clock \in Nat /\ Idle.pc \notin Busy /\ Idle.lease <= clock
  BY DEF Idle, Busy, NoTime, LeaseInv, TypeInv, TypeOK
<1> QED
  BY <1>1 DEF Leave, Continues, NoFuture, LeaseInv, TypeInv, TypeOK

\* A call that moves on with the same item and the same lease carries on.
LEMMA MoveContinues ==
  ASSUME LeaseInv, NEW w \in Workers, Active(w), NEW next,
         next.item = worker[w].item, next.lease = worker[w].lease,
         Goto(w, next) \/ worker' = [worker EXCEPT ![w] = next], UNCHANGED clock
  PROVE  Continues /\ NoFuture'
<1>1. clock \in Nat /\ Idle.pc \notin Busy /\ Idle.lease <= clock
  BY DEF Idle, Busy, NoTime, LeaseInv, TypeInv, TypeOK
<1> QED
  BY <1>1 DEF Goto, Active, Continues, NoFuture, LeaseInv, TypeInv, TypeOK

\* A call that takes an error to `fail` still holds its item and its lease.
LEMMA RefuseContinues ==
  ASSUME LeaseInv, NEW w \in Workers, Active(w), NEW e, Refuse(w, e), UNCHANGED clock
  PROVE  Continues /\ NoFuture'
<1> DEFINE next == [worker[w] EXCEPT !.pc = "failing", !.err = e]
<1>1. next.item = worker[w].item /\ next.lease = worker[w].lease
  BY WorkerTyped DEF LeaseInv, WorkerRecs
<1>2. Goto(w, next)
  BY DEF Refuse
<1> HIDE DEF next
<1> QED
  BY <1>1, <1>2, MoveContinues

\* Items of which the store wrote no status, lease or reason.
LEMMA SameItem == item' = item => \A i \in Items : Unmoved(i)
BY DEF Unmoved

\* Blanking the text of a row does not move it.
LEMMA SameText ==
  ASSUME LeaseInv, NEW j \in Items, item' = [item EXCEPT ![j].text = FALSE]
  PROVE  \A i \in Items : Unmoved(i)
<1>1. \A i \in Items : item[i] \in ItemRows
  BY DEF LeaseInv, TypeInv, TypeOK
<1> QED
  BY <1>1 DEF Unmoved, ItemRows, LeaseInv, TypeInv, TypeOK

-----------------------------------------------------------------------------
(* Each action preserves LeaseInv. *)

\* Nothing is claimed at the start.
LEMMA InitLeases == Init => LeaseInv
<1> SUFFICES ASSUME Init PROVE LeaseInv
  OBVIOUS
<1>1. \A w \in Workers : ~Active(w) /\ worker[w].lease <= clock
  BY DEF Init, Idle, Active, Busy, NoTime
<1> QED
  BY <1>1, InitTyped DEF LeaseInv, NoFuture, OneHolder, StillHeld

\* The clock and the two retention targets touch no lease.
LEMMA PassiveLeases ==
  ASSUME LeaseInv, Tick \/ SweepText \/ SweepInputs
  PROVE  LeaseInv'
<1>1. TypeInv'
  BY PassiveTyped DEF LeaseInv
<1>2. worker' = worker /\ clock' >= clock
  BY DEF Tick, SweepText, SweepInputs, LeaseInv, TypeInv, TypeOK
<1>3. Continues /\ NoFuture'
  <2>1. \A w \in Workers : worker[w] \in WorkerRecs /\ worker[w].lease \in Int
    BY DEF LeaseInv, TypeInv, TypeOK, WorkerRecs, NoTime
  <2>2. clock \in Int /\ clock' \in Int
    BY <1>1 DEF LeaseInv, TypeInv, TypeOK
  <2> QED
    BY <1>2, <2>1, <2>2 DEF Continues, NoFuture, LeaseInv
<1>4. \A i \in Items : Unmoved(i)
  <2>1. CASE SweepText
    <3>1. ASSUME NEW i \in Items PROVE item'[i] = item[i] \/ item'[i] = [item[i] EXCEPT !.text = FALSE]
      BY <2>1 DEF SweepText
    <3>2. \A i \in Items : item[i] \in ItemRows
      BY DEF LeaseInv, TypeInv, TypeOK
    <3> QED
      BY <3>1, <3>2 DEF Unmoved, ItemRows
  <2> QED
    BY <2>1, SameItem DEF Tick, SweepInputs
<1> QED
  BY <1>1, <1>2, <1>3, <1>4, Frame

\* Registration, retry and deletion of a batch unclaim or close items; they
\* give none to a call.
LEMMA OrganisationLeases ==
  ASSUME LeaseInv, Organisation
  PROVE  LeaseInv'
<1>1. TypeInv'
  BY OrganisationTyped DEF LeaseInv
<1>2. worker' = worker /\ clock' = clock
  BY DEF Organisation, Register, Requeue, DeleteBatch
<1>3. Continues /\ NoFuture' /\ clock' >= clock
  BY <1>1, <1>2 DEF Continues, NoFuture, LeaseInv, TypeInv, TypeOK
<1>4. \A i \in Items : Unmoved(i) \/ Closed(i)' \/ Unclaimed(i)'
  <2> TAKE i \in Items
  <2>1. ASSUME NEW b \in Batches, NEW S \in SUBSET Items \ {{}}, Register(b, S)
        PROVE  Unmoved(i) \/ Unclaimed(i)'
    <3>1. item'[i] = item[i] \/ item[i].status = "none"
      BY <2>1 DEF Register
    <3> QED
      BY <1>2, <3>1, NobodyThere DEF Unmoved, Closed, Refused
  <2>2. ASSUME NEW b \in Batches, Requeue(b)
        PROVE  Unmoved(i) \/ Unclaimed(i)'
    <3>1. item'[i] = item[i] \/ Retryable(i)
      BY <2>2 DEF Requeue
    <3> QED
      BY <1>2, <3>1, NobodyThere DEF Unmoved, Closed, Refused, Retryable
  <2>3. ASSUME NEW b \in Batches, DeleteBatch(b)
        PROVE  Unmoved(i) \/ Closed(i)'
    <3>1. item'[i] = item[i] \/ item'[i].status = "deleted"
      BY <2>3 DEF DeleteBatch, NoItem
    <3> QED
      BY <3>1 DEF Unmoved, Closed
  <2> QED
    BY <2>1, <2>2, <2>3 DEF Organisation
<1> QED
  BY <1>1, <1>3, <1>4, Frame

\* Erasure closes or unlinks items and moves no call.
LEMMA ErasureLeases ==
  ASSUME LeaseInv, Erasure
  PROVE  LeaseInv'
<1>1. TypeInv'
  BY ErasureTyped DEF LeaseInv
<1>2. PICK cs, rs, ps : Delete(cs, rs, ps)
  BY DEF Erasure, EraseCandidate, EraseResume, EraseReport
<1>3. worker' = worker /\ clock' = clock
  BY <1>2 DEF Delete
<1>4. Continues /\ NoFuture' /\ clock' >= clock
  BY <1>1, <1>3 DEF Continues, NoFuture, LeaseInv, TypeInv, TypeOK
<1>5. \A i \in Items : Unmoved(i)
  <2> TAKE i \in Items
  <2>1. PICK c, r, p : item'[i] = [item[i] EXCEPT !.cand = c, !.resume = r, !.report = p]
    BY <1>2 DEF Delete
  <2>2. item[i] \in ItemRows
    BY DEF LeaseInv, TypeInv, TypeOK
  <2> QED
    BY <2>1, <2>2 DEF Unmoved, ItemRows
<1> QED
  BY <1>1, <1>4, <1>5, Frame

\* A call samples the clock; equal samples are harmless until one of them
\* claims.
LEMMA BeginClaimLeases ==
  ASSUME LeaseInv, NEW w \in Workers, NEW b \in Batches, BeginClaim(w, b)
  PROVE  LeaseInv'
<1>1. TypeInv'
  BY BeginClaimTyped DEF LeaseInv
<1> DEFINE next == [Idle EXCEPT !.pc = "claiming", !.batch = b, !.lease = clock]
<1>2. next.pc \notin Busy /\ next.lease = clock
  BY DEF Idle, Busy
<1>3. worker' = [worker EXCEPT ![w] = next] /\ clock' = clock /\ item' = item
  BY DEF BeginClaim
<1> HIDE DEF next
<1>4. Continues /\ NoFuture' /\ clock' >= clock
  BY <1>2, <1>3 DEF Continues, NoFuture, LeaseInv, TypeInv, TypeOK
<1> QED
  BY <1>1, <1>3, <1>4, SameItem, Frame

\* A claim takes an item only when no live call is at work on it, even when it
\* carries an old time of its own.
LEMMA ClaimableUnheld ==
  ASSUME LeaseInv, NEW i \in Items, NEW w \in Workers, worker[w].lease \in Nat,
         Claimable(i, worker[w].lease)
  PROVE  Unclaimed(i)
<1> SUFFICES ASSUME NEW v \in Workers, Active(v), worker[v].item = i, Live(worker[v].lease)
             PROVE  FALSE
  BY DEF Unclaimed
<1>1. /\ clock \in Nat /\ ClaimTimeout \in Nat /\ worker[v].lease \in Nat
      /\ worker[w].lease <= clock
  BY WorkerTyped, ConstantsOK DEF LeaseInv, TypeInv, TypeOK, NoFuture, ConstantsOK
<1>2. HoldsLease(v)
  BY DEF LeaseInv, StillHeld, Closed, Refused, Claimable, StaleProcessing
<1>3. item[i].status = "processing" /\ item[i].claimedAt = worker[v].lease
  BY <1>2 DEF HoldsLease
<1>4. worker[v].lease < worker[w].lease - ClaimTimeout
  BY <1>1, <1>3 DEF Claimable, StaleProcessing, NoTime
<1> QED
  BY <1>1, <1>4 DEF Live

\* A claim takes an item that is pending or whose lease has expired, so nobody
\* else holds it live.
LEMMA ClaimLeases ==
  ASSUME LeaseInv, NEW w \in Workers, Claim(w)
  PROVE  LeaseInv'
<1> DEFINE b == worker[w].batch
           now == worker[w].lease
           refused == [i \in Items |->
                         IF BatchOf[i] = b /\ Blocked(i)
                         THEN [item[i] EXCEPT !.status = "failed", !.error = FreshUpload, !.claimedAt = NoTime]
                         ELSE item[i]]
           free == {i \in Items : BatchOf[i] = b /\ ~Blocked(i) /\ Claimable(i, now)}
           oldest == {i \in free : \A j \in free : item[i].created <= item[j].created}
<1>1. TypeInv' /\ clock' = clock /\ clock \in Nat /\ now \in Nat /\ now <= clock
  BY ClaimTyped DEF LeaseInv, Claim, At, TypeInv, TypeOK, ItemInHand, Equipped, NoFuture
<1>2. ASSUME NEW i \in Items
      PROVE  /\ refused[i] \in ItemRows
             /\ \/ refused[i] = item[i]
                \/ refused[i].status = "failed" /\ refused[i].error = FreshUpload
  <2>1. item[i] \in ItemRows
    BY DEF LeaseInv, TypeInv, TypeOK
  <2> QED
    BY <2>1, ItemRowTyped DEF ItemRows
<1>3. refused = [i \in Items |-> refused[i]]
  OBVIOUS
<1>4. \/ item' = refused /\ Leave(w)
      \/ \E i \in oldest :
           /\ item' = [refused EXCEPT ![i].status = "processing", ![i].claimedAt = now]
           /\ worker' = [worker EXCEPT ![w].pc = "load", ![w].item = i]
  BY DEF Claim
<1>5. \A i \in oldest : i \in Items /\ ~Blocked(i) /\ Claimable(i, now) /\ refused[i] = item[i]
  OBVIOUS
<1> HIDE DEF refused, oldest
<1>6. CASE item' = refused /\ Leave(w)
  <2>1. \A i \in Items : Unmoved(i) \/ Closed(i)'
    BY <1>2, <1>6 DEF Unmoved, Closed, Refused
  <2>2. Continues /\ NoFuture' /\ clock' >= clock
    BY <1>1, <1>6, LeaveContinues
  <2> QED
    BY <1>1, <2>1, <2>2, Frame
<1>7. ASSUME NEW i \in oldest,
             item' = [refused EXCEPT ![i].status = "processing", ![i].claimedAt = now],
             worker' = [worker EXCEPT ![w].pc = "load", ![w].item = i]
      PROVE  LeaseInv'
  <2>1. i \in Items /\ Unclaimed(i)
    BY <1>1, <1>5, ClaimableUnheld
  <2>2. worker[w] \in WorkerRecs
    BY DEF LeaseInv, TypeInv, TypeOK
  <2>3. /\ worker'[w].item = i /\ worker'[w].lease = now
        /\ \A v \in Workers : v # w => worker'[v] = worker[v]
    BY <1>7, <2>2 DEF LeaseInv, TypeInv, TypeOK, WorkerRecs
  <2>4. NoFuture'
    BY <1>1, <2>3 DEF NoFuture, LeaseInv
  <2>5. item'[i].status = "processing" /\ item'[i].claimedAt = now
    BY <1>2, <1>3, <1>7, <2>1 DEF ItemRows
  <2>6. \A j \in Items : j # i => Unmoved(j) \/ Closed(j)'
    BY <1>2, <1>3, <1>7, <2>1 DEF Unmoved, Closed, Refused
  <2>7. ASSUME NEW v \in Workers, v # w, Active(v)', worker'[v].item = i
        PROVE  ~Live(worker[v].lease)'
    BY <1>1, <2>1, <2>3, <2>7 DEF Unclaimed, Active, Live
  <2>8. OneHolder'
    <3> SUFFICES ASSUME NEW u \in Workers, NEW v \in Workers, u # v, Active(u)', Active(v)',
                        worker'[u].item = worker'[v].item, worker'[u].lease = worker'[v].lease
                 PROVE  ~Live(worker[v].lease)'
      BY DEF OneHolder
    <3>1. CASE u = w \/ v = w
      BY <2>3, <2>7, <3>1 DEF Live
    <3>2. CASE u # w /\ v # w
      BY <1>1, <2>3, <3>2 DEF LeaseInv, OneHolder, Active, Live
    <3> QED
      BY <3>1, <3>2
  <2>9. StillHeld'
    <3> SUFFICES ASSUME NEW v \in Workers, Active(v)', Live(worker[v].lease)'
                 PROVE  HoldsLease(v)' \/ Closed(worker[v].item)'
      BY DEF StillHeld
    <3>1. CASE v = w
      BY <2>3, <2>5, <3>1 DEF HoldsLease
    <3>2. CASE v # w
      <4>1. worker'[v] = worker[v] /\ Active(v) /\ Live(worker[v].lease) /\ worker[v].item \in Items
        BY <1>1, <2>3, <3>2, WorkerTyped DEF Active, Live, LeaseInv
      <4>2. worker[v].item # i
        BY <2>1, <4>1 DEF Unclaimed
      <4> QED
        BY <2>6, <4>1, <4>2 DEF LeaseInv, StillHeld, HoldsLease, Closed, Refused, Unmoved
    <3> QED
      BY <3>1, <3>2
  <2> QED
    BY <1>1, <2>4, <2>8, <2>9 DEF LeaseInv
<1> QED
  BY <1>4, <1>6, <1>7

\* Steps that leave every item's status, lease and reason alone.
LEMMA QuietLeases ==
  ASSUME LeaseInv, NEW w \in Workers, TypeInv', Continues, NoFuture', clock' = clock,
         item' = item \/ \E j \in Items : item' = [item EXCEPT ![j].text = FALSE]
  PROVE  LeaseInv'
<1>1. \A i \in Items : Unmoved(i)
  BY SameItem, SameText
<1>2. clock' >= clock
  BY DEF LeaseInv, TypeInv, TypeOK
<1> QED
  BY <1>1, <1>2, Frame

\* A step that settles or fails the item under its live lease and leaves.
LEMMA TerminalLeases ==
  ASSUME LeaseInv, NEW w \in Workers, Active(w), TypeInv', Leave(w), clock' = clock,
         \A j \in Items : j # worker[w].item => item'[j] = item[j],
         item' = item \/ HoldsLiveLease(w)
  PROVE  LeaseInv'
<1>1. Continues /\ NoFuture'
  BY LeaveContinues
<1>2. \A j \in Items : Unmoved(j) \/ Unclaimed(j)'
  BY HolderLeaves DEF Unmoved
<1>3. clock' >= clock
  BY DEF LeaseInv, TypeInv, TypeOK
<1> QED
  BY <1>1, <1>2, <1>3, Frame

\* Reading back, recovering and resolving keep the lease, or close the item
\* under it.
LEMMA EarlyLeases ==
  ASSUME LeaseInv, NEW w \in Workers, Load(w) \/ Recover(w) \/ Resolve(w)
  PROVE  LeaseInv'
<1> DEFINE W == worker[w]
<1>1. Active(w) /\ clock' = clock
  BY DEF Load, Recover, RecoverRefused, RecoverNothing, RecoverUnusable, RecoverDone, Resolve, At, Active, Busy
<1>2. TypeInv'
  BY LoadTyped, RecoverTyped, ResolveTyped DEF LeaseInv
<1>3. W \in WorkerRecs
  BY <1>1, WorkerTyped DEF LeaseInv
<1>4. CASE ~RecoverDone(w)
  <2>1. item' = item
    BY <1>4 DEF Load, Recover, RecoverRefused, RecoverNothing, RecoverUnusable, Resolve
  <2>2. \/ Leave(w)
        \/ \E e : Refuse(w, e)
        \/ \E e, g, h : worker' = [worker EXCEPT ![w] = [W EXCEPT !.pc = "recover", !.expected = e,
                                                               !.gen = g, !.hasText = h]]
        \/ worker' = [worker EXCEPT ![w] = [W EXCEPT !.pc = "resolve"]]
        \/ \E c : worker' = [worker EXCEPT ![w] = [W EXCEPT !.pc = "ingest", !.cand = c]]
    <3>1. CASE Load(w)
      <4> DEFINE e == input[W.item].resume
                 g == item[W.item].gen
                 h == HasInput(W.item) \/ item[W.item].text
      <4>1. \/ Leave(w)
            \/ worker' = [worker EXCEPT ![w] = [W EXCEPT !.pc = "recover", !.expected = e,
                                                       !.gen = g, !.hasText = h]]
        BY <3>1 DEF Load
      <4> HIDE DEF e, g, h
      <4> QED
        BY <4>1
    <3>2. CASE Recover(w)
      BY <1>4, <3>2 DEF Recover, RecoverRefused, RecoverNothing, RecoverUnusable
    <3>3. CASE Resolve(w)
      BY <3>3 DEF Resolve
    <3> QED
      BY <1>4, <3>1, <3>2, <3>3
  <2>3. \/ Leave(w)
        \/ \E e : Refuse(w, e)
        \/ \E next : /\ next.item = W.item /\ next.lease = W.lease
                     /\ worker' = [worker EXCEPT ![w] = next]
    BY <1>3, <2>2 DEF WorkerRecs
  <2>4. Continues /\ NoFuture'
    BY <1>1, <2>3, LeaveContinues, RefuseContinues, MoveContinues
  <2> QED
    BY <1>1, <1>2, <2>1, <2>4, QuietLeases
<1>5. CASE RecoverDone(w)
  <2>1. Leave(w) /\ HoldsLiveLease(w) /\ \A j \in Items : j # W.item => item'[j] = item[j]
    BY <1>5 DEF RecoverDone, Settled, LeaseInv, TypeInv, TypeOK
  <2> QED
    BY <1>1, <1>2, <2>1, TerminalLeases
<1> QED
  BY <1>4, <1>5

\* Ingest, save and confirmation keep the lease of the call that makes them.
LEMMA MiddleLeases ==
  ASSUME LeaseInv, NEW w \in Workers,
         Ingest(w) \/ Farm(w) \/ Evaluate(w) \/ Save(w) \/ Confirm(w)
  PROVE  LeaseInv'
<1> DEFINE W == worker[w]
<1>1. Active(w)
  BY DEF Ingest, IngestErased, IngestStale, IngestUnavailable, IngestFirst, IngestRetry, Farm, Evaluate,
         Require, Save, SaveRefused, SaveReport, Confirm, At, Active, Busy
<1>2. clock' = clock
  BY DEF Ingest, IngestErased, IngestStale, IngestUnavailable, IngestFirst, IngestRetry, Farm, Evaluate,
         Require, Save, SaveRefused, SaveReport, Confirm
<1>3. TypeInv'
  BY IngestTyped, FarmTyped, RequireTyped, SaveTyped DEF LeaseInv
<1>4. W \in WorkerRecs /\ W.item \in Items
  BY <1>1, WorkerTyped DEF LeaseInv
<1>5. item' = item \/ \E j \in Items : item' = [item EXCEPT ![j].text = FALSE]
  <2>1. CASE Ingest(w)
    BY <1>4, <2>1 DEF Ingest, IngestErased, IngestStale, IngestUnavailable, IngestFirst, IngestRetry
  <2>2. CASE Save(w)
    BY <1>4, <2>2 DEF Save, SaveRefused, SaveReport
  <2> QED
    BY <2>1, <2>2 DEF Farm, Evaluate, Require, Confirm
<1>6. \/ \E e : Refuse(w, e)
      \/ \E next : /\ next.item = W.item /\ next.lease = W.lease
                   /\ Goto(w, next) \/ worker' = [worker EXCEPT ![w] = next]
  <2>1. CASE Ingest(w)
    <3>1. CASE IngestFirst(w)
      <4>1. PICK c, r : Goto(w, [W EXCEPT !.pc = "farm", !.cand = c, !.resume = r])
        BY <3>1 DEF IngestFirst
      <4>2. /\ [W EXCEPT !.pc = "farm", !.cand = c, !.resume = r].item = W.item
            /\ [W EXCEPT !.pc = "farm", !.cand = c, !.resume = r].lease = W.lease
        BY <1>4 DEF WorkerRecs
      <4> QED
        BY <4>1, <4>2
    <3>2. CASE IngestRetry(w)
      <4>1. Goto(w, [W EXCEPT !.pc = "farm", !.resume = W.expected])
        BY <3>2 DEF IngestRetry
      <4>2. /\ [W EXCEPT !.pc = "farm", !.resume = W.expected].item = W.item
            /\ [W EXCEPT !.pc = "farm", !.resume = W.expected].lease = W.lease
        BY <1>4 DEF WorkerRecs
      <4> QED
        BY <4>1, <4>2
    <3> QED
      BY <2>1, <3>1, <3>2 DEF Ingest, IngestErased, IngestStale, IngestUnavailable
  <2>2. CASE Farm(w) \/ Evaluate(w) \/ Confirm(w)
    <3>1. \/ \E e : Refuse(w, e)
          \/ \E pc : \/ Goto(w, [W EXCEPT !.pc = pc])
                     \/ worker' = [worker EXCEPT ![w] = [W EXCEPT !.pc = pc]]
      BY <2>2 DEF Farm, Evaluate, Require, Confirm
    <3>2. \A pc : [W EXCEPT !.pc = pc].item = W.item /\ [W EXCEPT !.pc = pc].lease = W.lease
      BY <1>4 DEF WorkerRecs
    <3> QED
      BY <3>1, <3>2
  <2>3. CASE Save(w)
    <3>1. \/ \E e : Refuse(w, e)
          \/ \E p : Goto(w, [W EXCEPT !.pc = "confirm", !.report = p])
      BY <2>3 DEF Save, SaveRefused, SaveReport
    <3>2. \A p : /\ [W EXCEPT !.pc = "confirm", !.report = p].item = W.item
                 /\ [W EXCEPT !.pc = "confirm", !.report = p].lease = W.lease
      BY <1>4 DEF WorkerRecs
    <3> QED
      BY <3>1, <3>2
  <2> QED
    BY <2>1, <2>2, <2>3
<1>7. Continues /\ NoFuture'
  BY <1>1, <1>2, <1>6, MoveContinues, RefuseContinues
<1> QED
  BY <1>2, <1>3, <1>5, <1>7, QuietLeases

\* `complete` and `fail` settle the item only while the row still has the lease
\* of the call.
LEMMA FinishLeases ==
  ASSUME LeaseInv, NEW w \in Workers, Finish(w)
  PROVE  LeaseInv'
<1> DEFINE W == worker[w]
           i == W.item
<1>1. Active(w) /\ clock' = clock
  BY DEF Finish, CompleteRefused, CompleteRolledBack, Complete, Cleanup, Fail, At, Active, Busy
<1>2. TypeInv'
  BY FinishTyped DEF LeaseInv
<1>3. CASE CompleteRolledBack(w)
  <2> DEFINE next == [W EXCEPT !.pc = "cleanup"]
  <2>1. next.item = W.item /\ next.lease = W.lease
    BY <1>1, WorkerTyped DEF LeaseInv, WorkerRecs
  <2>2. worker' = [worker EXCEPT ![w] = next] /\ item' = item
    BY <1>3 DEF CompleteRolledBack
  <2> HIDE DEF next
  <2> QED
    BY <1>1, <1>2, <2>1, <2>2, MoveContinues, QuietLeases
<1>4. CASE ~CompleteRolledBack(w)
  <2>1. Leave(w)
    BY <1>4 DEF Finish, CompleteRefused, Complete, Cleanup, Fail
  <2>2. \/ item' = item
        \/ HoldsLiveLease(w) /\ \E row : item' = [item EXCEPT ![i] = row]
    BY <1>4 DEF Finish, CompleteRefused, Complete, Settled, Cleanup, Scrubbed, Fail
  <2>3. \A j \in Items : j # i => item'[j] = item[j]
    BY <2>2 DEF LeaseInv, TypeInv, TypeOK
  <2> QED
    BY <1>1, <1>2, <2>1, <2>2, <2>3, TerminalLeases
<1> QED
  BY <1>3, <1>4

\* A call that dies or is abandoned leaves the row to its lease.
LEMMA InterruptLeases ==
  ASSUME LeaseInv, NEW w \in Workers, Interrupt(w)
  PROVE  LeaseInv'
<1>1. TypeInv' /\ clock' = clock /\ item' = item
  BY InterruptTyped DEF LeaseInv, Interrupt, PipelineFails, Abandon, Stop
<1>2. CASE PipelineFails(w)
  <2>1. Active(w) /\ Refuse(w, Ordinary)
    BY <1>2 DEF PipelineFails, Active, Busy
  <2> QED
    BY <1>1, <2>1, RefuseContinues, QuietLeases
<1>3. CASE Abandon(w)
  <2> DEFINE next == [worker[w] EXCEPT !.orphan = TRUE]
  <2>1. Active(w)
    BY <1>3 DEF Abandon, Active, Busy
  <2>2. next.item = worker[w].item /\ next.lease = worker[w].lease
    BY <2>1, WorkerTyped DEF LeaseInv, WorkerRecs
  <2>3. worker' = [worker EXCEPT ![w] = next]
    BY <1>3 DEF Abandon
  <2> HIDE DEF next
  <2> QED
    BY <1>1, <2>1, <2>2, <2>3, MoveContinues, QuietLeases
<1>4. CASE Stop(w)
  BY <1>1, <1>4, LeaveContinues, QuietLeases DEF Stop
<1> QED
  BY <1>2, <1>3, <1>4 DEF Interrupt

\* Every step of the component keeps the invariant.
LEMMA NextLeases == LeaseInv /\ [Next]_vars => LeaseInv'
<1> SUFFICES ASSUME LeaseInv, [Next]_vars PROVE LeaseInv'
  OBVIOUS
<1>1. CASE UNCHANGED vars
  <2>1. TypeInv'
    BY <1>1, NextTyped DEF LeaseInv
  <2> QED
    BY <1>1, <2>1 DEF vars, LeaseInv, NoFuture, OneHolder, StillHeld, Active, Live, HoldsLease, Closed, Refused
<1>2. ASSUME NEW w \in Workers, Step(w)
      PROVE  LeaseInv'
  BY <1>2, ClaimLeases, EarlyLeases, MiddleLeases, FinishLeases DEF Step
<1> QED
  BY <1>1, <1>2, PassiveLeases, OrganisationLeases, ErasureLeases, BeginClaimLeases, InterruptLeases DEF Next

\* Two `process` calls never both hold a live lease on one item, so what a call
\* saves or settles it saves or settles alone.
THEOREM LeasesExclusive == Spec => []LeaseExclusion
<1>1. Spec => []LeaseInv
  BY InitLeases, NextLeases, PTL DEF Spec
<1>2. LeaseInv => LeaseExclusion
  BY DEF LeaseInv, OneHolder, LeaseExclusion, HoldsLiveLease, HoldsLease
<1> QED
  BY <1>1, <1>2, PTL

=============================================================================
