------------------------ MODULE ScreeningTablesProofs ------------------------
(***************************************************************************)
(* Proofs about the rows Screening leaves behind, for any items, calls and *)
(* bounds: links, one candidate per person, one report per item, nothing   *)
(* ingested after its erasure, and the contract each item keeps.           *)
(***************************************************************************)
EXTENDS ScreeningProofs

-----------------------------------------------------------------------------
(***************************************************************************)
(* What the tables say of each other.  Nearly every step leaves the rows   *)
(* of candidates, resumes and reports alone and only takes from items and  *)
(* their references; the others are a registration, a deletion, a first    *)
(* ingest, the saving of a report and a completion.                        *)
(***************************************************************************)

SameLinks(i) == /\ item'[i].cand = item[i].cand
                /\ item'[i].resume = item[i].resume
                /\ item'[i].report = item[i].report

Unlinks(i) == item'[i].cand = None /\ item'[i].resume = None /\ item'[i].report = None

\* Nothing is added to the item: no text, no link, no reference, no generation.
Reduced(i) ==
  /\ item'[i].status = "none" <=> item[i].status = "none"
  /\ item'[i].text => item[i].text
  /\ item'[i].gen \in {item[i].gen, NoGen}
  /\ SameLinks(i) \/ Unlinks(i)
  /\ input'[i] \in {input[i], NoInput}

\* The rows are the same but for a fingerprint.
SameRows ==
  /\ UNCHANGED <<candidate, report>>
  /\ \A r \in Resumes : /\ resume'[r].st = resume[r].st /\ resume'[r].cand = resume[r].cand
                        /\ resume'[r].src = resume[r].src

Minor == SameRows /\ UNCHANGED <<generation, tainted>> /\ \A i \in Items : Reduced(i)

\* An item whose rows are left alone is reduced to itself.
LEMMA UntouchedReduced ==
  ASSUME UNCHANGED <<item, input>>
  PROVE  \A i \in Items : Reduced(i)
BY DEF Reduced, SameLinks

\* Steps that move a call, or the clock, and nothing else.
LEMMA QuietMinor ==
  ASSUME UNCHANGED <<generation, item, input, rows, tainted>>
  PROVE  Minor
BY UntouchedReduced DEF Minor, SameRows, rows

\* What completion writes.
LEMMA SettledWrites ==
  ASSUME TypeInv, NEW i \in Items, NEW c, NEW r, NEW p, Settled(i, c, r, p)
  PROVE  /\ item'[i].status = "done" /\ ~item'[i].text /\ item'[i].gen = item[i].gen
         /\ item'[i].cand = c /\ item'[i].resume = r /\ item'[i].report = p
         /\ input'[i] = NoInput
         /\ \A j \in Items : j # i => item'[j] = item[j] /\ input'[j] = input[j]
<1>1. item[i] \in ItemRows
  BY DEF TypeInv, TypeOK
<1> QED
  BY <1>1 DEF Settled, TypeInv, TypeOK, ItemRows

\* What cleanup after an erasure takes from the item.
LEMMA ScrubbedReduces ==
  ASSUME TypeInv, NEW i \in Items, Scrubbed(i), item[i].status # "none"
  PROVE  \A j \in Items : Reduced(j)
<1>1. item[i] \in ItemRows
  BY DEF TypeInv, TypeOK
<1>2. Reduced(i)
  BY <1>1 DEF Scrubbed, TypeInv, TypeOK, ItemRows, Reduced, Unlinks
<1>3. ASSUME NEW j \in Items, j # i PROVE Reduced(j)
  BY <1>3 DEF Scrubbed, TypeInv, TypeOK, Reduced, SameLinks
<1> QED
  BY <1>2, <1>3

\* Claims, retries, refusals, sweeps and failures only take from items.
LEMMA OrganisationMinor ==
  ASSUME TypeInv, NEW b \in Batches, Requeue(b) \/ DeleteBatch(b)
  PROVE  Minor
<1>1. \A i \in Items : item[i] \in ItemRows
  BY DEF TypeInv, TypeOK
<1>2. CASE Requeue(b)
  <2>1. ASSUME NEW i \in Items PROVE Reduced(i)
    <3> DEFINE row == [item[i] EXCEPT !.status = "pending", !.error = "none", !.claimedAt = NoTime]
    <3>1. /\ row.status = "pending" /\ row.text = item[i].text /\ row.gen = item[i].gen
          /\ row.cand = item[i].cand /\ row.resume = item[i].resume /\ row.report = item[i].report
      BY <1>1 DEF ItemRows
    <3>2. item'[i] = IF BatchOf[i] = b /\ Retryable(i) THEN row ELSE item[i]
      BY <1>2 DEF Requeue
    <3> HIDE DEF row
    <3> QED
      BY <1>2, <3>1, <3>2 DEF Requeue, Retryable, Reduced, SameLinks
  <2> QED
    BY <1>2, <2>1 DEF Requeue, Minor, SameRows, rows
<1>3. CASE DeleteBatch(b)
  <2>1. ASSUME NEW i \in Items PROVE Reduced(i)
    <3> DEFINE row == [NoItem EXCEPT !.status = "deleted"]
    <3>1. /\ row.status = "deleted" /\ row.text = FALSE /\ row.gen = NoGen
          /\ row.cand = None /\ row.resume = None /\ row.report = None
      BY DEF NoItem
    <3>2. item'[i] = IF BatchOf[i] = b /\ Registered(i) THEN row ELSE item[i]
      BY <1>3 DEF DeleteBatch
    <3>3. input'[i] = IF BatchOf[i] = b THEN NoInput ELSE input[i]
      BY <1>3 DEF DeleteBatch
    <3> HIDE DEF row
    <3> QED
      BY <3>1, <3>2, <3>3 DEF Registered, Reduced, SameLinks, Unlinks
  <2> QED
    BY <1>3, <2>1 DEF DeleteBatch, Minor, SameRows, rows
<1> QED
  BY <1>2, <1>3

\* The clock and retention.
LEMMA PassiveMinor ==
  ASSUME TypeInv, Tick \/ SweepText \/ SweepInputs
  PROVE  Minor
<1>1. CASE Tick
  BY <1>1, QuietMinor DEF Tick
<1>2. CASE SweepText
  <2>1. ASSUME NEW i \in Items PROVE Reduced(i)
    <3>1. item[i] \in ItemRows
      BY DEF TypeInv, TypeOK
    <3> DEFINE row == [item[i] EXCEPT !.text = FALSE]
    <3>2. /\ row.status = item[i].status /\ row.text = FALSE /\ row.gen = item[i].gen
          /\ row.cand = item[i].cand /\ row.resume = item[i].resume /\ row.report = item[i].report
      BY <3>1 DEF ItemRows
    <3>3. item'[i] = item[i] \/ item'[i] = row
      BY <1>2 DEF SweepText
    <3> HIDE DEF row
    <3> QED
      BY <1>2, <3>2, <3>3 DEF SweepText, Reduced, SameLinks
  <2> QED
    BY <1>2, <2>1 DEF SweepText, Minor, SameRows, rows
<1>3. CASE SweepInputs
  BY <1>3 DEF SweepInputs, Minor, SameRows, rows, Reduced, SameLinks
<1> QED
  BY <1>1, <1>2, <1>3

\* A claim.
LEMMA ClaimMinor ==
  ASSUME TypeInv, NEW w \in Workers, Claim(w)
  PROVE  Minor
<1> DEFINE b == worker[w].batch
           now == worker[w].lease
           refused == [i \in Items |->
                         IF BatchOf[i] = b /\ Blocked(i)
                         THEN [item[i] EXCEPT !.status = "failed", !.error = FreshUpload, !.claimedAt = NoTime]
                         ELSE item[i]]
<1>1. \A i \in Items : item[i] \in ItemRows
  BY DEF TypeInv, TypeOK
<1>2. \/ item' = refused
      \/ \E i \in Items : /\ Claimable(i, now)
                          /\ item' = [refused EXCEPT ![i].status = "processing", ![i].claimedAt = now]
  BY DEF Claim
<1>3. ASSUME NEW j \in Items
      PROVE  /\ refused[j].status = "none" <=> item[j].status = "none"
             /\ refused[j].text = item[j].text /\ refused[j].gen = item[j].gen
             /\ refused[j].cand = item[j].cand /\ refused[j].resume = item[j].resume
             /\ refused[j].report = item[j].report
             /\ refused[j] \in ItemRows
  <2> DEFINE row == [item[j] EXCEPT !.status = "failed", !.error = FreshUpload, !.claimedAt = NoTime]
  <2>1. /\ row.status = "failed" /\ row.text = item[j].text /\ row.gen = item[j].gen
        /\ row.cand = item[j].cand /\ row.resume = item[j].resume /\ row.report = item[j].report
        /\ row \in ItemRows
    BY <1>1, ItemRowTyped DEF ItemRows
  <2>2. refused[j] = IF BatchOf[j] = b /\ Blocked(j) THEN row ELSE item[j]
    OBVIOUS
  <2> HIDE DEF row, refused
  <2> QED
    BY <1>1, <2>1, <2>2 DEF Blocked
<1>4. input' = input
  BY DEF Claim
<1>5. refused = [j \in Items |-> refused[j]]
  OBVIOUS
<1> HIDE DEF refused
<1>6. ASSUME NEW j \in Items PROVE Reduced(j)
  <2>1. CASE item' = refused
    BY <1>3, <1>4, <2>1 DEF Reduced, SameLinks
  <2>2. ASSUME NEW i \in Items, Claimable(i, now),
               item' = [refused EXCEPT ![i].status = "processing", ![i].claimedAt = now]
        PROVE  Reduced(j)
    <3> DEFINE row == [refused[i] EXCEPT !.status = "processing", !.claimedAt = now]
    <3>1. /\ row.status = "processing" /\ row.text = refused[i].text /\ row.gen = refused[i].gen
          /\ row.cand = refused[i].cand /\ row.resume = refused[i].resume
          /\ row.report = refused[i].report
      BY <1>3 DEF ItemRows
    <3>2. item' = [refused EXCEPT ![i] = row]
      BY <2>2
    <3>3. item'[j] = IF j = i THEN row ELSE refused[j]
      BY <1>5, <3>2
    <3>4. item[i].status # "none"
      BY <2>2 DEF Claimable, StaleProcessing
    <3> HIDE DEF row
    <3> QED
      BY <1>3, <1>4, <3>1, <3>3, <3>4 DEF Reduced, SameLinks
  <2> QED
    BY <1>2, <2>1, <2>2
<1> QED
  BY <1>6 DEF Claim, Minor, SameRows, rows

\* A live lease is one of an item in processing.
LEMMA HoldersItem ==
  ASSUME TypeInv, NEW w \in Workers, HoldsLiveLease(w)
  PROVE  item[worker[w].item].status = "processing"
BY DEF HoldsLiveLease, HoldsLease

\* Failures, cleanups, fingerprints and the ingest of a retry.
LEMMA CallMinor ==
  ASSUME TypeInv, NEW w \in Workers, Cleanup(w) \/ Fail(w) \/ Farm(w) \/ IngestRetry(w)
  PROVE  Minor
<1> DEFINE i == worker[w].item
<1>1. Active(w)
  BY DEF Cleanup, Fail, Farm, IngestRetry, At, Active, Busy
<1>2. i \in Items /\ item[i] \in ItemRows
  BY <1>1, WorkerTyped DEF TypeInv, TypeOK
<1>3. CASE Cleanup(w)
  <2>1. \A j \in Items : Reduced(j)
    <3>1. CASE HoldsLiveLease(w)
      BY <1>2, <1>3, <3>1, ScrubbedReduces, HoldersItem DEF Cleanup
    <3>2. CASE ~HoldsLiveLease(w)
      BY <1>3, <3>2, UntouchedReduced DEF Cleanup
    <3> QED
      BY <3>1, <3>2
  <2> QED
    BY <1>3, <2>1 DEF Cleanup, Minor, SameRows, rows
<1>4. CASE Fail(w)
  <2> DEFINE row == [item[i] EXCEPT !.status = "failed", !.error = worker[w].err]
  <2>1. \/ UNCHANGED <<item, input>>
        \/ HoldsLiveLease(w) /\ Scrubbed(i)
        \/ HoldsLiveLease(w) /\ item' = [item EXCEPT ![i] = row] /\ input' = input
    BY <1>4 DEF Fail
  <2>2. /\ row.status = "failed" /\ row.text = item[i].text /\ row.gen = item[i].gen
        /\ row.cand = item[i].cand /\ row.resume = item[i].resume /\ row.report = item[i].report
    BY <1>2 DEF ItemRows
  <2> HIDE DEF row
  <2>3. ASSUME HoldsLiveLease(w), item' = [item EXCEPT ![i] = row], input' = input,
               NEW j \in Items
        PROVE  Reduced(j)
    <3>1. item'[j] = IF j = i THEN row ELSE item[j]
      BY <2>3 DEF TypeInv, TypeOK
    <3> QED
      BY <2>2, <2>3, <3>1, HoldersItem DEF Reduced, SameLinks
  <2>4. \A j \in Items : Reduced(j)
    BY <1>2, <2>1, <2>3, UntouchedReduced, ScrubbedReduces, HoldersItem
  <2> QED
    BY <1>4, <2>4 DEF Fail, Minor, SameRows, rows
<1>5. CASE Farm(w)
  <2> DEFINE r == worker[w].resume
             row == [resume[r] EXCEPT !.fp = TRUE]
  <2>1. resume' = resume \/ resume' = [resume EXCEPT ![r] = row]
    BY <1>5 DEF Farm
  <2>2. ASSUME r \in Resumes
        PROVE  row.st = resume[r].st /\ row.cand = resume[r].cand /\ row.src = resume[r].src
    BY <2>2 DEF TypeInv, TypeOK, ResumeRows
  <2> HIDE DEF row
  <2>3. \A q \in Resumes : /\ resume'[q].st = resume[q].st /\ resume'[q].cand = resume[q].cand
                           /\ resume'[q].src = resume[q].src
    BY <2>1, <2>2 DEF TypeInv, TypeOK
  <2>4. \A j \in Items : Reduced(j)
    BY <1>5, UntouchedReduced DEF Farm
  <2> QED
    BY <1>5, <2>3, <2>4 DEF Farm, Minor, SameRows
<1>6. CASE IngestRetry(w)
  <2> DEFINE row == [item[i] EXCEPT !.text = FALSE]
  <2>1. /\ row.status = item[i].status /\ row.text = FALSE /\ row.gen = item[i].gen
        /\ row.cand = item[i].cand /\ row.resume = item[i].resume /\ row.report = item[i].report
    BY <1>2 DEF ItemRows
  <2>2. item' = [item EXCEPT ![i] = row]
    BY <1>6 DEF IngestRetry
  <2> HIDE DEF row
  <2>3. ASSUME NEW j \in Items PROVE Reduced(j)
    <3>1. item'[j] = IF j = i THEN row ELSE item[j]
      BY <2>2 DEF TypeInv, TypeOK
    <3> QED
      BY <1>6, <2>1, <3>1 DEF IngestRetry, Reduced, SameLinks
  <2> QED
    BY <1>6, <2>3 DEF IngestRetry, Minor, SameRows, rows
<1> QED
  BY <1>3, <1>4, <1>5, <1>6

\* Every step is minor, or one of the five that write more.
Major == \/ \E b \in Batches : \E S \in SUBSET Items \ {{}} : Register(b, S)
         \/ Erasure
         \/ \E w \in Workers : RecoverDone(w) \/ Complete(w) \/ IngestFirst(w) \/ SaveReport(w)

LEMMA StepsSorted ==
  ASSUME TypeInv, [Next]_vars
  PROVE  Minor \/ Major
<1>1. CASE UNCHANGED vars
  BY <1>1, QuietMinor DEF vars, rows
<1>2. ASSUME NEW w \in Workers, Step(w)
      PROVE  Minor \/ Major
  <2>1. CASE Claim(w)
    BY <2>1, ClaimMinor
  <2>2. CASE Load(w) \/ RecoverRefused(w) \/ RecoverNothing(w) \/ RecoverUnusable(w) \/ Resolve(w)
    BY <2>2, QuietMinor DEF Load, RecoverRefused, RecoverNothing, RecoverUnusable, Resolve
  <2>3. CASE IngestErased(w) \/ IngestStale(w) \/ IngestUnavailable(w) \/ Evaluate(w) \/ SaveRefused(w)
               \/ Confirm(w) \/ CompleteRefused(w) \/ CompleteRolledBack(w)
    BY <2>3, QuietMinor DEF IngestErased, IngestStale, IngestUnavailable, Evaluate, Require,
                            SaveRefused, Confirm, CompleteRefused, CompleteRolledBack
  <2>4. CASE Cleanup(w) \/ Fail(w) \/ Farm(w) \/ IngestRetry(w)
    BY <2>4, CallMinor
  <2>5. CASE RecoverDone(w) \/ Complete(w) \/ IngestFirst(w) \/ SaveReport(w)
    BY <2>5 DEF Major
  <2> QED
    BY <1>2, <2>1, <2>2, <2>3, <2>4, <2>5 DEF Step, Recover, Ingest, Save, Finish
<1>3. ASSUME NEW w \in Workers, (\E b \in Batches : BeginClaim(w, b)) \/ Interrupt(w)
      PROVE  Minor
  BY <1>3, QuietMinor DEF BeginClaim, Interrupt, PipelineFails, Abandon, Stop
<1>4. CASE Organisation
  BY <1>4, OrganisationMinor DEF Organisation, Major
<1> QED
  BY <1>1, <1>2, <1>3, <1>4, PassiveMinor DEF Next, Major

-----------------------------------------------------------------------------
(* What each of the five writes, column by column. *)

\* Registered items get a text and the generation, and have no links yet.
LEMMA RegisterWrites ==
  ASSUME TypeInv, NEW b \in Batches, NEW S \in SUBSET Items \ {{}}, Register(b, S)
  PROVE  /\ UNCHANGED <<generation, input, rows, worker, tainted>>
         /\ \A i \in Items :
              \/ item'[i] = item[i]
              \/ /\ item[i].status = "none" /\ item'[i].status = "pending"
                 /\ item'[i].gen = generation /\ Unlinks(i)
<1> DEFINE row == [NoItem EXCEPT !.status = "pending", !.text = TRUE,
                                 !.gen = generation, !.created = clock]
<1>1. /\ row.status = "pending" /\ row.gen = generation
      /\ row.cand = None /\ row.resume = None /\ row.report = None
  BY DEF NoItem
<1>2. item' = [i \in Items |-> IF i \in S THEN row ELSE item[i]]
  BY DEF Register
<1> HIDE DEF row
<1> QED
  BY <1>1, <1>2 DEF Register, Unlinks

\* Rows that go when these candidates and these rows are deleted.
ResumesGone(cs, rs) == rs \cup {r \in Resumes : ResumeLive(r) /\ resume[r].cand \in cs}
ReportsGone(cs, ps) == ps \cup {p \in Reports : ReportLive(p) /\ report[p].cand \in cs}

Deleted(cs, rs, ps) ==
  /\ generation' = generation + 1 /\ worker' = worker
  /\ \A c \in Candidates : /\ candidate'[c].st = IF c \in cs THEN "erased" ELSE candidate[c].st
                           /\ candidate'[c].person = candidate[c].person
  /\ \A r \in Resumes : /\ resume'[r].st = IF r \in rs THEN "erased" ELSE resume[r].st
                        /\ resume'[r].cand = resume[r].cand /\ resume'[r].src = resume[r].src
  /\ \A p \in Reports : /\ report'[p].st = IF p \in ps THEN "erased" ELSE report[p].st
                        /\ report'[p].cand = report[p].cand /\ report'[p].src = report[p].src
  /\ \A i \in Items :
       /\ item'[i].status = item[i].status /\ item'[i].error = item[i].error
       /\ item'[i].text = item[i].text /\ item'[i].gen = item[i].gen
       /\ item'[i].cand = IF item[i].cand \in cs THEN None ELSE item[i].cand
       /\ item'[i].resume = IF item[i].resume \in rs THEN None ELSE item[i].resume
       /\ item'[i].report = IF item[i].report \in ps THEN None ELSE item[i].report
       /\ input'[i] = IF input[i].resume \in rs \/ input[i].report \in ps THEN NoInput ELSE input[i]

\* A deletion takes the rows and the links to them.
LEMMA DeleteWrites ==
  ASSUME TypeInv, NEW cs, NEW rs, NEW ps, Delete(cs, rs, ps)
  PROVE  Deleted(cs, ResumesGone(cs, rs), ReportsGone(cs, ps))
<1> DEFINE R == ResumesGone(cs, rs)
           P == ReportsGone(cs, ps)
<1>1. /\ candidate' = [c \in Candidates |->
                         IF c \in cs THEN [candidate[c] EXCEPT !.st = "erased"] ELSE candidate[c]]
      /\ resume' = [r \in Resumes |->
                      IF r \in R THEN [resume[r] EXCEPT !.st = "erased", !.fp = FALSE] ELSE resume[r]]
      /\ report' = [p \in Reports |->
                      IF p \in P THEN [report[p] EXCEPT !.st = "erased"] ELSE report[p]]
      /\ input' = [i \in Items |->
                     IF input[i].resume \in R \/ input[i].report \in P THEN NoInput ELSE input[i]]
      /\ item' = [i \in Items |->
                    [item[i] EXCEPT !.cand = IF @ \in cs THEN None ELSE @,
                                    !.resume = IF @ \in R THEN None ELSE @,
                                    !.report = IF @ \in P THEN None ELSE @]]
      /\ generation' = generation + 1 /\ worker' = worker
  BY DEF Delete, AdvanceGeneration, ResumesGone, ReportsGone
<1> HIDE DEF R, P
<1>2. \A c \in Candidates : /\ candidate'[c].st = IF c \in cs THEN "erased" ELSE candidate[c].st
                            /\ candidate'[c].person = candidate[c].person
  BY <1>1 DEF TypeInv, TypeOK, CandidateRows
<1>3. \A r \in Resumes : /\ resume'[r].st = IF r \in R THEN "erased" ELSE resume[r].st
                         /\ resume'[r].cand = resume[r].cand /\ resume'[r].src = resume[r].src
  BY <1>1 DEF TypeInv, TypeOK, ResumeRows
<1>4. \A p \in Reports : /\ report'[p].st = IF p \in P THEN "erased" ELSE report[p].st
                         /\ report'[p].cand = report[p].cand /\ report'[p].src = report[p].src
  BY <1>1 DEF TypeInv, TypeOK, ReportRows
<1>5. ASSUME NEW i \in Items
      PROVE  /\ item'[i].status = item[i].status /\ item'[i].error = item[i].error
             /\ item'[i].text = item[i].text /\ item'[i].gen = item[i].gen
             /\ item'[i].cand = IF item[i].cand \in cs THEN None ELSE item[i].cand
             /\ item'[i].resume = IF item[i].resume \in R THEN None ELSE item[i].resume
             /\ item'[i].report = IF item[i].report \in P THEN None ELSE item[i].report
  <2>1. item[i] \in ItemRows
    BY DEF TypeInv, TypeOK
  <2> DEFINE c == IF item[i].cand \in cs THEN None ELSE item[i].cand
             r == IF item[i].resume \in R THEN None ELSE item[i].resume
             p == IF item[i].report \in P THEN None ELSE item[i].report
  <2>2. item'[i] = [item[i] EXCEPT !.cand = c, !.resume = r, !.report = p]
    BY <1>1
  <2> HIDE DEF c, r, p
  <2>3. /\ item'[i].status = item[i].status /\ item'[i].error = item[i].error
        /\ item'[i].text = item[i].text /\ item'[i].gen = item[i].gen
        /\ item'[i].cand = c /\ item'[i].resume = r /\ item'[i].report = p
    BY <2>1, <2>2 DEF ItemRows
  <2> QED
    BY <2>3 DEF c, r, p
<1> QED
  BY <1>1, <1>2, <1>3, <1>4, <1>5 DEF Deleted, R, P

\* The three deletions, and whom they taint.
LEMMA ErasureWrites ==
  ASSUME TypeInv, Erasure
  PROVE  \E cs \in SUBSET Candidates, rs \in SUBSET Resumes, ps \in SUBSET Reports :
           /\ Deleted(cs, ResumesGone(cs, rs), ReportsGone(cs, ps))
           /\ \A p \in ps : ReportLive(p)
           /\ \A i \in tainted' : \/ i \in tainted
                                  \/ i \in Items /\ Registered(i)
                                  \/ \E r \in Resumes : ResumeLive(r) /\ resume[r].src = i
<1> DEFINE Told(cs, rs, ps) ==
             /\ Deleted(cs, ResumesGone(cs, rs), ReportsGone(cs, ps))
             /\ \A p \in ps : ReportLive(p)
             /\ \A i \in tainted' : \/ i \in tainted
                                    \/ i \in Items /\ Registered(i)
                                    \/ \E r \in Resumes : ResumeLive(r) /\ resume[r].src = i
<1>1. ASSUME NEW c \in Candidates, EraseCandidate(c)
      PROVE  Told({c}, {}, {})
  BY <1>1, DeleteWrites DEF EraseCandidate, ItemsAbout
<1>2. ASSUME NEW r \in Resumes, EraseResume(r)
      PROVE  Told({}, {r}, {})
  BY <1>2, DeleteWrites DEF EraseResume, ItemsAbout
<1>3. ASSUME NEW p \in Reports, EraseReport(p)
      PROVE  Told({}, {}, {p})
  BY <1>3, DeleteWrites DEF EraseReport
<1> HIDE DEF Told
<1>4. \E cs \in SUBSET Candidates, rs \in SUBSET Resumes, ps \in SUBSET Reports : Told(cs, rs, ps)
  BY <1>1, <1>2, <1>3 DEF Erasure
<1> QED
  BY <1>4 DEF Told

\* A resolved candidate is one of the matches, and a lone match is resolved.
LEMMA ResolvedMatches ==
  ASSUME NEW p
  PROVE  /\ Resolved(p) # None => Resolved(p) \in Matches(p)
         /\ \A c \in Matches(p) : (\A d \in Matches(p) : d = c) => Resolved(p) = c
<1>1. ASSUME Cardinality(Matches(p)) = 1 PROVE Matches(p) # {}
  BY <1>1, FS_EmptySet
<1>2. Resolved(p) # None => Resolved(p) \in Matches(p)
  BY <1>1 DEF Resolved
<1>3. ASSUME NEW c \in Matches(p), \A d \in Matches(p) : d = c
      PROVE  Resolved(p) = c
  <2>1. Matches(p) = {c}
    BY <1>3
  <2>2. Cardinality(Matches(p)) = 1
    BY <2>1, FS_Singleton
  <2> QED
    BY <2>1, <2>2 DEF Resolved
<1> QED
  BY <1>2, <1>3

\* What a first ingest leaves in the tables for item i.
NewOrFound(p, c) ==
  \/ CandidateLive(c) /\ candidate' = candidate
  \/ /\ candidate[c].st = "free" /\ Resolved(p) = None
     /\ candidate'[c].st = "live" /\ candidate'[c].person = p
     /\ \A d \in Candidates : d # c => candidate'[d] = candidate[d]

NewOrReused(i, c, r) ==
  \/ ResumeLive(r) /\ resume[r].cand = c /\ resume' = resume
  \/ /\ resume[r].st = "free"
     /\ resume'[r].st = "live" /\ resume'[r].cand = c /\ resume'[r].src = i
     /\ \A q \in Resumes : q # r => resume'[q] = resume[q]

TextTaken(i) ==
  /\ item[i].status = "processing" /\ ~item'[i].text
  /\ \A j \in Items : /\ item'[j].status = item[j].status /\ item'[j].gen = item[j].gen
                      /\ item'[j].text => item[j].text
                      /\ item'[j].error = item[j].error /\ SameLinks(j)

FirstIngest(w, i, c, r) ==
  /\ item[i].text /\ ~HasInput(i) /\ worker[w].gen = generation
  /\ TextTaken(i)
  /\ NewOrFound(PersonOf[TextOf[i]], c) /\ NewOrReused(i, c, r)
  /\ input'[i].resume = r /\ input'[i].report = None
  /\ \A j \in Items : j # i => input'[j] = input[j]
  /\ UNCHANGED <<generation, report, tainted>>
  /\ Goto(w, [worker[w] EXCEPT !.pc = "farm", !.cand = c, !.resume = r])

\* The text of an item is cleared.
LEMMA ClearsText ==
  ASSUME TypeInv, NEW i \in Items, item[i].status = "processing",
         item' = [item EXCEPT ![i].text = FALSE]
  PROVE  TextTaken(i)
<1> DEFINE row == [item[i] EXCEPT !.text = FALSE]
<1>1. item[i] \in ItemRows
  BY DEF TypeInv, TypeOK
<1>2. /\ row.status = item[i].status /\ row.text = FALSE /\ row.gen = item[i].gen
      /\ row.error = item[i].error
      /\ row.cand = item[i].cand /\ row.resume = item[i].resume /\ row.report = item[i].report
  BY <1>1 DEF ItemRows
<1>3. item' = [item EXCEPT ![i] = row]
  OBVIOUS
<1> HIDE DEF row
<1>4. \A j \in Items : item'[j] = IF j = i THEN row ELSE item[j]
  BY <1>3 DEF TypeInv, TypeOK
<1> QED
  BY <1>2, <1>4 DEF TextTaken, SameLinks

LEMMA FirstIngestWrites ==
  ASSUME TypeInv, NEW w \in Workers, IngestFirst(w)
  PROVE  \E i \in Items, c \in Candidates, r \in Resumes : worker[w].item = i /\ FirstIngest(w, i, c, r)
<1>1. Active(w)
  BY DEF IngestFirst, At, Active, Busy
<1>2. PICK i \in Items : i = worker[w].item
  BY <1>1, WorkerTyped
<1> DEFINE t == TextOf[i]
<1>3. PICK c \in Candidates, r \in Resumes :
        /\ Subject(w, c) /\ ResumeFor(c, t, r)
        /\ candidate' = IF CandidateLive(c) THEN candidate
                        ELSE [candidate EXCEPT ![c] = [st |-> "live", person |-> PersonOf[t]]]
        /\ resume' = IF ResumeLive(r) THEN resume
                     ELSE [resume EXCEPT ![r] = [st |-> "live", cand |-> c, text |-> t,
                                                 fp |-> FALSE, src |-> i]]
        /\ input' = [input EXCEPT ![i] = [resume |-> r, report |-> None, created |-> item[i].created]]
        /\ Goto(w, [worker[w] EXCEPT !.pc = "farm", !.cand = c, !.resume = r])
  BY <1>2 DEF IngestFirst
<1>4. NewOrFound(PersonOf[t], c)
  <2>1. CASE CandidateLive(c)
    BY <1>3, <2>1 DEF NewOrFound
  <2>2. CASE ~CandidateLive(c)
    <3>1. worker[w].cand = None
      BY <1>3, <2>2 DEF IngestFirst, SubjectIntact, Subject
    <3>2. Resolved(PersonOf[t]) = None
      BY <1>2, <1>3, <2>2, <3>1, ResolvedMatches DEF Subject, Matches
    <3>3. candidate[c].st = "free"
      BY <1>2, <1>3, <3>1, <3>2 DEF Subject
    <3> QED
      BY <1>3, <2>2, <3>2, <3>3 DEF NewOrFound, TypeInv, TypeOK
  <2> QED
    BY <2>1, <2>2
<1>5. NewOrReused(i, c, r)
  <2>1. CASE ResumeLive(r)
    BY <1>3, <2>1 DEF ResumeFor, NewOrReused, ResumeLive
  <2>2. CASE ~ResumeLive(r)
    BY <1>3, <2>2 DEF ResumeFor, NewOrReused, TypeInv, TypeOK
  <2> QED
    BY <2>1, <2>2
<1>6. item[i].text /\ ~HasInput(i) /\ worker[w].gen = generation /\ item[i].status = "processing"
  BY <1>2, HoldersItem DEF IngestFirst, CanRetain
<1>7. TextTaken(i)
  BY <1>2, <1>6, ClearsText DEF IngestFirst
<1>8. input'[i].resume = r /\ input'[i].report = None /\ \A j \in Items : j # i => input'[j] = input[j]
  BY <1>3 DEF TypeInv, TypeOK
<1> QED
  BY <1>2, <1>3, <1>4, <1>5, <1>6, <1>7, <1>8 DEF IngestFirst, FirstIngest

\* What saving a report leaves in the tables for item i.
NewReport(w, i, c, p) ==
  /\ CandidateLive(c) /\ HasInput(i) /\ input[i].report = None
  /\ ResumeLive(input[i].resume) /\ resume[input[i].resume].cand = c
  /\ report[p].st = "free"
  /\ report'[p].st = "live" /\ report'[p].cand = c /\ report'[p].src = i
  /\ \A q \in Reports : q # p => report'[q] = report[q]
  /\ TextTaken(i)
  /\ input'[i].resume = input[i].resume /\ input'[i].report = p
  /\ \A j \in Items : j # i => input'[j] = input[j]
  /\ UNCHANGED <<generation, candidate, resume, tainted>>
  /\ Goto(w, [worker[w] EXCEPT !.pc = "confirm", !.report = p])

LEMMA SaveWrites ==
  ASSUME TypeInv, NEW w \in Workers, SaveReport(w)
  PROVE  \E i \in Items, p \in Reports :
           worker[w].item = i /\ NewReport(w, i, worker[w].cand, p)
<1>1. Active(w)
  BY DEF SaveReport, At, Active, Busy
<1>2. PICK i \in Items : i = worker[w].item
  BY <1>1, WorkerTyped
<1>3. PICK p \in Reports :
        /\ report[p].st = "free"
        /\ report' = [report EXCEPT ![p] = [st |-> "live", cand |-> worker[w].cand, src |-> i]]
        /\ input' = [input EXCEPT ![i].report = p]
        /\ Goto(w, [worker[w] EXCEPT !.pc = "confirm", !.report = p])
  BY <1>2 DEF SaveReport, BindReport
<1>4. TextTaken(i)
  BY <1>2, HoldersItem, ClearsText DEF SaveReport, CanBind
<1>5. /\ input'[i].resume = input[i].resume /\ input'[i].report = p
      /\ \A j \in Items : j # i => input'[j] = input[j]
  BY <1>3 DEF TypeInv, TypeOK, InputRows
<1>6. /\ report'[p].st = "live" /\ report'[p].cand = worker[w].cand /\ report'[p].src = i
      /\ \A q \in Reports : q # p => report'[q] = report[q]
  BY <1>3 DEF TypeInv, TypeOK
<1>7. /\ HasInput(i) /\ input[i].report = None
      /\ ResumeLive(input[i].resume) /\ resume[input[i].resume].cand = worker[w].cand
  BY <1>2 DEF SaveReport, CanBind, ResumeLive, HasInput
<1> QED
  BY <1>2, <1>3, <1>4, <1>5, <1>6, <1>7 DEF SaveReport, NewReport

\* What a completion leaves in the tables for item i.
Done(w, i, c, r, p) ==
  /\ CandidateLive(c) \/ ~(worker[w].pc = "complete")
  /\ ResumeLive(r) /\ ReportLive(p)
  /\ item[i].status = "processing" /\ item'[i].status = "done"
  /\ ~item'[i].text /\ item'[i].gen = item[i].gen
  /\ item'[i].cand = c /\ item'[i].resume = r /\ item'[i].report = p
  /\ input'[i] = NoInput
  /\ \A j \in Items : j # i => item'[j] = item[j] /\ input'[j] = input[j]
  /\ UNCHANGED <<generation, rows, tainted>>
  /\ Leave(w)

LEMMA CompletionWrites ==
  ASSUME TypeInv, NEW w \in Workers
  PROVE  /\ Complete(w) => \E i \in Items :
              /\ worker[w].item = i /\ worker[w].pc = "complete"
              /\ Done(w, i, worker[w].cand, worker[w].resume, worker[w].report)
         /\ RecoverDone(w) => \E i \in Items, r \in Resumes, p \in Reports :
              /\ worker[w].item = i /\ input[i].resume = r /\ input[i].report = p
              /\ report[p].cand = resume[r].cand
              /\ Done(w, i, resume[r].cand, r, p)
<1>1. ASSUME Complete(w) \/ RecoverDone(w) PROVE worker[w].item \in Items
  <2>1. Active(w)
    BY <1>1 DEF Complete, RecoverDone, At, Active, Busy
  <2> QED
    BY <2>1, WorkerTyped
<1>2. ASSUME Complete(w)
      PROVE  \E i \in Items :
              /\ worker[w].item = i /\ worker[w].pc = "complete"
              /\ Done(w, i, worker[w].cand, worker[w].resume, worker[w].report)
  <2>1. PICK i \in Items : i = worker[w].item
    BY <1>1, <1>2
  <2>2. Settled(i, worker[w].cand, worker[w].resume, worker[w].report)
    BY <1>2, <2>1 DEF Complete
  <2>3. item[i].status = "processing" /\ worker[w].pc = "complete"
    BY <1>2, <2>1, HoldersItem DEF Complete, At
  <2>4. /\ Leave(w) /\ UNCHANGED <<generation, rows, tainted>>
        /\ CandidateLive(worker[w].cand) /\ ResumeLive(worker[w].resume) /\ ReportLive(worker[w].report)
    BY <1>2 DEF Complete, LinksLive, SubjectLive
  <2>5. Done(w, i, worker[w].cand, worker[w].resume, worker[w].report)
    BY <2>2, <2>3, <2>4, SettledWrites DEF Done
  <2> QED
    BY <2>1, <2>3, <2>5
<1>3. ASSUME RecoverDone(w)
      PROVE  \E i \in Items, r \in Resumes, p \in Reports :
              /\ worker[w].item = i /\ input[i].resume = r /\ input[i].report = p
              /\ report[p].cand = resume[r].cand
              /\ Done(w, i, resume[r].cand, r, p)
  <2>1. PICK i \in Items : i = worker[w].item
    BY <1>1, <1>3
  <2>2. ResumeLive(input[i].resume) /\ ReportLive(input[i].report)
    BY <1>3, <2>1 DEF RecoverDone
  <2>3. input[i].resume \in Resumes /\ input[i].report \in Reports
    BY <2>1, <2>2 DEF TypeInv, TypeOK, InputRows, ResumeLive, ReportLive
  <2>4. PICK r \in Resumes, p \in Reports : r = input[i].resume /\ p = input[i].report
    BY <2>3
  <2>5. Settled(i, resume[r].cand, r, p) /\ report[p].cand = resume[r].cand
    BY <1>3, <2>1, <2>4 DEF RecoverDone
  <2>6. item[i].status = "processing" /\ worker[w].pc = "recover"
    BY <1>3, <2>1, HoldersItem DEF RecoverDone, At
  <2>7. Leave(w) /\ UNCHANGED <<generation, rows, tainted>> /\ ResumeLive(r) /\ ReportLive(p)
    BY <1>3, <2>2, <2>4 DEF RecoverDone
  <2>8. Done(w, i, resume[r].cand, r, p)
    BY <2>5, <2>6, <2>7, SettledWrites DEF Done
  <2> QED
    BY <2>1, <2>4, <2>5, <2>8
<1> QED
  BY <1>2, <1>3

-----------------------------------------------------------------------------
(* What a call remembers of rows stays true: a row keeps its subject and   *)
(* its source for ever, live or erased.                                    *)

RowsKept ==
  /\ \A r \in Resumes : resume[r].st # "free" =>
       /\ resume'[r].st # "free" /\ resume'[r].cand = resume[r].cand
       /\ resume'[r].src = resume[r].src
  /\ \A p \in Reports : report[p].st # "free" =>
       /\ report'[p].st # "free" /\ report'[p].cand = report[p].cand
       /\ report'[p].src = report[p].src

LEMMA RowsStay ==
  ASSUME TypeInv, [Next]_vars
  PROVE  RowsKept
<1>1. CASE Minor
  BY <1>1 DEF Minor, SameRows, RowsKept
<1>2. ASSUME NEW b \in Batches, NEW S \in SUBSET Items \ {{}}, Register(b, S)
      PROVE  RowsKept
  BY <1>2 DEF Register, rows, RowsKept
<1>3. CASE Erasure
  BY <1>3, ErasureWrites DEF Deleted, RowsKept
<1>4. ASSUME NEW w \in Workers, RecoverDone(w) \/ Complete(w)
      PROVE  RowsKept
  BY <1>4 DEF RecoverDone, Complete, rows, RowsKept
<1>5. ASSUME NEW w \in Workers, IngestFirst(w)
      PROVE  RowsKept
  <2>1. PICK i \in Items, c \in Candidates, r \in Resumes : FirstIngest(w, i, c, r)
    BY <1>5, FirstIngestWrites
  <2> QED
    BY <2>1 DEF FirstIngest, NewOrReused, RowsKept
<1>6. ASSUME NEW w \in Workers, SaveReport(w)
      PROVE  RowsKept
  <2>1. PICK i \in Items, p \in Reports : NewReport(w, i, worker[w].cand, p)
    BY <1>6, SaveWrites
  <2> QED
    BY <2>1 DEF NewReport, RowsKept
<1> QED
  BY <1>1, <1>2, <1>3, <1>4, <1>5, <1>6, StepsSorted DEF Major

\* The rows a call carries at each point, in these tables of resumes and reports.
Carries(W, rs, ps) ==
  /\ W.pc \in {"recover", "resolve", "ingest"} /\ W.expected # None => rs[W.expected].st # "free"
  /\ W.pc = "ingest" /\ W.expected # None => W.cand = rs[W.expected].cand
  /\ W.pc \in {"farm", "require", "recheck", "save", "confirm", "complete"} =>
       W.resume \in Resumes /\ rs[W.resume].st # "free" /\ rs[W.resume].cand = W.cand
  /\ W.pc \in {"confirm", "complete"} =>
       /\ W.report \in Reports /\ ps[W.report].st # "free"
       /\ ps[W.report].cand = W.cand /\ ps[W.report].src = W.item

Carried == \A w \in Workers : Carries(worker[w], resume, report)

\* A call that does not move carries the same rows.
LEMMA CarriesOn ==
  ASSUME RowsKept, NEW W \in WorkerRecs, Carries(W, resume, report)
  PROVE  Carries(W, resume', report')
BY DEF Carries, RowsKept, WorkerRecs

LEMMA IdleCarries == \A rs, ps : Carries(Idle, rs, ps)
BY DEF Idle, Carries

\* One call moves and the others stay.
LEMMA MoveCarries ==
  ASSUME TypeInv, RowsKept, Carried, NEW w \in Workers, NEW N, Carries(N, resume', report'),
         Goto(w, N) \/ worker' = [worker EXCEPT ![w] = N]
  PROVE  Carried'
<1>1. ASSUME NEW v \in Workers, v # w
      PROVE  Carries(worker'[v], resume', report')
  BY <1>1, CarriesOn DEF Carried, Goto, TypeInv, TypeOK
<1>2. Carries(worker'[w], resume', report')
  BY IdleCarries DEF Goto, TypeInv, TypeOK
<1> QED
  BY <1>1, <1>2 DEF Carried

LEMMA LeaveCarries ==
  ASSUME TypeInv, RowsKept, Carried, NEW w \in Workers, Leave(w)
  PROVE  Carried'
BY MoveCarries, IdleCarries DEF Leave

LEMMA StayCarries ==
  ASSUME TypeInv, RowsKept, Carried, worker' = worker
  PROVE  Carried'
BY CarriesOn DEF Carried, TypeInv, TypeOK

\* A call on its way to `fail` carries nothing it will write.
LEMMA RefuseCarries ==
  ASSUME TypeInv, RowsKept, Carried, NEW w \in Workers, NEW e, Refuse(w, e)
  PROVE  Carried'
<1> DEFINE N == [worker[w] EXCEPT !.pc = "failing", !.err = e]
<1>1. N.pc = "failing"
  BY DEF TypeInv, TypeOK, WorkerRecs
<1>2. Goto(w, N)
  BY DEF Refuse
<1> HIDE DEF N
<1>3. Carries(N, resume', report')
  BY <1>1 DEF Carries
<1> QED
  BY <1>2, <1>3, MoveCarries

\* Up to the ingest a call carries the resume its retry is pinned to.
LEMMA EarlyCarries ==
  ASSUME TypeInv, RowsKept, Carried, LinksConsistent, NEW w \in Workers,
         Claim(w) \/ Load(w) \/ RecoverNothing(w) \/ Resolve(w) \/ IngestRetry(w)
  PROVE  Carried'
<1> DEFINE W == worker[w]
<1>1. W \in WorkerRecs /\ Carries(W, resume, report)
  BY DEF TypeInv, TypeOK, Carried
<1>2. Carries(W, resume', report')
  BY <1>1, CarriesOn
<1>3. CASE Claim(w)
  <2>1. ASSUME NEW i \in Items, worker' = [worker EXCEPT ![w].pc = "load", ![w].item = i]
        PROVE  Carried'
    <3> DEFINE N == [W EXCEPT !.pc = "load", !.item = i]
    <3>1. N.pc = "load" /\ worker' = [worker EXCEPT ![w] = N]
      BY <1>1, <2>1 DEF WorkerRecs
    <3> HIDE DEF N
    <3>2. Carries(N, resume', report')
      BY <3>1 DEF Carries
    <3> QED
      BY <3>1, <3>2, MoveCarries
  <2> QED
    BY <1>3, <2>1, LeaveCarries DEF Claim
<1>4. CASE Load(w)
  <2> DEFINE e == input[W.item].resume
             g == item[W.item].gen
             h == HasInput(W.item) \/ item[W.item].text
             N == [W EXCEPT !.pc = "recover", !.expected = e, !.gen = g, !.hasText = h]
  <2>1. Leave(w) \/ worker' = [worker EXCEPT ![w] = N]
    BY <1>4 DEF Load
  <2>2. W.item \in Items
    BY <1>4, WorkerTyped DEF Load, At, Active, Busy
  <2>3. e # None => e \in Resumes /\ resume[e].st # "free"
    BY <2>2 DEF LinksConsistent, HasInput, ResumeLive, TypeInv, TypeOK, InputRows
  <2> HIDE DEF e, g, h
  <2>4. N.pc = "recover" /\ N.expected = e
    BY <1>1 DEF WorkerRecs
  <2> HIDE DEF N
  <2>5. Carries(N, resume', report')
    BY <2>3, <2>4 DEF Carries, RowsKept
  <2> QED
    BY <2>1, <2>5, LeaveCarries, MoveCarries
<1>5. CASE RecoverNothing(w)
  <2> DEFINE N == [W EXCEPT !.pc = "resolve"]
  <2>1. Refuse(w, FreshUpload) \/ worker' = [worker EXCEPT ![w] = N]
    BY <1>5 DEF RecoverNothing
  <2>2. N.pc = "resolve" /\ N.expected = W.expected /\ W.pc = "recover"
    BY <1>1, <1>5 DEF WorkerRecs, RecoverNothing, At
  <2> HIDE DEF N
  <2>3. Carries(N, resume', report')
    BY <1>2, <2>2 DEF Carries
  <2> QED
    BY <2>1, <2>3, RefuseCarries, MoveCarries
<1>6. CASE Resolve(w)
  <2> DEFINE c == IF W.expected # None THEN resume[W.expected].cand
                                       ELSE Resolved(PersonOf[TextOf[W.item]])
             N == [W EXCEPT !.pc = "ingest", !.cand = c]
  <2>1. Refuse(w, Ordinary) \/ Refuse(w, Erased) \/ worker' = [worker EXCEPT ![w] = N]
    BY <1>6 DEF Resolve
  <2>2. N.pc = "ingest" /\ N.expected = W.expected /\ N.cand = c /\ W.pc = "resolve"
    BY <1>1, <1>6 DEF WorkerRecs, Resolve, At
  <2>3. W.expected # None => /\ resume[W.expected].st # "free" /\ W.expected \in Resumes
                             /\ c = resume[W.expected].cand
    BY <1>1, <2>2 DEF Carries, WorkerRecs
  <2> HIDE DEF N, c
  <2>4. Carries(N, resume', report')
    BY <2>2, <2>3 DEF Carries, RowsKept
  <2> QED
    BY <2>1, <2>4, RefuseCarries, MoveCarries
<1>7. CASE IngestRetry(w)
  <2> DEFINE N == [W EXCEPT !.pc = "farm", !.resume = W.expected]
  <2>1. Goto(w, N) /\ W.pc = "ingest" /\ W.expected # None
    BY <1>7 DEF IngestRetry, At
  <2>2. N.pc = "farm" /\ N.resume = W.expected /\ N.cand = W.cand
    BY <1>1 DEF WorkerRecs
  <2>3. W.expected \in Resumes
    BY <1>1, <2>1 DEF WorkerRecs
  <2> HIDE DEF N
  <2>4. Carries(N, resume', report')
    BY <1>2, <2>1, <2>2, <2>3 DEF Carries
  <2> QED
    BY <2>1, <2>4, MoveCarries
<1> QED
  BY <1>3, <1>4, <1>5, <1>6, <1>7

\* From the ingest on it carries the rows its report will name.
LEMMA LateCarries ==
  ASSUME TypeInv, RowsKept, Carried, NEW w \in Workers,
         \/ IngestFirst(w) \/ Farm(w) \/ Evaluate(w) \/ SaveReport(w) \/ Confirm(w)
         \/ CompleteRolledBack(w) \/ Abandon(w)
  PROVE  Carried'
<1> DEFINE W == worker[w]
<1>1. W \in WorkerRecs /\ Carries(W, resume, report)
  BY DEF TypeInv, TypeOK, Carried
<1>2. Carries(W, resume', report')
  BY <1>1, CarriesOn
<1>3. CASE IngestFirst(w)
  <2>1. PICK i \in Items, c \in Candidates, r \in Resumes : W.item = i /\ FirstIngest(w, i, c, r)
    BY <1>3, FirstIngestWrites
  <2> DEFINE N == [W EXCEPT !.pc = "farm", !.cand = c, !.resume = r]
  <2>2. N.pc = "farm" /\ N.cand = c /\ N.resume = r
    BY <1>1 DEF WorkerRecs
  <2>3. Goto(w, N) /\ NewOrReused(i, c, r)
    BY <2>1 DEF FirstIngest
  <2> HIDE DEF N
  <2>4. Carries(N, resume', report')
    BY <2>2, <2>3 DEF Carries, NewOrReused, ResumeLive
  <2> QED
    BY <2>3, <2>4, MoveCarries
<1>4. ASSUME NEW pc \in {"require", "recheck", "save", "cleanup"},
             W.pc \in {"farm", "require", "recheck", "complete"},
             W.pc = "complete" => pc = "cleanup",
             LET N == [W EXCEPT !.pc = pc] IN Goto(w, N) \/ worker' = [worker EXCEPT ![w] = N]
      PROVE  Carried'
  <2> DEFINE N == [W EXCEPT !.pc = pc]
  <2>1. Goto(w, N) \/ worker' = [worker EXCEPT ![w] = N]
    BY <1>4
  <2>2. N.pc = pc /\ N.cand = W.cand /\ N.resume = W.resume
    BY <1>1 DEF WorkerRecs
  <2> HIDE DEF N
  <2>3. Carries(N, resume', report')
    BY <1>2, <1>4, <2>2 DEF Carries
  <2> QED
    BY <2>1, <2>3, MoveCarries
<1>5. CASE Farm(w) \/ Evaluate(w) \/ CompleteRolledBack(w)
  BY <1>4, <1>5, RefuseCarries DEF Farm, Evaluate, Require, CompleteRolledBack, At
<1>6. CASE SaveReport(w)
  <2>1. PICK i \in Items, p \in Reports : W.item = i /\ NewReport(w, i, W.cand, p)
    BY <1>6, SaveWrites
  <2> DEFINE N == [W EXCEPT !.pc = "confirm", !.report = p]
  <2>2. /\ N.pc = "confirm" /\ N.cand = W.cand /\ N.resume = W.resume
        /\ N.report = p /\ N.item = W.item
    BY <1>1 DEF WorkerRecs
  <2>3. Goto(w, N) /\ report'[p].st = "live" /\ report'[p].cand = W.cand /\ report'[p].src = W.item
    BY <2>1 DEF NewReport
  <2>4. W.pc = "save"
    BY <1>6 DEF SaveReport, At
  <2> HIDE DEF N
  <2>5. Carries(N, resume', report')
    BY <1>2, <2>2, <2>3, <2>4 DEF Carries
  <2> QED
    BY <2>3, <2>5, MoveCarries
<1>7. CASE Confirm(w)
  <2> DEFINE N == [W EXCEPT !.pc = "complete"]
  <2>1. Refuse(w, Erased) \/ worker' = [worker EXCEPT ![w] = N]
    BY <1>7 DEF Confirm
  <2>2. /\ N.pc = "complete" /\ N.cand = W.cand /\ N.resume = W.resume
        /\ N.report = W.report /\ N.item = W.item /\ W.pc = "confirm"
    BY <1>1, <1>7 DEF WorkerRecs, Confirm, At
  <2> HIDE DEF N
  <2>3. Carries(N, resume', report')
    BY <1>2, <2>2 DEF Carries
  <2> QED
    BY <2>1, <2>3, RefuseCarries, MoveCarries
<1>8. CASE Abandon(w)
  <2> DEFINE N == [W EXCEPT !.orphan = TRUE]
  <2>1. worker' = [worker EXCEPT ![w] = N]
    BY <1>8 DEF Abandon
  <2>2. /\ N.pc = W.pc /\ N.cand = W.cand /\ N.resume = W.resume
        /\ N.report = W.report /\ N.item = W.item /\ N.expected = W.expected
    BY <1>1 DEF WorkerRecs
  <2> HIDE DEF N
  <2>3. Carries(N, resume', report')
    BY <1>2, <2>2 DEF Carries
  <2> QED
    BY <2>1, <2>3, MoveCarries
<1> QED
  BY <1>3, <1>5, <1>6, <1>7, <1>8

\* Calls carry rows of one candidate from step to step.
LEMMA NextCarries ==
  ASSUME TypeInv, Carried, LinksConsistent, [Next]_vars
  PROVE  Carried'
<1>1. RowsKept
  BY RowsStay
<1>2. CASE UNCHANGED worker
  BY <1>1, <1>2, StayCarries
<1>3. ASSUME NEW w \in Workers, NEW b \in Batches, BeginClaim(w, b)
      PROVE  Carried'
  <2> DEFINE N == [Idle EXCEPT !.pc = "claiming", !.batch = b, !.lease = clock]
  <2>1. N.pc = "claiming" /\ worker' = [worker EXCEPT ![w] = N]
    BY <1>3 DEF BeginClaim, Idle
  <2> HIDE DEF N
  <2>2. Carries(N, resume', report')
    BY <2>1 DEF Carries
  <2> QED
    BY <1>1, <2>1, <2>2, MoveCarries
<1>4. ASSUME NEW w \in Workers, Step(w) \/ Interrupt(w)
      PROVE  Carried'
  <2>1. CASE Claim(w) \/ Load(w) \/ RecoverNothing(w) \/ Resolve(w) \/ IngestRetry(w)
    BY <1>1, <2>1, EarlyCarries
  <2>2. CASE \/ IngestFirst(w) \/ Farm(w) \/ Evaluate(w) \/ SaveReport(w) \/ Confirm(w)
             \/ CompleteRolledBack(w) \/ Abandon(w)
    BY <1>1, <2>2, LateCarries
  <2>3. CASE \/ RecoverUnusable(w) \/ IngestErased(w) \/ IngestStale(w) \/ IngestUnavailable(w)
             \/ SaveRefused(w) \/ PipelineFails(w)
    BY <1>1, <2>3, RefuseCarries DEF RecoverUnusable, IngestErased, IngestStale, IngestUnavailable,
                                     SaveRefused, PipelineFails
  <2>4. CASE \/ RecoverRefused(w) \/ RecoverDone(w) \/ CompleteRefused(w) \/ Complete(w)
             \/ Cleanup(w) \/ Fail(w) \/ Stop(w)
    BY <1>1, <2>4, LeaveCarries DEF RecoverRefused, RecoverDone, CompleteRefused, Complete,
                                    Cleanup, Fail, Stop
  <2> QED
    BY <1>4, <2>1, <2>2, <2>3, <2>4 DEF Step, Recover, Ingest, Save, Finish, Interrupt
<1>5. CASE Tick \/ Organisation \/ Erasure \/ SweepText \/ SweepInputs \/ UNCHANGED vars
  <2>1. UNCHANGED worker
    BY <1>5, ErasureWrites DEF Tick, Organisation, Register, Requeue, DeleteBatch, Deleted,
                               SweepText, SweepInputs, vars
  <2> QED
    BY <1>2, <2>1
<1> QED
  BY <1>3, <1>4, <1>5 DEF Next

-----------------------------------------------------------------------------
(***************************************************************************)
(* Links.  The foreign keys hold only together with what calls carry: a    *)
(* completion writes ids its call read transactions ago.                   *)
(***************************************************************************)

\* Deleting a candidate leaves no live resume or report of that candidate.
Rooted ==
  /\ \A r \in Resumes : ResumeLive(r) => CandidateLive(resume[r].cand)
  /\ \A p \in Reports : ReportLive(p) => CandidateLive(report[p].cand)

LinkInv == TypeInv /\ LinksConsistent /\ Rooted /\ Carried

LEMMA NotARow == None \notin Candidates /\ None \notin Resumes /\ None \notin Reports /\ None \notin Items
BY ConstantsOK DEF ConstantsOK

LEMMA InitLinks == Init => LinkInv
<1> SUFFICES ASSUME Init PROVE LinkInv
  OBVIOUS
<1>1. \A i \in Items : /\ item[i].cand = None /\ item[i].resume = None /\ item[i].report = None
                       /\ input[i].resume = None /\ input[i].report = None
  BY DEF Init, NoItem, NoInput
<1>2. LinksConsistent
  BY <1>1 DEF LinksConsistent, HasInput
<1>3. Rooted
  BY DEF Init, Rooted, ResumeLive, ReportLive
<1>4. Carried
  BY IdleCarries DEF Init, Carried
<1> QED
  BY <1>2, <1>3, <1>4, InitTyped DEF LinkInv

\* One step keeps rows under their candidates.
LEMMA NextRooted ==
  ASSUME LinkInv, [Next]_vars
  PROVE  Rooted'
<1> USE DEF LinkInv
<1> USE NotARow
<1>1. CASE Minor
  BY <1>1 DEF Minor, SameRows, Rooted, ResumeLive, ReportLive, CandidateLive, TypeInv, TypeOK, ReportRows, ResumeRows
<1>2. ASSUME UNCHANGED rows
      PROVE  Rooted'
  BY <1>2 DEF rows, Rooted, ResumeLive, ReportLive, CandidateLive
<1>3. CASE Erasure
  <2>1. PICK cs \in SUBSET Candidates, rs \in SUBSET Resumes, ps \in SUBSET Reports :
          Deleted(cs, ResumesGone(cs, rs), ReportsGone(cs, ps))
    BY <1>3, ErasureWrites
  <2>2. ASSUME NEW r \in Resumes, resume'[r].st = "live"
        PROVE  resume[r].cand \notin cs /\ resume[r].st = "live"
    BY <2>1, <2>2 DEF Deleted, ResumesGone, ResumeLive
  <2>3. ASSUME NEW p \in Reports, report'[p].st = "live"
        PROVE  report[p].cand \notin cs /\ report[p].st = "live"
    BY <2>1, <2>3 DEF Deleted, ReportsGone, ReportLive
  <2>4. ASSUME NEW c \in Candidates \cup {None}, c \notin cs, CandidateLive(c)
        PROVE  c # None /\ candidate'[c].st = "live"
    BY <2>1, <2>4 DEF Deleted, CandidateLive
  <2>5. ASSUME NEW r \in Resumes, resume'[r].st = "live"
        PROVE  resume'[r].cand # None /\ candidate'[resume'[r].cand].st = "live"
    <3>1. resume'[r].cand = resume[r].cand /\ resume[r].cand \in Candidates \cup {None}
      BY <2>1 DEF Deleted, TypeInv, TypeOK, ResumeRows
    <3> QED
      BY <2>2, <2>4, <2>5, <3>1 DEF Rooted, ResumeLive
  <2>6. ASSUME NEW p \in Reports, report'[p].st = "live"
        PROVE  report'[p].cand # None /\ candidate'[report'[p].cand].st = "live"
    <3>1. report'[p].cand = report[p].cand /\ report[p].cand \in Candidates \cup {None}
      BY <2>1 DEF Deleted, TypeInv, TypeOK, ReportRows
    <3> QED
      BY <2>3, <2>4, <2>6, <3>1 DEF Rooted, ReportLive
  <2> QED
    BY <2>5, <2>6 DEF Rooted, ResumeLive, ReportLive, CandidateLive
<1>4. ASSUME NEW w \in Workers, IngestFirst(w)
      PROVE  Rooted'
  <2>1. PICK i \in Items, c \in Candidates, r \in Resumes : FirstIngest(w, i, c, r)
    BY <1>4, FirstIngestWrites
  <2>2. /\ candidate'[c].st = "live"
        /\ \A d \in Candidates : candidate[d].st = "live" => candidate'[d].st = "live"
    BY <2>1 DEF FirstIngest, NewOrFound, CandidateLive
  <2>3. \A q \in Resumes : resume'[q].st = "live" =>
          resume'[q].cand = c \/ (resume[q].st = "live" /\ resume'[q].cand = resume[q].cand)
    BY <2>1 DEF FirstIngest, NewOrReused
  <2>4. report' = report
    BY <2>1 DEF FirstIngest
  <2> QED
    BY <2>2, <2>3, <2>4 DEF Rooted, ResumeLive, ReportLive, CandidateLive, TypeInv, TypeOK, ResumeRows, ReportRows
<1>5. ASSUME NEW w \in Workers, SaveReport(w)
      PROVE  Rooted'
  <2>1. PICK i \in Items, p \in Reports : NewReport(w, i, worker[w].cand, p)
    BY <1>5, SaveWrites
  <2> QED
    BY <2>1 DEF NewReport, Rooted, ResumeLive, ReportLive, CandidateLive
<1> QED
  BY <1>1, <1>2, <1>3, <1>4, <1>5, StepsSorted DEF Major, Register, RecoverDone, Complete

\* The links of one item, as a formula about its row, its reference and the tables.
Linked(row, ref, cs, rs, ps) ==
  /\ row.cand # None => cs[row.cand].st = "live"
  /\ row.resume # None => rs[row.resume].st = "live" /\ rs[row.resume].cand = row.cand
  /\ row.report # None => ps[row.report].st = "live" /\ ps[row.report].cand = row.cand
  /\ ref.resume # None => rs[ref.resume].st = "live"
  /\ ref.report # None => /\ ref.resume # None /\ ps[ref.report].st = "live"
                          /\ ps[ref.report].cand = rs[ref.resume].cand

LEMMA LinksOfItems ==
  LinksConsistent <=> \A i \in Items : Linked(item[i], input[i], candidate, resume, report)
BY DEF LinksConsistent, Linked, CandidateLive, ResumeLive, ReportLive, HasInput

LEMMA LinksOfItemsNext ==
  LinksConsistent' <=> \A i \in Items : Linked(item'[i], input'[i], candidate', resume', report')
BY DEF LinksConsistent, Linked, CandidateLive, ResumeLive, ReportLive, HasInput

\* Rows that are live stay live and keep their candidate.
LEMMA LinksSurvive ==
  ASSUME NEW row \in ItemRows, NEW ref \in InputRows, NEW row2, NEW ref2,
         Linked(row, ref, candidate, resume, report),
         \A c \in Candidates : candidate[c].st = "live" => candidate'[c].st = "live",
         \A r \in Resumes : resume[r].st = "live" =>
           resume'[r].st = "live" /\ resume'[r].cand = resume[r].cand,
         \A p \in Reports : report[p].st = "live" =>
           report'[p].st = "live" /\ report'[p].cand = report[p].cand,
         \/ row2.cand = row.cand /\ row2.resume = row.resume /\ row2.report = row.report
         \/ row2.cand = None /\ row2.resume = None /\ row2.report = None,
         ref2 = ref \/ ref2 = NoInput
  PROVE  Linked(row2, ref2, candidate', resume', report')
<1>1. /\ row.cand \in Candidates \cup {None} /\ row.resume \in Resumes \cup {None}
      /\ row.report \in Reports \cup {None}
  BY DEF ItemRows
<1>2. ref.resume \in Resumes \cup {None} /\ ref.report \in Reports \cup {None}
  BY DEF InputRows
<1>3. NoInput.resume = None /\ NoInput.report = None
  BY DEF NoInput
<1> QED
  BY <1>1, <1>2, <1>3 DEF Linked

LEMMA NextLinked ==
  ASSUME LinkInv, [Next]_vars
  PROVE  LinksConsistent'
<1> USE DEF LinkInv
<1> USE NotARow
<1>1. \A i \in Items : /\ item[i] \in ItemRows /\ input[i] \in InputRows
                       /\ Linked(item[i], input[i], candidate, resume, report)
  BY LinksOfItems DEF TypeInv, TypeOK
<1>2. CASE Minor
  <2>1. /\ \A c \in Candidates : candidate[c].st = "live" => candidate'[c].st = "live"
        /\ \A r \in Resumes : resume[r].st = "live" =>
             resume'[r].st = "live" /\ resume'[r].cand = resume[r].cand
        /\ \A p \in Reports : report[p].st = "live" =>
             report'[p].st = "live" /\ report'[p].cand = report[p].cand
    BY <1>2 DEF Minor, SameRows
  <2> QED
    BY <1>1, <1>2, <2>1, LinksSurvive, LinksOfItemsNext DEF Minor, Reduced, SameLinks, Unlinks
<1>3. ASSUME NEW b \in Batches, NEW S \in SUBSET Items \ {{}}, Register(b, S)
      PROVE  LinksConsistent'
  <2>1. /\ UNCHANGED rows /\ input' = input
        /\ \A i \in Items : item'[i] = item[i] \/ Unlinks(i)
    BY <1>3, RegisterWrites
  <2> QED
    BY <1>1, <2>1, LinksSurvive, LinksOfItemsNext DEF rows, Unlinks
<1>4. CASE Erasure
  <2>1. PICK cs \in SUBSET Candidates, rs \in SUBSET Resumes, ps \in SUBSET Reports :
          Deleted(cs, ResumesGone(cs, rs), ReportsGone(cs, ps))
    BY <1>4, ErasureWrites
  <2> DEFINE R == ResumesGone(cs, rs)
             P == ReportsGone(cs, ps)
  <2>2. /\ \A r \in Resumes : resume[r].st = "live" /\ resume[r].cand \in cs => r \in R
        /\ \A p \in Reports : report[p].st = "live" /\ report[p].cand \in cs => p \in P
    BY DEF ResumesGone, ReportsGone, ResumeLive, ReportLive
  <2>3. None \notin cs
    OBVIOUS
  <2>4. Deleted(cs, R, P)
    BY <2>1
  <2> HIDE DEF R, P
  <2>5. ASSUME NEW i \in Items
        PROVE  Linked(item'[i], input'[i], candidate', resume', report')
    <3> DEFINE row == item[i]
               ref == input[i]
    <3>1. /\ row.cand \in Candidates \cup {None} /\ row.resume \in Resumes \cup {None}
          /\ row.report \in Reports \cup {None}
          /\ ref.resume \in Resumes \cup {None} /\ ref.report \in Reports \cup {None}
      BY <1>1 DEF ItemRows, InputRows
    <3>2. NoInput.resume = None /\ NoInput.report = None
      BY DEF NoInput
    <3>3. Linked(row, ref, candidate, resume, report)
      BY <1>1
    <3>4. /\ item'[i].cand # None => row.cand = item'[i].cand /\ row.cand \notin cs
          /\ item'[i].resume # None => row.resume = item'[i].resume /\ row.resume \notin R
          /\ item'[i].report # None => row.report = item'[i].report /\ row.report \notin P
          /\ row.cand \notin cs => item'[i].cand = row.cand
          /\ input'[i].resume # None \/ input'[i].report # None =>
               input'[i] = ref /\ ref.resume \notin R /\ ref.report \notin P
      BY <2>4, <3>2 DEF Deleted
    <3>5. /\ \A c \in Candidates : candidate[c].st = "live" /\ c \notin cs => candidate'[c].st = "live"
          /\ \A r \in Resumes : resume[r].st = "live" /\ r \notin R =>
               resume'[r].st = "live" /\ resume'[r].cand = resume[r].cand
          /\ \A p \in Reports : report[p].st = "live" /\ p \notin P =>
               report'[p].st = "live" /\ report'[p].cand = report[p].cand
      BY <2>4 DEF Deleted
    <3> HIDE DEF row, ref
    <3> QED
      BY <2>2, <3>1, <3>3, <3>4, <3>5 DEF Linked
  <2> QED
    BY <2>5, LinksOfItemsNext
<1>5. ASSUME NEW w \in Workers, IngestFirst(w)
      PROVE  LinksConsistent'
  <2>1. PICK i \in Items, c \in Candidates, r \in Resumes : FirstIngest(w, i, c, r)
    BY <1>5, FirstIngestWrites
  <2>2. /\ \A d \in Candidates : candidate[d].st = "live" => candidate'[d].st = "live"
        /\ \A q \in Resumes : resume[q].st = "live" =>
             resume'[q].st = "live" /\ resume'[q].cand = resume[q].cand
        /\ \A p \in Reports : report[p].st = "live" =>
             report'[p].st = "live" /\ report'[p].cand = report[p].cand
    BY <2>1 DEF FirstIngest, NewOrFound, NewOrReused
  <2>3. ASSUME NEW j \in Items, j # i
        PROVE  Linked(item'[j], input'[j], candidate', resume', report')
    BY <1>1, <2>1, <2>2, <2>3, LinksSurvive DEF FirstIngest, TextTaken, SameLinks
  <2>4. Linked(item'[i], NoInput, candidate', resume', report')
    BY <1>1, <2>1, <2>2, LinksSurvive DEF FirstIngest, TextTaken, SameLinks
  <2>5. input'[i].resume = r /\ input'[i].report = None /\ resume'[r].st = "live"
    BY <2>1 DEF FirstIngest, NewOrReused, ResumeLive
  <2>6. Linked(item'[i], input'[i], candidate', resume', report')
    BY <2>4, <2>5 DEF Linked
  <2> QED
    BY <2>3, <2>6, LinksOfItemsNext
<1>6. ASSUME NEW w \in Workers, SaveReport(w)
      PROVE  LinksConsistent'
  <2>1. PICK i \in Items, p \in Reports : NewReport(w, i, worker[w].cand, p)
    BY <1>6, SaveWrites
  <2>2. /\ \A d \in Candidates : candidate[d].st = "live" => candidate'[d].st = "live"
        /\ \A q \in Resumes : resume[q].st = "live" =>
             resume'[q].st = "live" /\ resume'[q].cand = resume[q].cand
        /\ \A q \in Reports : report[q].st = "live" =>
             report'[q].st = "live" /\ report'[q].cand = report[q].cand
    BY <2>1 DEF NewReport
  <2>3. ASSUME NEW j \in Items, j # i
        PROVE  Linked(item'[j], input'[j], candidate', resume', report')
    BY <1>1, <2>1, <2>2, <2>3, LinksSurvive DEF NewReport, TextTaken, SameLinks
  <2>4. Linked(item'[i], input[i], candidate', resume', report')
    BY <1>1, <2>1, <2>2, LinksSurvive DEF NewReport, TextTaken, SameLinks
  <2>5. /\ input'[i].resume = input[i].resume /\ input'[i].report = p /\ HasInput(i)
        /\ report'[p].st = "live" /\ report'[p].cand = worker[w].cand
        /\ resume'[input[i].resume].cand = worker[w].cand
    BY <2>1 DEF NewReport
  <2>6. Linked(item'[i], input'[i], candidate', resume', report')
    BY <2>4, <2>5 DEF Linked, HasInput
  <2> QED
    BY <2>3, <2>6, LinksOfItemsNext
<1>7. ASSUME NEW w \in Workers, NEW i \in Items, NEW c, NEW r, NEW p, Done(w, i, c, r, p),
             CandidateLive(c), resume[r].cand = c, report[p].cand = c
      PROVE  LinksConsistent'
  <2>1. \A j \in Items : j # i => item'[j] = item[j] /\ input'[j] = input[j]
    BY <1>7 DEF Done
  <2>2. UNCHANGED <<candidate, resume, report>>
    BY <1>7 DEF Done, rows
  <2>3. NoInput.resume = None /\ NoInput.report = None
    BY DEF NoInput
  <2>4. Linked(item'[i], input'[i], candidate, resume, report)
    BY <1>7, <2>3 DEF Done, Linked, CandidateLive, ResumeLive, ReportLive
  <2> QED
    BY <1>1, <2>1, <2>2, <2>4, LinksOfItemsNext
<1>8. ASSUME NEW w \in Workers, Complete(w)
      PROVE  LinksConsistent'
  <2>1. PICK i \in Items : /\ worker[w].item = i /\ worker[w].pc = "complete"
                           /\ Done(w, i, worker[w].cand, worker[w].resume, worker[w].report)
    BY <1>8, CompletionWrites
  <2>2. resume[worker[w].resume].cand = worker[w].cand /\ report[worker[w].report].cand = worker[w].cand
    BY <2>1 DEF Carried, Carries
  <2>3. CandidateLive(worker[w].cand)
    BY <2>1 DEF Done
  <2> QED
    BY <1>7, <2>1, <2>2, <2>3
<1>9. ASSUME NEW w \in Workers, RecoverDone(w)
      PROVE  LinksConsistent'
  <2>1. PICK i \in Items, r \in Resumes, p \in Reports :
          report[p].cand = resume[r].cand /\ Done(w, i, resume[r].cand, r, p)
    BY <1>9, CompletionWrites
  <2>2. CandidateLive(resume[r].cand)
    BY <2>1 DEF Done, Rooted
  <2> QED
    BY <1>7, <2>1, <2>2
<1> QED
  BY <1>2, <1>3, <1>4, <1>5, <1>6, <1>8, <1>9, StepsSorted DEF Major

LEMMA NextLinks == LinkInv /\ [Next]_vars => LinkInv'
BY NextTyped, NextRooted, NextLinked, NextCarries DEF LinkInv

\* A settled item names rows of one candidate, each live or unset by its
\* erasure; a retry reference names a live resume, and a live report about the
\* same candidate.
THEOREM LinksAlwaysConsistent == Spec => []LinksConsistent
<1>1. LinkInv => LinksConsistent
  BY DEF LinkInv
<1> QED
  BY <1>1, InitLinks, NextLinks, PTL DEF Spec

-----------------------------------------------------------------------------
(* One candidate per person.                                               *)

\* The match is looked for again under the contact lock, so that a person who
\* has a candidate by then gets no second one.
LEMMA NextPersons ==
  ASSUME TypeInv, OneCandidatePerPerson, [Next]_vars
  PROVE  OneCandidatePerPerson'
<1>1. ASSUME \A c \in Candidates : /\ candidate'[c].st = "live" => candidate[c].st = "live"
                                   /\ candidate'[c].person = candidate[c].person
      PROVE  OneCandidatePerPerson'
  BY <1>1 DEF OneCandidatePerPerson, CandidateLive
<1>2. CASE candidate' = candidate
  BY <1>1, <1>2
<1>3. CASE Erasure
  <2>1. PICK cs \in SUBSET Candidates, rs \in SUBSET Resumes, ps \in SUBSET Reports :
          Deleted(cs, ResumesGone(cs, rs), ReportsGone(cs, ps))
    BY <1>3, ErasureWrites
  <2> QED
    BY <1>1, <2>1 DEF Deleted
<1>4. ASSUME NEW w \in Workers, IngestFirst(w)
      PROVE  OneCandidatePerPerson'
  <2>1. PICK i \in Items, c \in Candidates, r \in Resumes : FirstIngest(w, i, c, r)
    BY <1>4, FirstIngestWrites
  <2> DEFINE p == PersonOf[TextOf[i]]
  <2>2. NewOrFound(p, c)
    BY <2>1 DEF FirstIngest
  <2> HIDE DEF p
  <2>3. CASE candidate[c].st = "free" /\ Resolved(p) = None
    <3>1. ASSUME NEW d \in Candidates, CandidateLive(d), candidate[d].person = p, p # None
          PROVE  FALSE
      <4>1. d \in Matches(p) /\ \A e \in Matches(p) : e = d
        BY <3>1 DEF Matches, OneCandidatePerPerson
      <4> QED
        BY <2>3, <3>1, <4>1, ResolvedMatches, NotARow
    <3>2. /\ candidate'[c].st = "live" => candidate'[c].person = p
          /\ \A d \in Candidates : d # c => candidate'[d] = candidate[d]
      BY <2>2, <2>3 DEF NewOrFound, CandidateLive
    <3> QED
      BY <3>1, <3>2 DEF OneCandidatePerPerson, CandidateLive
  <2> QED
    BY <1>2, <2>2, <2>3 DEF NewOrFound
<1>5. ASSUME NEW w \in Workers, SaveReport(w)
      PROVE  candidate' = candidate
  BY <1>5 DEF SaveReport
<1> QED
  BY <1>2, <1>3, <1>4, <1>5, StepsSorted DEF Minor, SameRows, Major, Register, RecoverDone, Complete, rows

\* Overlapping first ingests of one person end in one candidate, however many
\* calls resolve the person before any of them has written.
THEOREM OneCandidateEach == Spec => []OneCandidatePerPerson
<1>1. Init => TypeInv /\ OneCandidatePerPerson
  <2>1. Init => OneCandidatePerPerson
    BY DEF Init, OneCandidatePerPerson, CandidateLive
  <2> QED
    BY <2>1, InitTyped
<1>2. TypeInv /\ OneCandidatePerPerson /\ [Next]_vars => (TypeInv /\ OneCandidatePerPerson)'
  BY NextTyped, NextPersons
<1>3. TypeInv /\ OneCandidatePerPerson => OneCandidatePerPerson
  OBVIOUS
<1> QED
  BY <1>1, <1>2, <1>3, PTL DEF Spec

-----------------------------------------------------------------------------
(***************************************************************************)
(* One report per item.  The first report spends the item: its text is     *)
(* gone, which only a registration can give, and as long as a reference is *)
(* kept it is bound to the report, so that no later call can save another. *)
(***************************************************************************)

Spent(i) ==
  /\ item[i].status # "none" /\ ~item[i].text
  /\ HasInput(i) => input[i].report # None

ReportsSpend ==
  \A p \in Reports : report[p].st # "free" => report[p].src \in Items /\ Spent(report[p].src)

\* An item keeps its text or a reference, and nothing before it is registered.
OneInput == \A i \in Items : item[i].text \/ item[i].status = "none" => ~HasInput(i)

ReportInv == TypeInv /\ OneReportPerItem /\ ReportsSpend /\ OneInput

LEMMA NoInputEmpty == NoInput.resume = None /\ NoInput.report = None
BY DEF NoInput

LEMMA InitReports == Init => ReportInv
<1> SUFFICES ASSUME Init PROVE ReportInv
  OBVIOUS
<1>1. \A i \in Items : input[i].resume = None
  BY NoInputEmpty DEF Init
<1> QED
  BY <1>1, InitTyped DEF Init, ReportInv, OneReportPerItem, ReportsSpend, OneInput, HasInput

\* What is spent is spent for good, and an item has one input at a time.
LEMMA NextSpent ==
  ASSUME ReportInv, [Next]_vars
  PROVE  /\ \A i \in Items : Spent(i) => Spent(i)'
         /\ OneInput'
<1> USE NoInputEmpty, NotARow DEF ReportInv
<1>1. CASE Minor
  BY <1>1 DEF Minor, Reduced, Spent, OneInput, HasInput
<1>2. ASSUME NEW b \in Batches, NEW S \in SUBSET Items \ {{}}, Register(b, S)
      PROVE  (\A i \in Items : Spent(i) => Spent(i)') /\ OneInput'
  BY <1>2, RegisterWrites DEF Spent, OneInput, HasInput
<1>3. CASE Erasure
  <2>1. PICK cs \in SUBSET Candidates, rs \in SUBSET Resumes, ps \in SUBSET Reports :
          Deleted(cs, ResumesGone(cs, rs), ReportsGone(cs, ps))
    BY <1>3, ErasureWrites
  <2>2. \A i \in Items : /\ item'[i].status = item[i].status /\ item'[i].text = item[i].text
                         /\ input'[i] = input[i] \/ input'[i] = NoInput
    BY <2>1 DEF Deleted
  <2> QED
    BY <2>2 DEF Spent, OneInput, HasInput
<1>4. ASSUME NEW w \in Workers, IngestFirst(w)
      PROVE  (\A i \in Items : Spent(i) => Spent(i)') /\ OneInput'
  <2>1. PICK i \in Items, c \in Candidates, r \in Resumes : FirstIngest(w, i, c, r)
    BY <1>4, FirstIngestWrites
  <2> QED
    BY <2>1 DEF FirstIngest, TextTaken, Spent, OneInput, HasInput
<1>5. ASSUME NEW w \in Workers, SaveReport(w)
      PROVE  (\A i \in Items : Spent(i) => Spent(i)') /\ OneInput'
  <2>1. PICK i \in Items, p \in Reports : NewReport(w, i, worker[w].cand, p)
    BY <1>5, SaveWrites
  <2> QED
    BY <2>1 DEF NewReport, TextTaken, Spent, OneInput, HasInput
<1>6. ASSUME NEW w \in Workers, RecoverDone(w) \/ Complete(w)
      PROVE  (\A i \in Items : Spent(i) => Spent(i)') /\ OneInput'
  <2>1. PICK i \in Items : \E c, r, p : Done(w, i, c, r, p)
    BY <1>6, CompletionWrites
  <2> QED
    BY <2>1 DEF Done, Spent, OneInput, HasInput
<1> QED
  BY <1>1, <1>2, <1>3, <1>4, <1>5, <1>6, StepsSorted DEF Major

LEMMA NextReports == ReportInv /\ [Next]_vars => ReportInv'
<1> SUFFICES ASSUME ReportInv, [Next]_vars PROVE ReportInv'
  OBVIOUS
<1> USE NotARow
<1>1. \A i \in Items : Spent(i) => Spent(i)'
  BY NextSpent
<1>2. ASSUME \A p \in Reports : /\ report'[p].st # "free" => report[p].st # "free"
                                /\ report'[p].src = report[p].src
      PROVE  OneReportPerItem' /\ ReportsSpend'
  BY <1>1, <1>2 DEF ReportInv, OneReportPerItem, ReportsSpend
<1>3. ASSUME NEW w \in Workers, SaveReport(w)
      PROVE  OneReportPerItem' /\ ReportsSpend'
  <2>1. PICK i \in Items, p \in Reports : NewReport(w, i, worker[w].cand, p)
    BY <1>3, SaveWrites DEF ReportInv
  <2>2. ~Spent(i)
    BY <2>1 DEF NewReport, Spent
  <2>3. \A q \in Reports : report[q].st # "free" => report[q].src # i
    BY <2>2 DEF ReportInv, ReportsSpend
  <2>4. Spent(i)'
    BY <2>1 DEF NewReport, TextTaken, Spent
  <2>5. report'[p].src = i /\ \A q \in Reports : q # p => report'[q] = report[q]
    BY <2>1 DEF NewReport
  <2> QED
    BY <1>1, <2>3, <2>4, <2>5 DEF ReportInv, OneReportPerItem, ReportsSpend
<1>4. ASSUME report' = report
      PROVE  OneReportPerItem' /\ ReportsSpend'
  BY <1>2, <1>4
<1>5. ASSUME Erasure
      PROVE  OneReportPerItem' /\ ReportsSpend'
  <2>1. PICK cs \in SUBSET Candidates, rs \in SUBSET Resumes, ps \in SUBSET Reports :
          Deleted(cs, ResumesGone(cs, rs), ReportsGone(cs, ps)) /\ \A p \in ps : ReportLive(p)
    <3>1. TypeInv
      BY DEF ReportInv
    <3> QED
      BY <1>5, <3>1, ErasureWrites
  <2>2. \A p \in ReportsGone(cs, ps) : report[p].st = "live"
    BY <2>1 DEF ReportsGone, ReportLive
  <2>3. ASSUME NEW p \in Reports
        PROVE  report'[p].src = report[p].src
    BY <2>1 DEF Deleted
  <2>4. \A p \in Reports : report'[p].st # report[p].st => p \in ReportsGone(cs, ps)
    BY <2>1 DEF Deleted
  <2> QED
    BY <1>2, <2>2, <2>3, <2>4
<1>6. OneReportPerItem' /\ ReportsSpend'
  BY <1>3, <1>4, <1>5, StepsSorted DEF ReportInv, Minor, SameRows, Major, Register, RecoverDone,
                                       Complete, IngestFirst, rows
<1> QED
  BY <1>6, NextSpent, NextTyped DEF ReportInv

\* A claimed item is evaluated and saved at most once in its life, through
\* failures after the save, retries, expired leases and report erasure.
THEOREM OneReportEach == Spec => []OneReportPerItem
<1>1. ReportInv => OneReportPerItem
  BY DEF ReportInv
<1> QED
  BY <1>1, InitReports, NextReports, PTL DEF Spec

-----------------------------------------------------------------------------
(***************************************************************************)
(* Nothing is ingested after its erasure.  The generation an item was      *)
(* registered under is behind from the erasure on, and so is the one a     *)
(* call has read, whenever it read it.                                     *)
(***************************************************************************)

Past ==
  /\ \A i \in Items : item[i].gen <= generation
  /\ \A w \in Workers : /\ worker[w].gen <= generation
                        /\ worker[w].pc \in {"idle", "claiming"} => worker[w].gen = NoGen

\* The item a live resume came from has been registered.
Begun == \A r \in Resumes : ResumeLive(r) => item[resume[r].src].status # "none"

Overtaken ==
  \A i \in tainted :
    /\ item[i].status # "none" /\ item[i].gen < generation
    /\ \A w \in Workers : worker[w].item = i => worker[w].gen < generation

TaintInv == TypeInv /\ Past /\ Begun /\ Overtaken

LEMMA InitTaint == Init => TaintInv
<1> SUFFICES ASSUME Init PROVE TaintInv
  OBVIOUS
<1>1. \A i \in Items : item[i].gen = NoGen
  BY DEF Init, NoItem
<1>2. \A w \in Workers : worker[w].gen = NoGen
  BY DEF Init, Idle
<1> QED
  BY <1>1, <1>2, InitTyped DEF Init, TaintInv, Past, Begun, Overtaken, ResumeLive, NoGen

\* A call carries the generation it was claimed under or none, and turns to an
\* item without one.
LEMMA GenerationCarried ==
  ASSUME TypeInv, Past, [Next]_vars, NEW v \in Workers
  PROVE  \/ worker'[v].gen = NoGen
         \/ /\ worker'[v].gen = worker[v].gen /\ worker'[v].item = worker[v].item
            /\ worker'[v].pc \notin {"idle", "claiming"}
         \/ /\ worker'[v].gen = item[worker[v].item].gen /\ worker'[v].item = worker[v].item
            /\ worker[v].item \in Items /\ worker'[v].pc \notin {"idle", "claiming"}
            /\ Load(v)
<1> DEFINE Held(u) == \/ worker'[u].gen = NoGen
                      \/ /\ worker'[u].gen = worker[u].gen /\ worker'[u].item = worker[u].item
                         /\ worker'[u].pc \notin {"idle", "claiming"}
                      \/ /\ worker'[u].gen = item[worker[u].item].gen /\ worker'[u].item = worker[u].item
                         /\ worker[u].item \in Items /\ worker'[u].pc \notin {"idle", "claiming"}
                         /\ Load(u)
<1>1. \A u \in Workers : worker[u] \in WorkerRecs
  BY DEF TypeInv, TypeOK
<1>2. Idle.gen = NoGen
  BY DEF Idle
<1>3. ASSUME NEW u \in Workers, worker'[u] = worker[u]
      PROVE  Held(u)
  BY <1>3 DEF Past
<1>4. ASSUME worker' = worker
      PROVE  Held(v)
  BY <1>3, <1>4
<1>5. ASSUME NEW w \in Workers, NEW N \in {worker'[w]}, worker' = [worker EXCEPT ![w] = N],
             N.gen = NoGen \/ (N.gen = worker[w].gen /\ N.item = worker[w].item /\ N.pc \notin {"idle", "claiming"})
      PROVE  Held(v)
  <2>1. CASE v = w
    BY <1>5, <2>1
  <2>2. CASE v # w
    BY <1>3, <1>5, <2>2
  <2> QED
    BY <2>1, <2>2
<1>6. ASSUME NEW w \in Workers, Leave(w)
      PROVE  Held(v)
  BY <1>2, <1>5, <1>6 DEF Leave, TypeInv, TypeOK
<1>7. ASSUME NEW w \in Workers, NEW N, N.gen = worker[w].gen, N.item = worker[w].item,
             N.pc \notin {"idle", "claiming"}, Goto(w, N) \/ worker' = [worker EXCEPT ![w] = N]
      PROVE  Held(v)
  <2>1. CASE worker' = [worker EXCEPT ![w] = N]
    BY <1>5, <1>7, <2>1 DEF TypeInv, TypeOK
  <2>2. CASE Goto(w, N)
    <3>1. worker' = [worker EXCEPT ![w] = N] \/ Leave(w)
      BY <2>2 DEF Goto, Leave
    <3> QED
      BY <1>6, <2>1, <3>1
  <2> QED
    BY <1>7, <2>1, <2>2
<1> HIDE DEF Held
<1>8. ASSUME NEW w \in Workers, NEW e, Refuse(w, e)
      PROVE  Held(v)
  <2> DEFINE N == [worker[w] EXCEPT !.pc = "failing", !.err = e]
  <2>1. N.gen = worker[w].gen /\ N.item = worker[w].item /\ N.pc = "failing"
    BY <1>1 DEF WorkerRecs
  <2>2. Goto(w, N)
    BY <1>8 DEF Refuse
  <2> HIDE DEF N
  <2> QED
    BY <1>7, <2>1, <2>2
<1>9. ASSUME NEW w \in Workers, NEW pc \in Stages \ {"idle", "claiming"},
             LET N == [worker[w] EXCEPT !.pc = pc] IN Goto(w, N) \/ worker' = [worker EXCEPT ![w] = N]
      PROVE  Held(v)
  <2> DEFINE N == [worker[w] EXCEPT !.pc = pc]
  <2>1. N.gen = worker[w].gen /\ N.item = worker[w].item /\ N.pc = pc
    BY <1>1 DEF WorkerRecs
  <2>2. Goto(w, N) \/ worker' = [worker EXCEPT ![w] = N]
    BY <1>9
  <2> HIDE DEF N
  <2> QED
    BY <1>7, <2>1, <2>2
<1>10. ASSUME NEW w \in Workers, NEW b \in Batches, BeginClaim(w, b)
       PROVE  Held(v)
  <2> DEFINE N == [Idle EXCEPT !.pc = "claiming", !.batch = b, !.lease = clock]
  <2>1. N.gen = NoGen /\ worker' = [worker EXCEPT ![w] = N]
    BY <1>10 DEF BeginClaim, Idle
  <2> HIDE DEF N
  <2> QED
    BY <1>5, <2>1 DEF TypeInv, TypeOK
<1>11. ASSUME NEW w \in Workers, Claim(w)
       PROVE  Held(v)
  <2>1. ASSUME NEW i \in Items, worker' = [worker EXCEPT ![w].pc = "load", ![w].item = i]
        PROVE  Held(v)
    <3> DEFINE N == [worker[w] EXCEPT !.pc = "load", !.item = i]
    <3>1. N.gen = worker[w].gen /\ worker' = [worker EXCEPT ![w] = N]
      BY <1>1, <2>1 DEF WorkerRecs
    <3>2. worker[w].gen = NoGen
      BY <1>11 DEF Claim, At, Past
    <3> HIDE DEF N
    <3> QED
      BY <1>5, <3>1, <3>2 DEF TypeInv, TypeOK
  <2> QED
    BY <1>6, <1>11, <2>1 DEF Claim
<1>12. ASSUME NEW w \in Workers, Load(w)
       PROVE  Held(v)
  <2> DEFINE e == input[worker[w].item].resume
             g == item[worker[w].item].gen
             h == HasInput(worker[w].item) \/ item[worker[w].item].text
             N == [worker[w] EXCEPT !.pc = "recover", !.expected = e, !.gen = g, !.hasText = h]
  <2>1. Leave(w) \/ worker' = [worker EXCEPT ![w] = N]
    BY <1>12 DEF Load
  <2>2. N.pc = "recover" /\ N.gen = g /\ N.item = worker[w].item
    BY <1>1 DEF WorkerRecs
  <2>3. worker[w].item \in Items
    BY <1>12, WorkerTyped DEF Load, At, Active, Busy
  <2> HIDE DEF N
  <2>4. CASE worker' = [worker EXCEPT ![w] = N]
    <3>1. CASE v = w
      BY <1>12, <2>2, <2>3, <2>4, <3>1 DEF Held, TypeInv, TypeOK
    <3>2. CASE v # w
      BY <1>3, <2>4, <3>2 DEF TypeInv, TypeOK
    <3> QED
      BY <3>1, <3>2
  <2> QED
    BY <1>6, <2>1, <2>4
<1>13. ASSUME NEW w \in Workers,
              RecoverNothing(w) \/ Farm(w) \/ Evaluate(w) \/ Confirm(w) \/ CompleteRolledBack(w)
       PROVE  Held(v)
  <2>1. \/ \E e : Refuse(w, e)
        \/ \E pc \in {"resolve", "require", "recheck", "save", "complete", "cleanup"} :
             LET N == [worker[w] EXCEPT !.pc = pc] IN Goto(w, N) \/ worker' = [worker EXCEPT ![w] = N]
    BY <1>13 DEF RecoverNothing, Farm, Evaluate, Require, Confirm, CompleteRolledBack
  <2> QED
    BY <1>8, <1>9, <2>1 DEF Stages, Busy
<1>14. ASSUME NEW w \in Workers, Resolve(w)
       PROVE  Held(v)
  <2> DEFINE c == IF worker[w].expected # None THEN resume[worker[w].expected].cand
                  ELSE Resolved(PersonOf[TextOf[worker[w].item]])
             N == [worker[w] EXCEPT !.pc = "ingest", !.cand = c]
  <2>1. Refuse(w, Ordinary) \/ Refuse(w, Erased) \/ worker' = [worker EXCEPT ![w] = N]
    BY <1>14 DEF Resolve
  <2> HIDE DEF c
  <2>2. N.pc = "ingest" /\ N.gen = worker[w].gen /\ N.item = worker[w].item
    BY <1>1 DEF WorkerRecs
  <2> HIDE DEF N
  <2> QED
    BY <1>7, <1>8, <2>1, <2>2
<1>15. ASSUME NEW w \in Workers, IngestFirst(w) \/ IngestRetry(w) \/ SaveReport(w) \/ Abandon(w)
       PROVE  Held(v)
  <2>1. ASSUME NEW N, Goto(w, N) \/ worker' = [worker EXCEPT ![w] = N],
               N.pc \notin {"idle", "claiming"}, N.gen = worker[w].gen, N.item = worker[w].item
        PROVE  Held(v)
    BY <1>7, <2>1
  <2>2. ASSUME NEW c, NEW r, Goto(w, [worker[w] EXCEPT !.pc = "farm", !.cand = c, !.resume = r])
        PROVE  Held(v)
    <3> DEFINE N == [worker[w] EXCEPT !.pc = "farm", !.cand = c, !.resume = r]
    <3>1. N.pc = "farm" /\ N.gen = worker[w].gen /\ N.item = worker[w].item /\ Goto(w, N)
      BY <1>1, <2>2 DEF WorkerRecs
    <3> HIDE DEF N
    <3> QED
      BY <2>1, <3>1
  <2>3. ASSUME Goto(w, [worker[w] EXCEPT !.pc = "farm", !.resume = worker[w].expected])
        PROVE  Held(v)
    <3> DEFINE N == [worker[w] EXCEPT !.pc = "farm", !.resume = worker[w].expected]
    <3>1. N.pc = "farm" /\ N.gen = worker[w].gen /\ N.item = worker[w].item /\ Goto(w, N)
      BY <1>1, <2>3 DEF WorkerRecs
    <3> HIDE DEF N
    <3> QED
      BY <2>1, <3>1
  <2>4. ASSUME NEW p, Goto(w, [worker[w] EXCEPT !.pc = "confirm", !.report = p])
        PROVE  Held(v)
    <3> DEFINE N == [worker[w] EXCEPT !.pc = "confirm", !.report = p]
    <3>1. N.pc = "confirm" /\ N.gen = worker[w].gen /\ N.item = worker[w].item /\ Goto(w, N)
      BY <1>1, <2>4 DEF WorkerRecs
    <3> HIDE DEF N
    <3> QED
      BY <2>1, <3>1
  <2>5. ASSUME Abandon(w)
        PROVE  Held(v)
    <3> DEFINE N == [worker[w] EXCEPT !.orphan = TRUE]
    <3>1. N.pc = worker[w].pc /\ N.gen = worker[w].gen /\ N.item = worker[w].item
      BY <1>1 DEF WorkerRecs
    <3>2. worker[w].pc \notin {"idle", "claiming"} /\ worker' = [worker EXCEPT ![w] = N]
      BY <2>5 DEF Abandon
    <3> HIDE DEF N
    <3> QED
      BY <2>1, <3>1, <3>2
  <2> QED
    BY <1>15, <2>2, <2>3, <2>4, <2>5 DEF IngestFirst, IngestRetry, SaveReport
<1>16. ASSUME NEW w \in Workers, Step(w) \/ Interrupt(w)
       PROVE  Held(v)
  <2>1. CASE \/ RecoverUnusable(w) \/ IngestErased(w) \/ IngestStale(w) \/ IngestUnavailable(w)
             \/ SaveRefused(w) \/ PipelineFails(w)
    BY <1>8, <2>1 DEF RecoverUnusable, IngestErased, IngestStale, IngestUnavailable,
                      SaveRefused, PipelineFails
  <2>2. CASE \/ RecoverRefused(w) \/ RecoverDone(w) \/ CompleteRefused(w) \/ Complete(w)
             \/ Cleanup(w) \/ Fail(w) \/ Stop(w)
    BY <1>6, <2>2 DEF RecoverRefused, RecoverDone, CompleteRefused, Complete, Cleanup, Fail, Stop
  <2> QED
    BY <1>11, <1>12, <1>13, <1>14, <1>15, <1>16, <2>1, <2>2
       DEF Step, Recover, Ingest, Save, Finish, Interrupt
<1>17. ASSUME Tick \/ Organisation \/ Erasure \/ SweepText \/ SweepInputs \/ UNCHANGED vars
       PROVE  Held(v)
  <2>1. worker' = worker
    BY <1>17, ErasureWrites DEF Tick, Organisation, Register, Requeue, DeleteBatch, Deleted,
                                SweepText, SweepInputs, vars
  <2> QED
    BY <1>4, <2>1
<1>18. Held(v)
  BY <1>10, <1>16, <1>17 DEF Next
<1> QED
  BY <1>18 DEF Held

\* A registration cannot reach an item that has been tainted, and a first ingest
\* of one is refused by its generation.
LEMMA NextTaint == TaintInv /\ [Next]_vars => TaintInv'
<1> SUFFICES ASSUME TaintInv, [Next]_vars PROVE TaintInv'
  OBVIOUS
<1> USE NotARow DEF TaintInv
<1>1. generation \in Nat /\ \A i \in Items : item[i].gen \in Nat \cup {NoGen}
  BY DEF TypeInv, TypeOK, ItemRows
<1>2. \A w \in Workers : worker[w].gen \in Nat \cup {NoGen} /\ worker[w].item \in Items \cup {None}
  BY DEF TypeInv, TypeOK, WorkerRecs
<1>3. tainted \subseteq Items
  BY DEF TypeInv, TypeOK
<1>4. /\ generation' \in {generation, generation + 1}
      /\ \A i \in Items : /\ item[i].status # "none" =>
                               item'[i].status # "none" /\ item'[i].gen \in {item[i].gen, NoGen}
                          /\ item'[i].gen \in {item[i].gen, NoGen, generation}
      /\ \A r \in Resumes : resume'[r].st = "live" =>
              \/ resume[r].st = "live" /\ resume'[r].src = resume[r].src
              \/ resume'[r].src \in Items /\ item'[resume'[r].src].status # "none"
      /\ \A i \in tainted' : i \in tainted \/ (generation' = generation + 1 /\ item[i].status # "none")
  <2> DEFINE Goal(g, it, rs, tn) ==
        /\ g \in {generation, generation + 1}
        /\ \A i \in Items : /\ item[i].status # "none" =>
                                 it[i].status # "none" /\ it[i].gen \in {item[i].gen, NoGen}
                            /\ it[i].gen \in {item[i].gen, NoGen, generation}
        /\ \A r \in Resumes : rs[r].st = "live" =>
                \/ resume[r].st = "live" /\ rs[r].src = resume[r].src
                \/ rs[r].src \in Items /\ it[rs[r].src].status # "none"
        /\ \A i \in tn : i \in tainted \/ (g = generation + 1 /\ item[i].status # "none")
  <2>1. ASSUME Minor
        PROVE  Goal(generation', item', resume', tainted')
    BY <2>1 DEF Minor, SameRows, Reduced
  <2>2. ASSUME NEW b \in Batches, NEW S \in SUBSET Items \ {{}}, Register(b, S)
        PROVE  Goal(generation', item', resume', tainted')
    BY <2>2, RegisterWrites DEF rows
  <2>3. ASSUME Erasure
        PROVE  Goal(generation', item', resume', tainted')
    <3>1. PICK cs \in SUBSET Candidates, rs \in SUBSET Resumes, ps \in SUBSET Reports :
            /\ Deleted(cs, ResumesGone(cs, rs), ReportsGone(cs, ps))
            /\ \A i \in tainted' : \/ i \in tainted
                                   \/ i \in Items /\ Registered(i)
                                   \/ \E r \in Resumes : ResumeLive(r) /\ resume[r].src = i
      BY <2>3, ErasureWrites
    <3>2. \A i \in tainted' : i \in tainted \/ item[i].status # "none"
      BY <3>1 DEF Registered, Begun
    <3> QED
      BY <3>1, <3>2 DEF Deleted
  <2>4. ASSUME NEW w \in Workers, RecoverDone(w) \/ Complete(w)
        PROVE  Goal(generation', item', resume', tainted')
    <3>1. PICK i \in Items : \E c, r, p : Done(w, i, c, r, p)
      BY <2>4, CompletionWrites
    <3> QED
      BY <3>1 DEF Done, rows
  <2>5. ASSUME NEW w \in Workers, IngestFirst(w)
        PROVE  Goal(generation', item', resume', tainted')
    <3>1. PICK i \in Items, c \in Candidates, r \in Resumes : FirstIngest(w, i, c, r)
      BY <2>5, FirstIngestWrites
    <3> QED
      BY <3>1 DEF FirstIngest, TextTaken, NewOrReused
  <2>6. ASSUME NEW w \in Workers, SaveReport(w)
        PROVE  Goal(generation', item', resume', tainted')
    <3>1. PICK i \in Items, p \in Reports : NewReport(w, i, worker[w].cand, p)
      BY <2>6, SaveWrites
    <3> QED
      BY <3>1 DEF NewReport, TextTaken
  <2>7. Goal(generation', item', resume', tainted')
    <3> HIDE DEF Goal
    <3> QED
      BY <2>1, <2>2, <2>3, <2>4, <2>5, <2>6, StepsSorted DEF Major
  <2> QED
    BY <2>7
<1>5. Begun'
  <2>1. ASSUME NEW r \in Resumes, resume'[r].st = "live"
        PROVE  item'[resume'[r].src].status # "none"
    <3>1. CASE resume[r].st = "live" /\ resume'[r].src = resume[r].src
      <4>1. resume[r].src \in Items /\ item[resume[r].src].status # "none"
        BY <3>1 DEF Begun, ResumeLive, TypeInv, Sourced
      <4> QED
        BY <1>4, <3>1, <4>1
    <3> QED
      BY <1>4, <2>1, <3>1
  <2> QED
    BY <2>1 DEF Begun, ResumeLive
<1>6. ASSUME NEW v \in Workers
      PROVE  \/ worker'[v].gen = NoGen
             \/ /\ worker'[v].gen = worker[v].gen /\ worker'[v].item = worker[v].item
                /\ worker'[v].pc \notin {"idle", "claiming"}
             \/ /\ worker'[v].gen = item[worker[v].item].gen /\ worker'[v].item = worker[v].item
                /\ worker[v].item \in Items /\ worker'[v].pc \notin {"idle", "claiming"}
                /\ generation' = generation /\ tainted' = tainted
  BY GenerationCarried DEF Load
<1>7. Past'
  <2>1. ASSUME NEW v \in Workers
        PROVE  /\ worker'[v].gen <= generation'
               /\ worker'[v].pc \in {"idle", "claiming"} => worker'[v].gen = NoGen
    BY <1>1, <1>2, <1>4, <1>6 DEF Past, NoGen
  <2>2. ASSUME NEW i \in Items
        PROVE  item'[i].gen <= generation'
    BY <1>1, <1>4 DEF Past, NoGen
  <2> QED
    BY <2>1, <2>2 DEF Past
<1>8. Overtaken'
  <2>1. ASSUME NEW i \in tainted'
        PROVE  /\ item'[i].status # "none" /\ item'[i].gen < generation'
               /\ \A w \in Workers : worker'[w].item = i => worker'[w].gen < generation'
    <3>1. i \in Items
      BY NextTyped DEF TypeInv, TypeOK
    <3>2. CASE i \in tainted
      <4>1. item[i].status # "none" /\ item[i].gen < generation
        BY <3>2 DEF Overtaken
      <4>2. item'[i].status # "none" /\ item'[i].gen < generation'
        BY <1>1, <1>4, <3>1, <4>1 DEF NoGen
      <4>3. ASSUME NEW v \in Workers, worker'[v].item = i
            PROVE  worker'[v].gen < generation'
        <5>1. worker[v].item = i => worker[v].gen < generation
          BY <3>2 DEF Overtaken
        <5> QED
          BY <1>1, <1>2, <1>4, <1>6, <4>1, <4>3, <5>1 DEF NoGen
      <4> QED
        BY <4>2, <4>3
    <3>3. CASE i \notin tainted
      <4>1. generation' = generation + 1 /\ item[i].status # "none"
        BY <1>4, <3>3
      <4>2. item'[i].status # "none" /\ item'[i].gen < generation'
        BY <1>1, <1>4, <3>1, <4>1 DEF Past, NoGen
      <4>3. ASSUME NEW v \in Workers
            PROVE  worker'[v].gen < generation'
        BY <1>1, <1>2, <1>6, <4>1 DEF Past, NoGen
      <4> QED
        BY <4>2, <4>3
    <3> QED
      BY <3>2, <3>3
  <2> QED
    BY <2>1 DEF Overtaken
<1> QED
  BY <1>5, <1>7, <1>8, NextTyped

\* Only a first ingest makes a resume.
LEMMA WhoIngests ==
  ASSUME TypeInv, [Next]_vars, NEW r \in Resumes, resume[r].st = "free", resume'[r].st = "live"
  PROVE  \E w \in Workers, c \in Candidates :
           resume'[r].src = worker[w].item /\ FirstIngest(w, worker[w].item, c, r)
<1>1. ~Minor
  BY DEF Minor, SameRows
<1>2. resume' # resume
  OBVIOUS
<1>3. ~Erasure
  BY ErasureWrites DEF Deleted
<1>4. PICK w \in Workers : IngestFirst(w)
  BY <1>1, <1>2, <1>3, StepsSorted DEF Major, Register, RecoverDone, Complete, SaveReport, rows
<1>5. PICK i \in Items, c \in Candidates, q \in Resumes : worker[w].item = i /\ FirstIngest(w, i, c, q)
  BY <1>4, FirstIngestWrites
<1>6. q = r /\ resume'[r].src = i
  BY <1>2, <1>5 DEF FirstIngest, NewOrReused
<1> QED
  BY <1>5, <1>6

\* No step creates a resume from input registered before its subject was
\* erased, whichever transactions the erasure fell between.
THEOREM ErasureOutrunsIngest == Spec => NothingIngestedAfterErasure
<1> DEFINE A == \A r \in Resumes : resume[r].st = "free" /\ resume'[r].st = "live" => resume'[r].src \notin tainted
<1>1. ASSUME TaintInv, [Next]_vars
      PROVE  [A]_vars
  <2>1. ASSUME NEW r \in Resumes, resume[r].st = "free", resume'[r].st = "live"
        PROVE  resume'[r].src \notin tainted
    <3>1. PICK w \in Workers, c \in Candidates :
            resume'[r].src = worker[w].item /\ FirstIngest(w, worker[w].item, c, r)
      BY <1>1, <2>1, WhoIngests DEF TaintInv
    <3>2. worker[w].gen = generation /\ generation \in Nat
      BY <1>1, <3>1 DEF FirstIngest, TaintInv, TypeInv, TypeOK
    <3> QED
      BY <1>1, <3>1, <3>2 DEF TaintInv, Overtaken
  <2> QED
    BY <2>1
<1> QED
  BY <1>1, InitTaint, NextTaint, PTL DEF Spec, NothingIngestedAfterErasure

-----------------------------------------------------------------------------
(***************************************************************************)
(* The refinement: every transaction is, for every item, one of the moves  *)
(* of ScreeningContract or none.                                           *)
(***************************************************************************)

\* The mapping of one item, from its row and its reference.
Phase(row) ==
  CASE row.status \in {"none", "done", "deleted"} -> row.status
    [] row.status \in {"pending", "processing"} -> "open"
    [] row.status = "failed" -> IF row.error = FreshUpload THEN "refused" ELSE "failed"

KeptBy(row, ref) ==
  IF row.text THEN "copy"
  ELSE IF ref.resume = None THEN "nothing"
  ELSE IF ref.report = None THEN "reference" ELSE "bound"

\* One of the contract's moves from phase p and k kept to phase q and l kept.
Moves(p, k, q, l) ==
  \/ q = p /\ l = k
  \/ Contract!Registered(p, q, l) \/ Contract!Ingested(p, k, q, l) \/ Contract!Evaluated(p, k, q, l)
  \/ Contract!Completed(p, k, q, l) \/ Contract!Failed(p, k, q, l) \/ Contract!Refused(p, k, q, l)
  \/ Contract!Retried(p, k, q, l) \/ Contract!InputLost(p, q, l) \/ Contract!Deleted(p, q, l)

\* The moves of one item, in terms of its rows.
ItemMoves(i) == Moves(Phase(item[i]), KeptBy(item[i], input[i]), Phase(item'[i]), KeptBy(item'[i], input'[i]))

LEMMA MovesMakeContract ==
  ASSUME \A i \in Items : ItemMoves(i)
  PROVE  Contract!Next
<1>1. ASSUME NEW i \in Items
      PROVE  Moves(phaseOf[i], keptOf[i], phaseOf'[i], keptOf'[i])
  <2>1. phaseOf[i] = Phase(item[i]) /\ keptOf[i] = KeptBy(item[i], input[i])
    BY DEF phaseOf, keptOf, Phase, KeptBy, HasInput
  <2>2. phaseOf'[i] = Phase(item'[i]) /\ keptOf'[i] = KeptBy(item'[i], input'[i])
    BY DEF phaseOf, keptOf, Phase, KeptBy, HasInput
  <2>3. Moves(Phase(item[i]), KeptBy(item[i], input[i]), Phase(item'[i]), KeptBy(item'[i], input'[i]))
    BY DEF ItemMoves
  <2> QED
    BY <2>1, <2>2, <2>3
<1> QED
  BY <1>1 DEF Moves, Contract!Next

\* The phase of a row in each of its states.
LEMMA Phases ==
  ASSUME NEW row
  PROVE  /\ row.status = "none" => Phase(row) = "none"
         /\ row.status = "done" => Phase(row) = "done"
         /\ row.status = "deleted" => Phase(row) = "deleted"
         /\ row.status \in {"pending", "processing"} => Phase(row) = "open"
         /\ row.status = "failed" /\ row.error = FreshUpload => Phase(row) = "refused"
         /\ row.status = "failed" /\ row.error # FreshUpload => Phase(row) = "failed"
BY DEF Phase

\* Every row is in one of them.
LEMMA PhasesOnly ==
  ASSUME NEW row \in ItemRows
  PROVE  /\ Phase(row) = "none" => row.status = "none"
         /\ row.status = "failed" => Phase(row) \in {"failed", "refused"}
BY DEF Phase, ItemRows, Statuses

\* Rows that look alike map alike.
LEMMA SamePhase ==
  ASSUME NEW row, NEW row2, row2.status = row.status, row2.error = row.error
  PROVE  Phase(row2) = Phase(row)
BY DEF Phase

\* An item nobody touches, or that only loses its input, makes no other move.
LEMMA RestingMoves ==
  ASSUME TypeInv, OneInput, NEW i \in Items,
         item'[i].status = item[i].status, item'[i].error = item[i].error,
         item'[i].text = item[i].text, input'[i] = input[i] \/ input'[i] = NoInput
  PROVE  ItemMoves(i)
<1>1. Phase(item'[i]) = Phase(item[i])
  BY SamePhase
<1>2. \/ KeptBy(item'[i], input'[i]) = KeptBy(item[i], input[i])
      \/ KeptBy(item'[i], input'[i]) = "nothing"
  BY NoInputEmpty DEF KeptBy
<1> QED
  BY <1>1, <1>2 DEF ItemMoves, Moves, Contract!InputLost

\* Losing the copy too.
LEMMA SweptMoves ==
  ASSUME TypeInv, OneInput, NEW i \in Items, input'[i] = input[i],
         item'[i].status = item[i].status, item'[i].error = item[i].error,
         item[i].text, ~item'[i].text
  PROVE  ItemMoves(i)
<1>1. Phase(item'[i]) = Phase(item[i])
  BY SamePhase
<1>2. KeptBy(item'[i], input'[i]) = "nothing"
  BY DEF KeptBy, OneInput, HasInput
<1> QED
  BY <1>1, <1>2 DEF ItemMoves, Moves, Contract!InputLost

ContractInv == LinkInv /\ ReportInv

\* Registration, retry and deletion.
LEMMA OrganisationMoves ==
  ASSUME ContractInv, Organisation, NEW i \in Items
  PROVE  ItemMoves(i)
<1> DEFINE row == item[i]
           row2 == item'[i]
<1>0. TypeInv /\ OneInput /\ row \in ItemRows
  BY DEF ContractInv, LinkInv, ReportInv, TypeInv, TypeOK
<1>1. ASSUME NEW b \in Batches, NEW S \in SUBSET Items \ {{}}, Register(b, S)
      PROVE  ItemMoves(i)
  <2>1. CASE i \in S
    <3>1. row.status = "none" /\ row2.status = "pending" /\ row2.text = TRUE
      BY <1>1, <2>1 DEF Register, NoItem
    <3>2. Phase(row) = "none" /\ Phase(row2) = "open" /\ KeptBy(row2, input'[i]) = "copy"
      BY <3>1, Phases DEF KeptBy
    <3> QED
      BY <3>2 DEF ItemMoves, Moves, Contract!Registered
  <2>2. CASE i \notin S
    BY <1>0, <1>1, <2>2, RestingMoves DEF Register
  <2> QED
    BY <2>1, <2>2
<1>2. ASSUME NEW b \in Batches, Requeue(b)
      PROVE  ItemMoves(i)
  <2>1. CASE BatchOf[i] = b /\ Retryable(i)
    <3> DEFINE next == [item[i] EXCEPT !.status = "pending", !.error = "none", !.claimedAt = NoTime]
    <3>1. row2 = next
      BY <1>2, <2>1 DEF Requeue
    <3>2. next.status = "pending" /\ next.text = row.text
      BY <1>0 DEF ItemRows
    <3> HIDE DEF next
    <3>3. input'[i] = input[i]
      BY <1>2 DEF Requeue
    <3>4. Phase(row) = "failed" /\ Phase(row2) = "open"
      BY <2>1, <3>1, <3>2, Phases DEF Retryable
    <3>5. KeptBy(row, input[i]) # "nothing" /\ KeptBy(row2, input'[i]) = KeptBy(row, input[i])
      BY <2>1, <3>1, <3>2, <3>3 DEF Retryable, KeptBy, ResumeLive
    <3> QED
      BY <3>4, <3>5 DEF ItemMoves, Moves, Contract!Retried
  <2>2. CASE ~(BatchOf[i] = b /\ Retryable(i))
    BY <1>0, <1>2, <2>2, RestingMoves DEF Requeue
  <2> QED
    BY <2>1, <2>2
<1>3. ASSUME NEW b \in Batches, DeleteBatch(b)
      PROVE  ItemMoves(i)
  <2>1. CASE BatchOf[i] = b /\ Registered(i)
    <3>1. row2.status = "deleted" /\ row2.text = FALSE /\ input'[i] = NoInput
      BY <1>3, <2>1 DEF DeleteBatch, NoItem
    <3>2. Phase(row) # "none" /\ Phase(row2) = "deleted" /\ KeptBy(row2, input'[i]) = "nothing"
      BY <1>0, <2>1, <3>1, Phases, PhasesOnly, NoInputEmpty DEF KeptBy, Registered
    <3> QED
      BY <3>2 DEF ItemMoves, Moves, Contract!Deleted
  <2>2. CASE ~(BatchOf[i] = b /\ Registered(i))
    BY <1>0, <1>3, <2>2, RestingMoves DEF DeleteBatch
  <2> QED
    BY <2>1, <2>2
<1> QED
  BY <1>1, <1>2, <1>3 DEF Organisation

\* The clock, retention and erasure.
LEMMA PassiveMoves ==
  ASSUME ContractInv, Tick \/ SweepText \/ SweepInputs \/ Erasure, NEW i \in Items
  PROVE  ItemMoves(i)
<1>0. TypeInv /\ OneInput /\ item[i] \in ItemRows
  BY DEF ContractInv, LinkInv, ReportInv, TypeInv, TypeOK
<1>1. CASE Tick \/ SweepInputs
  BY <1>0, <1>1, RestingMoves DEF Tick, SweepInputs
<1>2. CASE SweepText
  <2> DEFINE next == [item[i] EXCEPT !.text = FALSE]
  <2>1. item'[i] = item[i] \/ (item[i].text /\ item'[i] = next)
    BY <1>2 DEF SweepText
  <2>2. next.status = item[i].status /\ next.error = item[i].error /\ next.text = FALSE
    BY <1>0 DEF ItemRows
  <2>3. input' = input
    BY <1>2 DEF SweepText
  <2> HIDE DEF next
  <2> QED
    BY <1>0, <2>1, <2>2, <2>3, RestingMoves, SweptMoves
<1>3. CASE Erasure
  <2>1. PICK cs \in SUBSET Candidates, rs \in SUBSET Resumes, ps \in SUBSET Reports :
          Deleted(cs, ResumesGone(cs, rs), ReportsGone(cs, ps))
    BY <1>0, <1>3, ErasureWrites
  <2> QED
    BY <1>0, <2>1, RestingMoves DEF Deleted
<1> QED
  BY <1>1, <1>2, <1>3

\* A claim refuses what is blocked and opens nothing that was closed.
LEMMA ClaimMoves ==
  ASSUME ContractInv, NEW w \in Workers, Claim(w), NEW i \in Items
  PROVE  ItemMoves(i)
<1> DEFINE b == worker[w].batch
           now == worker[w].lease
           refused == [j \in Items |->
                         IF BatchOf[j] = b /\ Blocked(j)
                         THEN [item[j] EXCEPT !.status = "failed", !.error = FreshUpload, !.claimedAt = NoTime]
                         ELSE item[j]]
<1>0. TypeInv /\ OneInput /\ item[i] \in ItemRows
  BY DEF ContractInv, LinkInv, ReportInv, TypeInv, TypeOK
<1>1. \/ item' = refused
      \/ \E j \in Items : /\ ~Blocked(j) /\ Claimable(j, now)
                          /\ item' = [refused EXCEPT ![j].status = "processing", ![j].claimedAt = now]
  BY DEF Claim
<1>2. input' = input
  BY DEF Claim
<1>3. CASE Blocked(i) /\ BatchOf[i] = b
  <2> DEFINE next == [item[i] EXCEPT !.status = "failed", !.error = FreshUpload, !.claimedAt = NoTime]
  <2>1. item'[i] = next
    BY <1>1, <1>3
  <2>2. next.status = "failed" /\ next.error = FreshUpload /\ next.text = item[i].text
    BY <1>0 DEF ItemRows
  <2> HIDE DEF next
  <2>3. Phase(item[i]) \in {"open", "failed", "refused"} /\ Phase(item'[i]) = "refused"
    BY <1>3, <2>1, <2>2, Phases DEF Blocked
  <2>4. KeptBy(item'[i], input'[i]) = KeptBy(item[i], input[i])
    BY <1>2, <2>1, <2>2 DEF KeptBy
  <2> QED
    BY <2>3, <2>4 DEF ItemMoves, Moves, Contract!Refused
<1>4. CASE ~(Blocked(i) /\ BatchOf[i] = b)
  <2>1. refused[i] = item[i] /\ refused = [j \in Items |-> refused[j]]
    BY <1>4
  <2> HIDE DEF refused
  <2>2. CASE item'[i] = item[i]
    BY <1>0, <1>2, <2>2, RestingMoves
  <2>3. CASE item'[i] # item[i]
    <3> DEFINE next == [item[i] EXCEPT !.status = "processing", !.claimedAt = now]
    <3>1. Claimable(i, now) /\ item'[i] = next
      BY <1>1, <2>1, <2>3
    <3>2. next.status = "processing" /\ next.text = item[i].text
      BY <1>0 DEF ItemRows
    <3> HIDE DEF next
    <3>3. Phase(item[i]) = "open" /\ Phase(item'[i]) = "open"
      BY <3>1, <3>2, Phases DEF Claimable, StaleProcessing
    <3>4. KeptBy(item'[i], input'[i]) = KeptBy(item[i], input[i])
      BY <1>2, <3>1, <3>2 DEF KeptBy
    <3> QED
      BY <3>3, <3>4 DEF ItemMoves, Moves
  <2> QED
    BY <2>2, <2>3
<1> QED
  BY <1>3, <1>4

\* An ingest turns the copy into a reference, a retry's finds it turned.
LEMMA IngestMoves ==
  ASSUME ContractInv, NEW w \in Workers, IngestFirst(w) \/ IngestRetry(w), NEW i \in Items
  PROVE  ItemMoves(i)
<1>0. TypeInv /\ OneInput /\ item[i] \in ItemRows
  BY DEF ContractInv, LinkInv, ReportInv, TypeInv, TypeOK
<1>1. CASE IngestFirst(w)
  <2>1. PICK j \in Items, c \in Candidates, r \in Resumes : worker[w].item = j /\ FirstIngest(w, j, c, r)
    BY <1>0, <1>1, FirstIngestWrites
  <2>2. item'[i].status = item[i].status /\ item'[i].error = item[i].error
    BY <2>1 DEF FirstIngest, TextTaken
  <2>3. CASE i = j
    <3>1. /\ item[i].status = "processing" /\ item[i].text /\ ~item'[i].text
          /\ input'[i].resume = r /\ input'[i].report = None /\ r # None
      BY <2>1, <2>3, NotARow DEF FirstIngest, TextTaken
    <3>2. Phase(item[i]) = "open" /\ Phase(item'[i]) = "open"
      BY <2>2, <3>1, Phases
    <3>3. KeptBy(item[i], input[i]) = "copy" /\ KeptBy(item'[i], input'[i]) = "reference"
      BY <3>1 DEF KeptBy
    <3> QED
      BY <3>2, <3>3 DEF ItemMoves, Moves, Contract!Ingested
  <2>4. CASE i # j
    <3>1. item'[i] = item[i] /\ input'[i] = input[i]
      BY <1>0, <1>1, <2>1, <2>4 DEF FirstIngest, TypeInv, TypeOK, IngestFirst
    <3> QED
      BY <1>0, <3>1, RestingMoves
  <2> QED
    BY <2>3, <2>4
<1>2. CASE IngestRetry(w)
  <2>1. PICK j \in Items : j = worker[w].item
    BY <1>0, <1>2, WorkerTyped DEF IngestRetry, At, Active, Busy
  <2>2. HasInput(j) /\ ~item[j].text
    BY <1>0, <1>2, <2>1 DEF IngestRetry, CanRetain, HasInput, OneInput
  <2> DEFINE next == [item[j] EXCEPT !.text = FALSE]
  <2>3. item[j] \in ItemRows
    BY <1>0 DEF TypeInv, TypeOK
  <2>4. next.status = item[j].status /\ next.error = item[j].error /\ next.text = FALSE
    BY <2>3 DEF ItemRows
  <2>5. item' = [item EXCEPT ![j] = next] /\ input' = input
    BY <1>2, <2>1 DEF IngestRetry
  <2> HIDE DEF next
  <2>6. item'[i] = IF i = j THEN next ELSE item[i]
    BY <1>0, <2>5 DEF TypeInv, TypeOK
  <2>7. item[j].text = FALSE
    BY <2>2, <2>3 DEF ItemRows
  <2> QED
    BY <1>0, <2>4, <2>5, <2>6, <2>7, RestingMoves
<1> QED
  BY <1>1, <1>2

\* Saving binds the reference; an item completes only from a saved report.
LEMMA SaveMoves ==
  ASSUME ContractInv, NEW w \in Workers,
         SaveReport(w) \/ RecoverDone(w) \/ Complete(w), NEW i \in Items
  PROVE  ItemMoves(i)
<1>0. TypeInv /\ OneInput /\ item[i] \in ItemRows
  BY DEF ContractInv, LinkInv, ReportInv, TypeInv, TypeOK
<1>1. CASE SaveReport(w)
  <2>1. PICK j \in Items, p \in Reports : worker[w].item = j /\ NewReport(w, j, worker[w].cand, p)
    BY <1>0, <1>1, SaveWrites
  <2>2. item'[i].status = item[i].status /\ item'[i].error = item[i].error
    BY <2>1 DEF NewReport, TextTaken
  <2>3. CASE i = j
    <3>1. /\ item[i].status = "processing" /\ HasInput(i) /\ ~item[i].text /\ ~item'[i].text
          /\ input[i].report = None /\ input'[i].resume = input[i].resume
          /\ input'[i].report = p /\ p # None
      BY <1>0, <2>1, <2>3, NotARow DEF NewReport, TextTaken, OneInput
    <3>2. Phase(item[i]) = "open" /\ Phase(item'[i]) = "open"
      BY <2>2, <3>1, Phases
    <3>3. KeptBy(item[i], input[i]) = "reference" /\ KeptBy(item'[i], input'[i]) = "bound"
      BY <3>1 DEF KeptBy, HasInput
    <3> QED
      BY <3>2, <3>3 DEF ItemMoves, Moves, Contract!Evaluated
  <2>4. CASE i # j
    <3>1. item'[i] = item[i] /\ input'[i] = input[i]
      BY <1>0, <1>1, <2>1, <2>4 DEF SaveReport, NewReport, TypeInv, TypeOK
    <3> QED
      BY <1>0, <3>1, RestingMoves
  <2> QED
    BY <2>3, <2>4
<1>2. ASSUME NEW j \in Items, \E c, r, p : Done(w, j, c, r, p),
             ~item[j].text, HasInput(j) => input[j].report # None
      PROVE  ItemMoves(i)
  <2>1. CASE i = j
    <3>1. /\ item[i].status = "processing" /\ item'[i].status = "done" /\ ~item'[i].text
          /\ input'[i] = NoInput
      BY <1>2, <2>1 DEF Done
    <3>2. Phase(item[i]) = "open" /\ Phase(item'[i]) = "done"
      BY <3>1, Phases
    <3>3. KeptBy(item[i], input[i]) \in {"bound", "nothing"} /\ KeptBy(item'[i], input'[i]) = "nothing"
      BY <1>2, <2>1, <3>1, NoInputEmpty DEF KeptBy, HasInput
    <3> QED
      BY <3>2, <3>3 DEF ItemMoves, Moves, Contract!Completed
  <2>2. CASE i # j
    <3>1. item'[i] = item[i] /\ input'[i] = input[i]
      BY <1>2, <2>2 DEF Done
    <3> QED
      BY <1>0, <3>1, RestingMoves
  <2> QED
    BY <2>1, <2>2
<1>3. CASE RecoverDone(w)
  <2>1. PICK j \in Items, r \in Resumes, p \in Reports :
          input[j].resume = r /\ input[j].report = p /\ Done(w, j, resume[r].cand, r, p)
    BY <1>0, <1>3, CompletionWrites
  <2>2. HasInput(j) /\ input[j].report # None /\ ~item[j].text
    BY <1>0, <2>1, NotARow DEF HasInput, OneInput
  <2> QED
    BY <1>2, <2>1, <2>2
<1>4. CASE Complete(w)
  <2>1. PICK j \in Items : /\ worker[w].item = j /\ worker[w].pc = "complete"
                           /\ Done(w, j, worker[w].cand, worker[w].resume, worker[w].report)
    BY <1>0, <1>4, CompletionWrites
  <2>2. /\ worker[w].report \in Reports /\ report[worker[w].report].st # "free"
        /\ report[worker[w].report].src = j
    BY <2>1 DEF ContractInv, LinkInv, Carried, Carries
  <2>3. Spent(j)
    BY <2>2 DEF ContractInv, ReportInv, ReportsSpend
  <2> QED
    BY <1>2, <2>1, <2>3 DEF Spent
<1> QED
  BY <1>1, <1>3, <1>4

\* A failure keeps the input or, after an erasure, nothing.
LEMMA FailureMoves ==
  ASSUME ContractInv, NEW w \in Workers, Cleanup(w) \/ Fail(w), NEW i \in Items
  PROVE  ItemMoves(i)
<1> DEFINE j == worker[w].item
<1>0. TypeInv /\ OneInput /\ item[i] \in ItemRows
  BY DEF ContractInv, LinkInv, ReportInv, TypeInv, TypeOK
<1>1. j \in Items /\ item[j] \in ItemRows
  <2>1. Active(w)
    BY DEF Cleanup, Fail, At, Active, Busy
  <2> QED
    BY <1>0, <2>1, WorkerTyped DEF TypeInv, TypeOK
<1>2. ASSUME HoldsLiveLease(w), Scrubbed(j)
      PROVE  ItemMoves(i)
  <2> DEFINE next == [item[j] EXCEPT !.status = "failed", !.error = Erased, !.text = FALSE,
                                     !.cand = None, !.resume = None, !.report = None]
  <2>1. next.status = "failed" /\ next.error = Erased /\ next.text = FALSE
    BY <1>1 DEF ItemRows
  <2>2. item' = [item EXCEPT ![j] = next] /\ input' = [input EXCEPT ![j] = NoInput]
    BY <1>2 DEF Scrubbed
  <2> HIDE DEF next
  <2>3. CASE i = j
    <3>1. item[i].status = "processing" /\ item'[i] = next /\ input'[i] = NoInput
      BY <1>0, <1>1, <1>2, <2>2, <2>3, HoldersItem DEF TypeInv, TypeOK
    <3>2. Phase(item[i]) = "open" /\ Phase(item'[i]) = "failed"
      BY <2>1, <3>1, Phases DEF FreshUpload, Erased
    <3>3. KeptBy(item'[i], input'[i]) = "nothing"
      BY <2>1, <3>1, NoInputEmpty DEF KeptBy
    <3> QED
      BY <3>2, <3>3 DEF ItemMoves, Moves, Contract!Failed
  <2>4. CASE i # j
    BY <1>0, <2>2, <2>4, RestingMoves DEF TypeInv, TypeOK
  <2> QED
    BY <2>3, <2>4
<1>3. ASSUME HoldsLiveLease(w), Fail(w),
             item' = [item EXCEPT ![j].status = "failed", ![j].error = worker[w].err], input' = input
      PROVE  ItemMoves(i)
  <2> DEFINE next == [item[j] EXCEPT !.status = "failed", !.error = worker[w].err]
  <2>1. next.status = "failed" /\ next.text = item[j].text
    BY <1>1 DEF ItemRows
  <2>2. item' = [item EXCEPT ![j] = next]
    BY <1>3
  <2> HIDE DEF next
  <2>3. CASE i = j
    <3>1. item[i].status = "processing" /\ item'[i] = next
      BY <1>0, <1>1, <1>3, <2>2, <2>3, HoldersItem DEF TypeInv, TypeOK
    <3>2. Phase(item[i]) = "open" /\ Phase(item'[i]) \in {"failed", "refused"}
      BY <2>1, <3>1, Phases
    <3>3. KeptBy(item'[i], input'[i]) = KeptBy(item[i], input[i])
      BY <1>3, <2>1, <2>3, <3>1 DEF KeptBy
    <3> QED
      BY <3>2, <3>3 DEF ItemMoves, Moves, Contract!Failed, Contract!Refused
  <2>4. CASE i # j
    BY <1>0, <1>3, <2>2, <2>4, RestingMoves DEF TypeInv, TypeOK
  <2> QED
    BY <2>3, <2>4
<1>4. ASSUME UNCHANGED <<item, input>>
      PROVE  ItemMoves(i)
  BY <1>0, <1>4, RestingMoves
<1> QED
  BY <1>2, <1>3, <1>4 DEF Cleanup, Fail

\* Each step of the calls and of everybody else is a step of the contract.
LEMMA NextMoves ==
  ASSUME ContractInv, [Next]_vars, NEW i \in Items
  PROVE  ItemMoves(i)
<1>0. TypeInv /\ OneInput
  BY DEF ContractInv, LinkInv, ReportInv
<1>1. ASSUME UNCHANGED <<item, input>>
      PROVE  ItemMoves(i)
  BY <1>0, <1>1, RestingMoves
<1>2. ASSUME NEW w \in Workers, Step(w)
      PROVE  ItemMoves(i)
  <2>1. CASE Load(w) \/ RecoverRefused(w) \/ RecoverNothing(w) \/ RecoverUnusable(w) \/ Resolve(w)
    BY <1>1, <2>1 DEF Load, RecoverRefused, RecoverNothing, RecoverUnusable, Resolve
  <2>2. CASE IngestErased(w) \/ IngestStale(w) \/ IngestUnavailable(w) \/ Evaluate(w) \/ SaveRefused(w)
               \/ Confirm(w) \/ CompleteRefused(w) \/ CompleteRolledBack(w) \/ Farm(w)
    BY <1>1, <2>2 DEF IngestErased, IngestStale, IngestUnavailable, Evaluate, Require,
                      SaveRefused, Confirm, CompleteRefused, CompleteRolledBack, Farm
  <2> QED
    BY <1>2, <2>1, <2>2, ClaimMoves, IngestMoves, SaveMoves, FailureMoves
       DEF Step, Recover, Ingest, Save, Finish
<1>3. ASSUME NEW w \in Workers, (\E b \in Batches : BeginClaim(w, b)) \/ Interrupt(w)
      PROVE  ItemMoves(i)
  BY <1>1, <1>3 DEF BeginClaim, Interrupt, PipelineFails, Abandon, Stop
<1>4. ASSUME UNCHANGED vars
      PROVE  ItemMoves(i)
  BY <1>1, <1>4 DEF vars
<1> QED
  BY <1>2, <1>3, <1>4, OrganisationMoves, PassiveMoves DEF Next

\* An item from before the migration starts open with its copy, the others
\* do not exist yet.
LEMMA InitImplements == Init => Contract!Init
<1> SUFFICES ASSUME Init PROVE Contract!Init
  OBVIOUS
<1>1. ASSUME NEW i \in Items
      PROVE  \/ phaseOf[i] = "open" /\ keptOf[i] = "copy"
             \/ phaseOf[i] = "none" /\ keptOf[i] = "nothing"
  <2>1. CASE i \in Legacy
    BY <2>1 DEF Init, NoItem, phaseOf, keptOf
  <2>2. CASE i \notin Legacy
    BY <2>2, NoInputEmpty DEF Init, NoItem, phaseOf, keptOf, HasInput
  <2> QED
    BY <2>1, <2>2
<1>2. phaseOf \in [Items -> {"none", "open"}]
  BY <1>1 DEF phaseOf
<1>3. keptOf = [i \in Items |-> IF phaseOf[i] = "open" THEN "copy" ELSE "nothing"]
  <2>1. keptOf = [i \in Items |-> keptOf[i]]
    BY DEF keptOf
  <2> QED
    BY <1>1, <2>1
<1> QED
  BY <1>2, <1>3 DEF Contract!Init

\* Screening batches implement their contract: what is kept for a retry is never
\* regained, an item completes only from a saved report, and `done`, `refused`
\* and `deleted` are ends, whatever calls, erasures, sweeps and crashes interleave.
THEOREM ContractImplemented == Spec => ImplementsContract
<1>1. Init => ContractInv
  BY InitLinks, InitReports DEF ContractInv
<1>2. ContractInv /\ [Next]_vars => ContractInv'
  BY NextLinks, NextReports DEF ContractInv
<1>3. ContractInv /\ [Next]_vars => [Contract!Next]_(Contract!contractVars)
  BY NextMoves, MovesMakeContract
<1> QED
  BY <1>1, <1>2, <1>3, InitImplements, PTL DEF Spec, ImplementsContract, Contract!Spec

\* The phase tells the status of a row that has one of its type.
LEMMA PhaseTells ==
  ASSUME NEW row \in ItemRows
  PROVE  /\ Phase(row) \in {"done", "deleted"} => row.status = Phase(row)
         /\ Phase(row) = "refused" => row.status = "failed" /\ row.error = FreshUpload
BY DEF Phase, ItemRows, Statuses

\* What every step of Screening does to one item.
LEMMA StepMoves ==
  ASSUME ContractInv, [Next]_vars, NEW i \in Items
  PROVE  ItemMoves(i) /\ item'[i] \in ItemRows
<1>1. TypeInv'
  BY NextTyped DEF ContractInv, LinkInv
<1>2. ItemMoves(i)
  BY NextMoves
<1> QED
  BY <1>1, <1>2 DEF TypeInv, TypeOK

\* A settled success is never claimed, failed or retried again, whatever calls
\* are still in flight for the item.
THEOREM DoneStaysDone == Spec => DoneIsFinal
<1> DEFINE A == \A i \in Items : item[i].status = "done" => item'[i].status \in {"done", "deleted"}
<1>1. ASSUME ContractInv, [Next]_vars
      PROVE  [A]_vars
  <2>1. ASSUME NEW i \in Items, item[i].status = "done"
        PROVE  item'[i].status \in {"done", "deleted"}
    <3>1. ItemMoves(i) /\ item'[i] \in ItemRows
      BY <1>1, StepMoves
    <3>2. Phase(item[i]) = "done"
      BY <2>1, Phases
    <3>3. Phase(item'[i]) \in {"done", "deleted"}
      BY <3>1, <3>2 DEF ItemMoves, Moves, Contract!Registered, Contract!Ingested, Contract!Evaluated,
           Contract!Completed, Contract!Failed, Contract!Refused, Contract!Retried,
           Contract!InputLost, Contract!Deleted
    <3> QED
      BY <3>1, <3>3, PhaseTells
  <2> QED
    BY <2>1
<1>2. Init => ContractInv
  BY InitLinks, InitReports DEF ContractInv
<1>3. ContractInv /\ [Next]_vars => ContractInv'
  BY NextLinks, NextReports DEF ContractInv
<1> QED
  BY <1>1, <1>2, <1>3, PTL DEF Spec, DoneIsFinal

\* An item recorded as needing a fresh upload is never evaluated or retried.
THEOREM RefusedStaysRefused == Spec => RefusalIsFinal
<1> DEFINE A == \A i \in Items : Refused(i) => Refused(i)' \/ item'[i].status = "deleted"
<1>1. ASSUME ContractInv, [Next]_vars
      PROVE  [A]_vars
  <2>1. ASSUME NEW i \in Items, Refused(i)
        PROVE  Refused(i)' \/ item'[i].status = "deleted"
    <3>1. ItemMoves(i) /\ item'[i] \in ItemRows
      BY <1>1, StepMoves
    <3>2. Phase(item[i]) = "refused"
      BY <2>1, Phases DEF Refused
    <3>3. Phase(item'[i]) \in {"refused", "deleted"}
      BY <3>1, <3>2 DEF ItemMoves, Moves, Contract!Registered, Contract!Ingested, Contract!Evaluated,
           Contract!Completed, Contract!Failed, Contract!Refused, Contract!Retried,
           Contract!InputLost, Contract!Deleted
    <3> QED
      BY <3>1, <3>3, PhaseTells DEF Refused
  <2> QED
    BY <2>1
<1>2. Init => ContractInv
  BY InitLinks, InitReports DEF ContractInv
<1>3. ContractInv /\ [Next]_vars => ContractInv'
  BY NextLinks, NextReports DEF ContractInv
<1> QED
  BY <1>1, <1>2, <1>3, PTL DEF Spec, RefusalIsFinal

=============================================================================
