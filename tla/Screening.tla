------------------------------ MODULE Screening ------------------------------
(***************************************************************************)
(* Screening batches: an organisation registers resumes as batch items and *)
(* calls `process`; every call claims one item at a time under a lease,    *)
(* ingests it (candidate + resume), evaluates it, saves a report and       *)
(* completes the item.  Calls overlap, stall, are cancelled and crash;     *)
(* erasure, retention and retry run between any two of their transactions. *)
(*                                                                         *)
(* Granularity: one action per committed transaction.  SQLite orders the   *)
(* writers and PostgreSQL holds the row locks the store asks for, so the   *)
(* statements of one transaction are not interleaved; whatever the code    *)
(* reads before its first write, or in a transaction of its own, is a step *)
(* of its own whose result the worker carries and may find stale.          *)
(***************************************************************************)
EXTENDS Integers, FiniteSets

CONSTANTS
  Items, Batches, BatchOf,      \* batch_items rows and the batch of each
  Texts, TextOf,                \* resume texts and the text of each item
  Persons, PersonOf,            \* the e-mail hint found in a text, or None
  ShortTexts,                   \* texts too short to be fingerprinted
  Legacy,                       \* items older than migration 0026
  Workers,                      \* concurrent `process` calls
  Candidates, Resumes, Reports, \* row ids, each used at most once
  None,
  ClaimTimeout,                 \* screening_claim_timeout_seconds
  InputTTL,                     \* ret_batch_item_days
  MaxClock, MaxErasures         \* bounds on what the environment does

ASSUME ConstantsOK ==
  /\ BatchOf \in [Items -> Batches]
  /\ TextOf \in [Items -> Texts]
  /\ PersonOf \in [Texts -> Persons \cup {None}]
  /\ ShortTexts \subseteq Texts /\ Legacy \subseteq Items
  /\ ClaimTimeout \in Nat /\ InputTTL \in Nat /\ MaxClock \in Nat /\ MaxErasures \in Nat
  /\ None \notin Items \cup Batches \cup Persons \cup Candidates \cup Resumes \cup Reports

VARIABLES
  clock,       \* the wall clock every _now() samples
  generation,  \* screening_erasure_state.generation
  batch,       \* screening_batches: "none", "live" or "deleted"
  item,        \* batch_items
  input,       \* screening_item_inputs: the private retry reference
  candidate, resume, report,
  worker,      \* one record per `process` call in flight
  tainted      \* history: items registered before their subject was erased

rows == <<candidate, resume, report>>
vars == <<clock, generation, batch, item, input, candidate, resume, report, worker, tainted>>

NoTime == -1
NoGen == -1

FreshUpload == "fresh_upload_required"
Erased == "erased"          \* candidate_erased, resume_erased, report_erased
Ordinary == "ordinary"      \* every other reason code, which keeps the input
Errors == {"none", FreshUpload, Erased, Ordinary}

Statuses == {"none", "pending", "processing", "done", "failed", "deleted"}
RowStates == {"free", "live", "erased"}

\* Points of ScreeningService.process / ingest_resume between transactions.
Busy == {"load", "recover", "resolve", "ingest", "farm", "require", "recheck",
         "save", "confirm", "complete", "cleanup", "failing"}
Stages == {"idle", "claiming"} \cup Busy

NoItem == [status |-> "none", text |-> FALSE, gen |-> NoGen, claimedAt |-> NoTime,
           cand |-> None, resume |-> None, report |-> None, error |-> "none",
           created |-> 0]
NoInput == [resume |-> None, report |-> None, created |-> 0]
Idle == [pc |-> "idle", batch |-> None, lease |-> NoTime, item |-> None,
         expected |-> None, hasText |-> FALSE, gen |-> NoGen, cand |-> None,
         resume |-> None, report |-> None, err |-> "none", orphan |-> FALSE]

ItemRows == [status: Statuses, text: BOOLEAN, gen: Nat \cup {NoGen},
             claimedAt: Nat \cup {NoTime}, cand: Candidates \cup {None},
             resume: Resumes \cup {None}, report: Reports \cup {None},
             error: Errors, created: Nat]
InputRows == [resume: Resumes \cup {None}, report: Reports \cup {None}, created: Nat]
CandidateRows == [st: RowStates, person: Persons \cup {None}]
ResumeRows == [st: RowStates, cand: Candidates \cup {None}, text: Texts \cup {None},
               fp: BOOLEAN, src: Items \cup {None}]
ReportRows == [st: RowStates, cand: Candidates \cup {None}, src: Items \cup {None}]
WorkerRecs == [pc: Stages, batch: Batches \cup {None}, lease: Nat \cup {NoTime},
               item: Items \cup {None}, expected: Resumes \cup {None},
               hasText: BOOLEAN, gen: Nat \cup {NoGen}, cand: Candidates \cup {None},
               resume: Resumes \cup {None}, report: Reports \cup {None},
               err: Errors, orphan: BOOLEAN]

TypeOK ==
  /\ clock \in Nat
  /\ generation \in Nat
  /\ batch \in [Batches -> {"none", "live", "deleted"}]
  /\ item \in [Items -> ItemRows]
  /\ input \in [Items -> InputRows]
  /\ candidate \in [Candidates -> CandidateRows]
  /\ resume \in [Resumes -> ResumeRows]
  /\ report \in [Reports -> ReportRows]
  /\ worker \in [Workers -> WorkerRecs]
  /\ tainted \subseteq Items

-----------------------------------------------------------------------------
(* Predicates the store spells as WHERE clauses. *)

Registered(i) == item[i].status \notin {"none", "deleted"}

HasInput(i) == input[i].resume # None

\* _blocked_input: input nobody may use again without a fresh upload.
Blocked(i) ==
  /\ item[i].status \in {"pending", "processing", "failed"}
  /\ \/ item[i].error = FreshUpload
     \/ item[i].text /\ item[i].gen # generation

\* Mutant: a settled row that still carries its old claim passes for stale.
AnyOldClaimIsStale(i, now) ==
  item[i].claimedAt # NoTime /\ item[i].claimedAt < now - ClaimTimeout

StaleProcessing(i, now) ==
  /\ item[i].status = "processing"
  /\ \/ item[i].claimedAt = NoTime
     \/ item[i].claimedAt < now - ClaimTimeout

\* Mutants: the UPDATE that claims does not re-assert claimability; a claim
\* nobody honours is never taken over.
ClaimsWithoutRecheck(i, now) == item[i].status \in {"pending", "processing"}
ClaimsPendingOnly(i, now) == item[i].status = "pending"

Claimable(i, now) == item[i].status = "pending" \/ StaleProcessing(i, now)

Live(lease) == lease >= clock - ClaimTimeout

HoldsLease(w) ==
  LET i == worker[w].item
  IN  item[i].status = "processing" /\ item[i].claimedAt = worker[w].lease

HoldsLiveLease(w) == HoldsLease(w) /\ Live(worker[w].lease)

CandidateLive(c) == c # None /\ candidate[c].st = "live"
ResumeLive(r) == r # None /\ resume[r].st = "live"
ReportLive(p) == p # None /\ report[p].st = "live"

\* The status a read reports: counts() in SQL, _item_record() in Python.
EffectiveStatus(i) ==
  IF Blocked(i) THEN "failed"
  ELSE IF StaleProcessing(i, clock) THEN "pending" ELSE item[i].status

-----------------------------------------------------------------------------
Init ==
  /\ clock = 0
  /\ generation = 0
  /\ batch = [b \in Batches |-> IF \E i \in Legacy : BatchOf[i] = b THEN "live" ELSE "none"]
  /\ item = [i \in Items |->
               IF i \in Legacy THEN [NoItem EXCEPT !.status = "pending", !.text = TRUE]
                               ELSE NoItem]
  /\ input = [i \in Items |-> NoInput]
  /\ candidate = [c \in Candidates |-> [st |-> "free", person |-> None]]
  /\ resume = [r \in Resumes |->
                 [st |-> "free", cand |-> None, text |-> None, fp |-> FALSE, src |-> None]]
  /\ report = [p \in Reports |-> [st |-> "free", cand |-> None, src |-> None]]
  /\ worker = [w \in Workers |-> Idle]
  /\ tainted = {}

-----------------------------------------------------------------------------
(* The organisation's own operations. *)

\* create_batch and add_items: one transaction that registers a set of items
\* under the erasure generation it read.
Register(b, S) ==
  /\ batch[b] # "deleted"
  /\ \A i \in S : BatchOf[i] = b /\ item[i].status = "none"
  /\ batch' = [batch EXCEPT ![b] = "live"]
  /\ item' = [i \in Items |->
                IF i \in S
                THEN [NoItem EXCEPT !.status = "pending", !.text = TRUE,
                                    !.gen = generation, !.created = clock]
                ELSE item[i]]
  /\ UNCHANGED <<clock, generation, input, rows, worker, tainted>>

\* Mutant: retry does not look at the reason of the failure.
RetriesRefused(i) ==
  /\ item[i].status = "failed"
  /\ item[i].text => item[i].gen = generation
  /\ item[i].text \/ ResumeLive(input[i].resume)

\* requeue_failed: failed items go back to pending while they still have input.
Retryable(i) ==
  /\ item[i].status = "failed"
  /\ item[i].error # FreshUpload
  /\ item[i].text => item[i].gen = generation
  /\ item[i].text \/ ResumeLive(input[i].resume)

Requeue(b) ==
  /\ batch[b] = "live"
  /\ \E i \in Items : BatchOf[i] = b /\ Retryable(i)
  /\ item' = [i \in Items |->
                IF BatchOf[i] = b /\ Retryable(i)
                THEN [item[i] EXCEPT !.status = "pending", !.error = "none", !.claimedAt = NoTime]
                ELSE item[i]]
  /\ UNCHANGED <<clock, generation, batch, input, rows, worker, tainted>>

\* delete_batch: items and their private references cascade.
DeleteBatch(b) ==
  /\ batch[b] = "live"
  /\ batch' = [batch EXCEPT ![b] = "deleted"]
  /\ item' = [i \in Items |->
                IF BatchOf[i] = b /\ Registered(i) THEN [NoItem EXCEPT !.status = "deleted"]
                                                   ELSE item[i]]
  /\ input' = [i \in Items |-> IF BatchOf[i] = b THEN NoInput ELSE input[i]]
  /\ UNCHANGED <<clock, generation, rows, worker, tainted>>

-----------------------------------------------------------------------------
(* Erasure and retention. *)

\* Mutant: the triggers are missing.
ErasureUnnoticed == UNCHANGED generation

\* What the deletion triggers on candidates, resumes and reports do.
AdvanceGeneration == generation' = generation + 1

\* Delete these rows with everything the foreign keys take along: CASCADE from
\* candidate to resume and report and from those to the retry reference, SET
\* NULL on the item's links.  The deletion triggers advance the generation in
\* the same transaction (once per row in the code; only equality is ever
\* tested, so once per transaction here).
Delete(cs, rs, ps) ==
  LET rs1 == rs \cup {r \in Resumes : ResumeLive(r) /\ resume[r].cand \in cs}
      ps1 == ps \cup {p \in Reports : ReportLive(p) /\ report[p].cand \in cs}
  IN  /\ generation < MaxErasures
      /\ AdvanceGeneration
      /\ candidate' = [c \in Candidates |->
                         IF c \in cs THEN [candidate[c] EXCEPT !.st = "erased"] ELSE candidate[c]]
      /\ resume' = [r \in Resumes |->
                      IF r \in rs1 THEN [resume[r] EXCEPT !.st = "erased", !.fp = FALSE] ELSE resume[r]]
      /\ report' = [p \in Reports |->
                      IF p \in ps1 THEN [report[p] EXCEPT !.st = "erased"] ELSE report[p]]
      /\ input' = [i \in Items |->
                     IF input[i].resume \in rs1 \/ input[i].report \in ps1 THEN NoInput ELSE input[i]]
      /\ item' = [i \in Items |->
                    [item[i] EXCEPT !.cand = IF @ \in cs THEN None ELSE @,
                                    !.resume = IF @ \in rs1 THEN None ELSE @,
                                    !.report = IF @ \in ps1 THEN None ELSE @]]
      /\ UNCHANGED <<clock, batch, worker>>

\* Items already registered whose text is about this person.
ItemsAbout(p) == {i \in Items : Registered(i) /\ p # None /\ PersonOf[TextOf[i]] = p}

EraseCandidate(c) ==
  /\ CandidateLive(c)
  /\ Delete({c}, {}, {})
  /\ tainted' = tainted \cup ItemsAbout(candidate[c].person)
                        \cup {resume[r].src : r \in {q \in Resumes : ResumeLive(q) /\ resume[q].cand = c}}

\* delete_resume, and the `resumes` target of the retention sweep.
EraseResume(r) ==
  /\ ResumeLive(r)
  /\ Delete({}, {r}, {})
  /\ tainted' = tainted \cup {resume[r].src}
                        \cup {i \in ItemsAbout(PersonOf[resume[r].text]) : TextOf[i] = resume[r].text}

EraseReport(p) ==
  /\ ReportLive(p)
  /\ Delete({}, {}, {p})
  /\ UNCHANGED tainted

Expired(created) == created < clock - InputTTL

\* Retention, target batch_items: blank the text, keep the row.
SweepText ==
  LET due == {i \in Items : item[i].text /\ Expired(item[i].created)}
  IN  /\ due # {}
      /\ item' = [i \in Items |-> IF i \in due THEN [item[i] EXCEPT !.text = FALSE] ELSE item[i]]
      /\ UNCHANGED <<clock, generation, batch, input, rows, worker, tainted>>

\* Retention, target screening_item_inputs: delete the reference.
SweepInputs ==
  LET due == {i \in Items : HasInput(i) /\ Expired(input[i].created)}
  IN  /\ due # {}
      /\ input' = [i \in Items |-> IF i \in due THEN NoInput ELSE input[i]]
      /\ UNCHANGED <<clock, generation, batch, item, rows, worker, tainted>>

Tick ==
  /\ clock < MaxClock
  /\ clock' = clock + 1
  /\ UNCHANGED <<generation, batch, item, input, rows, worker, tainted>>

-----------------------------------------------------------------------------
(* One `process` call.  A worker whose caller stopped waiting (`orphan`)     *)
(* finishes the transaction it was in and never resumes the call.           *)

Leave(w) == worker' = [worker EXCEPT ![w] = Idle]

Goto(w, next) ==
  worker' = [worker EXCEPT ![w] = IF @.orphan THEN Idle ELSE next]

Refuse(w, e) == Goto(w, [worker[w] EXCEPT !.pc = "failing", !.err = e])

At(w, pc) == worker[w].pc = pc

\* The call samples its clock before the claim transaction can get its locks.
BeginClaim(w, b) ==
  /\ At(w, "idle") /\ batch[b] = "live"
  /\ worker' = [worker EXCEPT ![w] = [Idle EXCEPT !.pc = "claiming", !.batch = b, !.lease = clock]]
  /\ UNCHANGED <<clock, generation, batch, item, input, rows, tainted>>

\* claim(limit=1): persist the refusal of blocked inputs, then take the oldest
\* claimable item.
Claim(w) ==
  LET b == worker[w].batch
      now == worker[w].lease
      refused == [i \in Items |->
                    IF BatchOf[i] = b /\ Blocked(i)
                    THEN [item[i] EXCEPT !.status = "failed", !.error = FreshUpload, !.claimedAt = NoTime]
                    ELSE item[i]]
      free == {i \in Items : BatchOf[i] = b /\ ~Blocked(i) /\ Claimable(i, now)}
      oldest == {i \in free : \A j \in free : item[i].created <= item[j].created}
  IN  /\ At(w, "claiming")
      /\ \/ /\ free = {} /\ item' = refused /\ Leave(w)
         \/ \E i \in oldest :
              /\ item' = [refused EXCEPT ![i].status = "processing", ![i].claimedAt = now]
              /\ worker' = [worker EXCEPT ![w].pc = "load", ![w].item = i]
      /\ UNCHANGED <<clock, generation, batch, input, rows, tainted>>

\* The rows are re-read after the claim committed; a deleted batch yields none.
Load(w) ==
  LET i == worker[w].item
  IN  /\ At(w, "load")
      /\ IF Registered(i)
         THEN worker' = [worker EXCEPT ![w] = [@ EXCEPT
                 !.pc = "recover", !.expected = input[i].resume, !.gen = item[i].gen,
                 !.hasText = HasInput(i) \/ item[i].text]]
         ELSE Leave(w)
      /\ UNCHANGED <<clock, generation, batch, item, input, rows, tainted>>

\* recover_report refuses: the lease is gone, the call stops.
RecoverRefused(w) ==
  /\ At(w, "recover") /\ ~HoldsLiveLease(w)
  /\ Leave(w)
  /\ UNCHANGED <<clock, generation, batch, item, input, rows, tainted>>

\* No bound report: ingest, unless the reference read by Load has gone.
RecoverNothing(w) ==
  LET i == worker[w].item
  IN  /\ At(w, "recover") /\ HoldsLiveLease(w) /\ input[i].report = None
      /\ IF ~HasInput(i) /\ worker[w].expected # None
         THEN Refuse(w, FreshUpload)
         ELSE worker' = [worker EXCEPT ![w].pc = "resolve"]
      /\ UNCHANGED <<clock, generation, batch, item, input, rows, tainted>>

\* A bound report that is no longer usable: another reference, past the TTL, or
\* a saved checkpoint that does not validate.
RecoverUnusable(w) ==
  LET i == worker[w].item
  IN  /\ At(w, "recover") /\ HoldsLiveLease(w) /\ input[i].report # None
      /\ Refuse(w, FreshUpload)
      /\ UNCHANGED <<clock, generation, batch, item, input, rows, tainted>>

Settled(i, c, r, p) ==
  /\ item' = [item EXCEPT ![i] = [@ EXCEPT !.status = "done", !.text = FALSE, !.error = "none",
                                           !.cand = c, !.resume = r, !.report = p]]
  /\ input' = [input EXCEPT ![i] = NoInput]

\* The saved report completes the item without ingesting or evaluating again.
RecoverDone(w) ==
  LET i == worker[w].item
      r == input[i].resume
      p == input[i].report
  IN  /\ At(w, "recover") /\ HoldsLiveLease(w) /\ p # None
      /\ ~Expired(input[i].created)
      /\ ResumeLive(r) /\ ReportLive(p) /\ report[p].cand = resume[r].cand
      /\ worker[w].expected \in {None, r}
      /\ Settled(i, resume[r].cand, r, p)
      /\ Leave(w)
      /\ UNCHANGED <<clock, generation, batch, rows, tainted>>

-----------------------------------------------------------------------------
(* ingest_resume: identity resolution, ingest, farm check, evaluation, save. *)

\* _resolve_candidate: a unique asserted e-mail hint, else a new submission.
Matches(p) == {c \in Candidates : p # None /\ CandidateLive(c) /\ candidate[c].person = p}
Resolved(p) == IF Cardinality(Matches(p)) = 1 THEN CHOOSE c \in Matches(p) : TRUE ELSE None

\* Reads before the first write: empty text, the retry's own resume, or a match.
Resolve(w) ==
  LET W == worker[w]
      retry == W.expected # None
      c == IF retry THEN resume[W.expected].cand ELSE Resolved(PersonOf[TextOf[W.item]])
  IN  /\ At(w, "resolve")
      /\ IF ~W.hasText THEN Refuse(w, Ordinary)
         ELSE IF retry /\ ~ResumeLive(W.expected) THEN Refuse(w, Erased)
         ELSE worker' = [worker EXCEPT ![w].pc = "ingest", ![w].cand = c]
      /\ UNCHANGED <<clock, generation, batch, item, input, rows, tainted>>

\* Mutant: a copy cleared by retention after the claim is restored from memory.
RetainsSweptCopy(w) ==
  LET i == worker[w].item
  IN  /\ HoldsLiveLease(w)
      /\ ~Blocked(i)
      /\ IF worker[w].expected = None
         THEN ~HasInput(i) /\ worker[w].gen = generation
         ELSE input[i].resume = worker[w].expected

\* retain_ingested_input: what the item must still look like for the ingest
\* transaction to commit.
CanRetain(w) ==
  LET i == worker[w].item
  IN  /\ HoldsLiveLease(w)
      /\ ~Blocked(i)
      /\ IF worker[w].expected = None
         THEN item[i].text /\ ~HasInput(i) /\ worker[w].gen = generation
         ELSE input[i].resume = worker[w].expected

\* The subject or the pinned resume was erased since it was resolved.
IngestErased(w) ==
  LET W == worker[w]
  IN  /\ At(w, "ingest")
      /\ \/ W.cand # None /\ ~CandidateLive(W.cand)
         \/ W.expected # None /\ ~ResumeLive(W.expected)
      /\ Refuse(w, Erased)
      /\ UNCHANGED <<clock, generation, batch, item, input, rows, tainted>>

SubjectIntact(w) ==
  LET W == worker[w]
  IN  (W.cand # None => CandidateLive(W.cand)) /\ (W.expected # None => ResumeLive(W.expected))

\* check_input_generation: an erasure since registration refuses unlinked input.
InputCurrent(w) == worker[w].expected # None \/ worker[w].gen = generation

IngestStale(w) ==
  /\ At(w, "ingest") /\ SubjectIntact(w) /\ ~InputCurrent(w)
  /\ Refuse(w, FreshUpload)
  /\ UNCHANGED <<clock, generation, batch, item, input, rows, tainted>>

\* The callback refuses; the whole ingest transaction rolls back.
IngestUnavailable(w) ==
  /\ At(w, "ingest") /\ SubjectIntact(w) /\ InputCurrent(w) /\ ~CanRetain(w)
  /\ Refuse(w, Ordinary)
  /\ UNCHANGED <<clock, generation, batch, item, input, rows, tainted>>

\* Mutant: the match is not looked for again under the contact lock.
SubjectAsResolved(w, c) ==
  IF worker[w].cand # None THEN c = worker[w].cand ELSE candidate[c].st = "free"

\* The candidate of a first ingest: the resolved one, a match that appeared
\* before the contact lock was obtained, or a fresh row.
Subject(w, c) ==
  LET found == IF worker[w].cand # None THEN worker[w].cand
               ELSE Resolved(PersonOf[TextOf[worker[w].item]])
  IN  IF found # None THEN c = found ELSE candidate[c].st = "free"

\* The same text of the same candidate reuses its row.
ResumeFor(c, t, r) ==
  LET same == {q \in Resumes : ResumeLive(q) /\ resume[q].cand = c /\ resume[q].text = t}
  IN  IF same # {} THEN r \in same ELSE resume[r].st = "free"

IngestFirst(w) ==
  LET i == worker[w].item
      t == TextOf[i]
  IN  /\ At(w, "ingest") /\ SubjectIntact(w) /\ InputCurrent(w) /\ CanRetain(w)
      /\ worker[w].expected = None
      /\ \E c \in Candidates, r \in Resumes :
           /\ Subject(w, c) /\ ResumeFor(c, t, r)
           /\ candidate' = IF CandidateLive(c) THEN candidate
                           ELSE [candidate EXCEPT ![c] = [st |-> "live", person |-> PersonOf[t]]]
           /\ resume' = IF ResumeLive(r) THEN resume
                        ELSE [resume EXCEPT ![r] = [st |-> "live", cand |-> c, text |-> t,
                                                    fp |-> FALSE, src |-> i]]
           /\ input' = [input EXCEPT ![i] = [resume |-> r, report |-> None, created |-> item[i].created]]
           /\ Goto(w, [worker[w] EXCEPT !.pc = "farm", !.cand = c, !.resume = r])
      /\ item' = [item EXCEPT ![i].text = FALSE]
      /\ UNCHANGED <<clock, generation, batch, report, tainted>>

IngestRetry(w) ==
  /\ At(w, "ingest") /\ SubjectIntact(w) /\ CanRetain(w)
  /\ worker[w].expected # None
  /\ item' = [item EXCEPT ![worker[w].item].text = FALSE]
  /\ Goto(w, [worker[w] EXCEPT !.pc = "farm", !.resume = worker[w].expected])
  /\ UNCHANGED <<clock, generation, batch, input, rows, tainted>>

SubjectLive(w) == CandidateLive(worker[w].cand) /\ ResumeLive(worker[w].resume)

\* _assess_ingest_farm: store the fingerprint of a long enough text.
Farm(w) ==
  LET r == worker[w].resume
      short == TextOf[worker[w].item] \in ShortTexts
  IN  /\ At(w, "farm")
      /\ IF short \/ SubjectLive(w)
         THEN /\ resume' = IF short THEN resume ELSE [resume EXCEPT ![r].fp = TRUE]
              /\ Goto(w, [worker[w] EXCEPT !.pc = "require"])
         ELSE Refuse(w, Erased) /\ UNCHANGED resume
      /\ UNCHANGED <<clock, generation, batch, item, input, candidate, report, tainted>>

\* require_subject before the evaluation, and again at the head of save_report.
Require(w, from, to) ==
  /\ At(w, from)
  /\ IF SubjectLive(w) THEN worker' = [worker EXCEPT ![w].pc = to] ELSE Refuse(w, Erased)
  /\ UNCHANGED <<clock, generation, batch, item, input, rows, tainted>>

\* bind_input_report, inside the transaction that inserts the report.
CanBind(w) ==
  LET i == worker[w].item
  IN  /\ HoldsLiveLease(w)
      /\ ResumeLive(input[i].resume) /\ resume[input[i].resume].cand = worker[w].cand
      /\ input[i].report = None

\* Mutant: the report is saved and its checkpoint is not.
BindsNothing(i, p) == UNCHANGED input

\* The private reference now also falls with the report.
BindReport(i, p) == input' = [input EXCEPT ![i].report = p]

SaveRefused(w) ==
  /\ At(w, "save")
  /\ \/ ~CandidateLive(worker[w].cand) /\ Refuse(w, Erased)
     \/ CandidateLive(worker[w].cand) /\ ~CanBind(w) /\ Refuse(w, Ordinary)
  /\ UNCHANGED <<clock, generation, batch, item, input, rows, tainted>>

SaveReport(w) ==
  LET i == worker[w].item
  IN  /\ At(w, "save") /\ CandidateLive(worker[w].cand) /\ CanBind(w)
      /\ \E p \in Reports :
           /\ report[p].st = "free"
           /\ report' = [report EXCEPT ![p] = [st |-> "live", cand |-> worker[w].cand, src |-> i]]
           /\ BindReport(i, p)
           /\ Goto(w, [worker[w] EXCEPT !.pc = "confirm", !.report = p])
      /\ item' = [item EXCEPT ![i].text = FALSE]
      /\ UNCHANGED <<clock, generation, batch, candidate, resume, tainted>>

\* The last require_subject, with the report this time.
Confirm(w) ==
  /\ At(w, "confirm")
  /\ IF SubjectLive(w) /\ ReportLive(worker[w].report)
     THEN worker' = [worker EXCEPT ![w].pc = "complete"]
     ELSE Refuse(w, Erased)
  /\ UNCHANGED <<clock, generation, batch, item, input, rows, tainted>>

-----------------------------------------------------------------------------
(* complete, fail, and the ways a call ends without either. *)

\* Mutant: completion writes links no foreign key checks.
LinksUnchecked(w) == TRUE

LinksLive(w) == SubjectLive(w) /\ ReportLive(worker[w].report)

CompleteRefused(w) ==
  /\ At(w, "complete") /\ ~HoldsLiveLease(w)
  /\ Leave(w)
  /\ UNCHANGED <<clock, generation, batch, item, input, rows, tainted>>

\* A foreign key refuses the links: roll back, which releases the item lock.
CompleteRolledBack(w) ==
  /\ At(w, "complete") /\ HoldsLiveLease(w) /\ ~LinksLive(w)
  /\ worker' = [worker EXCEPT ![w].pc = "cleanup"]
  /\ UNCHANGED <<clock, generation, batch, item, input, rows, tainted>>

Complete(w) ==
  /\ At(w, "complete") /\ HoldsLiveLease(w) /\ LinksLive(w)
  /\ Settled(worker[w].item, worker[w].cand, worker[w].resume, worker[w].report)
  /\ Leave(w)
  /\ UNCHANGED <<clock, generation, batch, rows, tainted>>

\* Mutant: the reason is written where the status goes.
ScrubbedAsErased(i) ==
  /\ item' = [item EXCEPT ![i] = [@ EXCEPT !.status = Erased, !.text = FALSE,
                                           !.cand = None, !.resume = None, !.report = None]]
  /\ input' = [input EXCEPT ![i] = NoInput]

Scrubbed(i) ==
  /\ item' = [item EXCEPT ![i] = [@ EXCEPT !.status = "failed", !.error = Erased, !.text = FALSE,
                                           !.cand = None, !.resume = None, !.report = None]]
  /\ input' = [input EXCEPT ![i] = NoInput]

\* Erasure cleanup re-asserts the lease in a transaction of its own.
Cleanup(w) ==
  /\ At(w, "cleanup")
  /\ IF HoldsLiveLease(w) THEN Scrubbed(worker[w].item) ELSE UNCHANGED <<item, input>>
  /\ Leave(w)
  /\ UNCHANGED <<clock, generation, batch, rows, tainted>>

\* fail: an erasure refusal scrubs, every other reason keeps the input.
Fail(w) ==
  LET i == worker[w].item
      e == worker[w].err
  IN  /\ At(w, "failing")
      /\ \/ ~HoldsLiveLease(w) /\ UNCHANGED <<item, input>>
         \/ HoldsLiveLease(w) /\ e = Erased /\ Scrubbed(i)
         \/ /\ HoldsLiveLease(w) /\ e # Erased
            /\ item' = [item EXCEPT ![i].status = "failed", ![i].error = e]
            /\ UNCHANGED input
      /\ Leave(w)
      /\ UNCHANGED <<clock, generation, batch, rows, tainted>>

\* Any other exception fails this item with `internal_error`.
PipelineFails(w) ==
  /\ worker[w].pc \in {"recover", "resolve", "ingest", "farm", "require", "recheck", "save", "confirm"}
  /\ Refuse(w, Ordinary)
  /\ UNCHANGED <<clock, generation, batch, item, input, rows, tainted>>

\* A lease left behind must be able to expire before the horizon.
CanStop == clock + ClaimTimeout < MaxClock

\* ExecutionPending or cancellation while the executor owns a transaction: the
\* caller goes, the transaction still runs to its end.
Abandon(w) ==
  /\ CanStop
  /\ worker[w].pc \in {"ingest", "farm", "recheck", "save"} /\ ~worker[w].orphan
  /\ worker' = [worker EXCEPT ![w].orphan = TRUE]
  /\ UNCHANGED <<clock, generation, batch, item, input, rows, tainted>>

\* Crash, redeploy, cancellation at an await, ExecutionUnavailable.
Stop(w) ==
  /\ CanStop
  /\ worker[w].pc # "idle"
  /\ Leave(w)
  /\ UNCHANGED <<clock, generation, batch, item, input, rows, tainted>>

Recover(w) == RecoverRefused(w) \/ RecoverNothing(w) \/ RecoverUnusable(w) \/ RecoverDone(w)
Ingest(w) == IngestErased(w) \/ IngestStale(w) \/ IngestUnavailable(w) \/ IngestFirst(w) \/ IngestRetry(w)
Evaluate(w) == Require(w, "require", "recheck") \/ Require(w, "recheck", "save")
Save(w) == SaveRefused(w) \/ SaveReport(w)
Finish(w) == CompleteRefused(w) \/ CompleteRolledBack(w) \/ Complete(w) \/ Cleanup(w) \/ Fail(w)

\* What an uninterrupted call does next, once it has claimed.
Step(w) == Claim(w) \/ Load(w) \/ Recover(w) \/ Resolve(w) \/ Ingest(w) \/ Farm(w)
             \/ Evaluate(w) \/ Save(w) \/ Confirm(w) \/ Finish(w)

Interrupt(w) == PipelineFails(w) \/ Abandon(w) \/ Stop(w)

Organisation ==
  \E b \in Batches :
    \/ \E S \in SUBSET Items \ {{}} : Register(b, S)
    \/ Requeue(b)
    \/ DeleteBatch(b)

Erasure ==
  \/ \E c \in Candidates : EraseCandidate(c)
  \/ \E r \in Resumes : EraseResume(r)
  \/ \E p \in Reports : EraseReport(p)

Next ==
  \/ Tick
  \/ Organisation
  \/ Erasure
  \/ SweepText
  \/ SweepInputs
  \/ \E w \in Workers :
       \/ \E b \in Batches : BeginClaim(w, b)
       \/ Step(w)
       \/ Interrupt(w)

Spec == Init /\ [][Next]_vars

\* The client keeps calling `process` and calls that run make progress; nothing
\* is assumed of retries, erasures, retention or crashes.
Fairness ==
  /\ WF_vars(Tick)
  /\ \A w \in Workers : WF_vars(Step(w)) /\ WF_vars(\E b \in Batches : BeginClaim(w, b))

FairSpec == Spec /\ Fairness

-----------------------------------------------------------------------------
(* Properties. *)

\* Two calls never hold the same item under a live lease: whatever a call
\* writes back, it writes as the only holder, although claims take the time
\* they carry before they get their locks and two of them may be equal.
Active(w) == worker[w].pc \in Busy
LeaseExclusion ==
  \A v, w \in Workers :
    /\ Active(v) /\ Active(w) /\ worker[v].item = worker[w].item
    /\ HoldsLiveLease(v) /\ HoldsLiveLease(w)
    => v = w

\* A claimed item is evaluated and saved at most once in its life, through
\* failures after the save, retries, expired leases and report erasure.
OneReportPerItem ==
  \A p, q \in Reports :
    /\ report[p].st # "free" /\ report[q].st # "free"
    /\ report[p].src = report[q].src
    => p = q

\* Overlapping first ingests of one person end in one candidate.
OneCandidatePerPerson ==
  \A c, d \in Candidates :
    CandidateLive(c) /\ CandidateLive(d) /\ candidate[c].person # None
      /\ candidate[c].person = candidate[d].person => c = d

\* A settled item names rows of one candidate, each live or unset by its
\* erasure; a retry reference names a live resume, and a live report about the
\* same candidate.
LinksConsistent ==
  \A i \in Items :
    /\ item[i].cand # None => CandidateLive(item[i].cand)
    /\ item[i].resume # None => ResumeLive(item[i].resume) /\ resume[item[i].resume].cand = item[i].cand
    /\ item[i].report # None => ReportLive(item[i].report) /\ report[item[i].report].cand = item[i].cand
    /\ HasInput(i) => ResumeLive(input[i].resume)
    /\ input[i].report # None => /\ HasInput(i) /\ ReportLive(input[i].report)
                                 /\ report[input[i].report].cand = resume[input[i].resume].cand

\* No step creates a resume from input registered before its subject was
\* erased, whichever transactions the erasure fell between.
NothingIngestedAfterErasure ==
  [][\A r \in Resumes : resume[r].st = "free" /\ resume'[r].st = "live" => resume'[r].src \notin tainted]_vars

\* A settled success is never claimed, failed or retried again, whatever calls
\* are still in flight for the item.
DoneIsFinal ==
  [][\A i \in Items : item[i].status = "done" => item'[i].status \in {"done", "deleted"}]_vars

\* An item recorded as needing a fresh upload is never evaluated or retried.
Refused(i) == item[i].status = "failed" /\ item[i].error = FreshUpload
RefusalIsFinal ==
  [][\A i \in Items : Refused(i) => Refused(i)' \/ item'[i].status = "deleted"]_vars

\* An item shown as failed with fresh_upload_required is not shown as pending
\* again: its original text can only be deleted or swept.
QuarantineShown ==
  [][\A i \in Items : Blocked(i) => EffectiveStatus(i)' \in {"failed", "deleted"}]_vars

\* A registered item does not stay pending or processing for ever: calls that
\* crash or stall hand it to a later call.
ItemsSettle ==
  \A i \in Items : item[i].status \in {"pending", "processing"}
                     ~> item[i].status \in {"done", "failed", "deleted"}

----------------------------------------------------------------------------
(* What of an item the contract speaks of.                                 *)

phaseOf ==
  [i \in Items |->
     CASE item[i].status \in {"none", "done", "deleted"} -> item[i].status
       [] item[i].status \in {"pending", "processing"} -> "open"
       [] item[i].status = "failed" -> IF item[i].error = FreshUpload THEN "refused" ELSE "failed"]

keptOf ==
  [i \in Items |->
     IF item[i].text THEN "copy"
     ELSE IF ~HasInput(i) THEN "nothing"
     ELSE IF input[i].report = None THEN "reference" ELSE "bound"]

Contract == INSTANCE ScreeningContract WITH phase <- phaseOf, kept <- keptOf

\* Every step of every call, erasure and sweep is a step the contract allows
\* each item, or leaves it alone: what is kept for a retry is never regained,
\* an item completes only from a saved report, and ends are ends.
ImplementsContract == Contract!Spec

=============================================================================
