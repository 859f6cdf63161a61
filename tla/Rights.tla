------------------------------- MODULE Rights -------------------------------
(***************************************************************************)
(* The request queue of the data principals: a candidate files a           *)
(* correction or a grievance, operators decide it, and an approved         *)
(* correction of the name is written onto the candidate's row.  A decision *)
(* is three transactions (close the request, write the name, audit), and   *)
(* uploads refresh the same name from what a document says.                *)
(*                                                                         *)
(* One action per committed transaction; a row that is read before the     *)
(* first write of its transaction is read in a step of its own, because    *)
(* neither SQLite (which starts a write transaction at the first write)    *)
(* nor PostgreSQL at READ COMMITTED orders that read with other writers.   *)
(***************************************************************************)
EXTENDS Integers, FiniteSets

CONSTANTS
  Candidates,
  Requests,     \* request ids, each used at most once
  Names,
  Operators,    \* resolve calls in flight
  Uploads,      \* ingests in flight
  None

ASSUME ConstantsOK == None \notin Candidates \cup Requests \cup Names

VARIABLES
  candidate,    \* candidates: the name, and whether full_name_corrected_at is set
  request,      \* data_principal_requests
  operator, upload,
  writes,       \* history: times the name was written on the strength of a request
  audits        \* history: `request.resolve` audit rows, and what they say of `applied`

vars == <<candidate, request, operator, upload, writes, audits>>

\* "other" stands for e-mail, phone and other, which nobody applies; a
\* grievance is about no field.
Fields == {"full_name", "other", "none"}
Decisions == {"resolved", "rejected"}

Unfiled == [st |-> "free", cand |-> None, field |-> "none", want |-> None, applied |-> FALSE]
NoDecision == [pc |-> "idle", req |-> None, status |-> "rejected", apply |-> FALSE, changes |-> FALSE]
NoUpload == [pc |-> "idle", cand |-> None, name |-> None, read |-> None, pinned |-> FALSE]

MaybeName == Names \cup {None}
CandidateRows == [st: {"live", "erased"}, name: Names, pinned: BOOLEAN]
RequestRows == [st: Decisions \cup {"free", "open", "erased"}, cand: Candidates \cup {None},
                field: Fields, want: MaybeName, applied: BOOLEAN]
OperatorRecs == [pc: {"idle", "decide", "load", "apply", "audit"}, req: Requests \cup {None},
                 status: Decisions, apply: BOOLEAN, changes: BOOLEAN]
UploadRecs == [pc: {"idle", "flush"}, cand: Candidates \cup {None}, name: MaybeName,
               read: MaybeName, pinned: BOOLEAN]

TypeOK ==
  /\ candidate \in [Candidates -> CandidateRows]
  /\ request \in [Requests -> RequestRows]
  /\ operator \in [Operators -> OperatorRecs]
  /\ upload \in [Uploads -> UploadRecs]
  /\ writes \in [Requests -> Nat]
  /\ audits \in [Requests -> [n: Nat, applied: BOOLEAN]]

Init ==
  /\ candidate \in [Candidates -> [st: {"live"}, name: Names, pinned: {FALSE}]]
  /\ request = [r \in Requests |-> Unfiled]
  /\ operator = [o \in Operators |-> NoDecision]
  /\ upload = [u \in Uploads |-> NoUpload]
  /\ writes = [r \in Requests |-> 0]
  /\ audits = [r \in Requests |-> [n |-> 0, applied |-> FALSE]]

Live(c) == candidate[c].st = "live"

-----------------------------------------------------------------------------
\* submit: only a correction of the name carries a value that can be applied;
\* the foreign key refuses a candidate who is gone by now.
File(r, c, f, n) ==
  /\ request[r].st = "free" /\ Live(c)
  /\ (f = "full_name") = (n # None)
  /\ request' = [request EXCEPT ![r] = [Unfiled EXCEPT !.st = "open", !.cand = c, !.field = f, !.want = n]]
  /\ UNCHANGED <<candidate, operator, upload, writes, audits>>

-----------------------------------------------------------------------------
(* resolve. *)

\* What the checks before the first write let through: only an approved
\* correction of the name is applied.  They read fields that never change, so
\* whether the request is still open is left to the UPDATE.
BeginResolve(o, r, status, apply) ==
  /\ operator[o].pc = "idle"
  /\ request[r].st \notin {"free", "erased"}
  /\ apply => status = "resolved" /\ request[r].field = "full_name"
  /\ operator' = [operator EXCEPT ![o] = [NoDecision EXCEPT !.pc = "decide", !.req = r,
                                        !.status = status, !.apply = apply]]
  /\ UNCHANGED <<candidate, request, upload, writes, audits>>

\* Mutant: the UPDATE does not ask whether the request is open.
AnyRequest(r) == request[r].st # "erased"

Undecided(r) == request[r].st = "open"

\* Mutant: the audit entry comes before the write.
AuditFirst(o) == "audit"

\* An approved correction is written before it is audited.
AfterDecision(o) == IF operator[o].apply THEN "load" ELSE "audit"

\* store.resolve: the row count of a conditional UPDATE is the decision.
Decide(o) ==
  LET W == operator[o]
  IN  /\ W.pc = "decide"
      /\ IF Undecided(W.req)
         THEN /\ request' = [request EXCEPT ![W.req].st = W.status, ![W.req].applied = W.apply]
              /\ operator' = [operator EXCEPT ![o].pc = AfterDecision(o)]
         ELSE operator' = [operator EXCEPT ![o] = NoDecision] /\ UNCHANGED request
      /\ UNCHANGED <<candidate, upload, writes, audits>>

\* apply_correction reads the row it is going to write ...
Load(o) ==
  LET r == operator[o].req
      c == request[r].cand
  IN  /\ operator[o].pc = "load"
      /\ operator' = IF Live(c)
                     THEN [operator EXCEPT ![o].pc = "apply", ![o].changes = candidate[c].name # request[r].want]
                     ELSE [operator EXCEPT ![o] = NoDecision]
      /\ UNCHANGED <<candidate, request, upload, writes, audits>>

\* Mutant: an empty value is written where the requested one belongs.
Blanked(row, n) == [row EXCEPT !.name = None, !.pinned = TRUE]

Corrected(row, n) == [row EXCEPT !.name = n, !.pinned = TRUE]

\* ... and writes the name, if it read another one, and the pin; an erased row
\* fails the call.
Apply(o) ==
  LET W == operator[o]
      c == request[W.req].cand
  IN  /\ W.pc = "apply"
      /\ IF Live(c)
         THEN /\ candidate' = [candidate EXCEPT ![c] = Corrected(@, IF W.changes THEN request[W.req].want
                                                                               ELSE @.name)]
              /\ writes' = [writes EXCEPT ![W.req] = @ + 1]
              /\ operator' = [operator EXCEPT ![o].pc = "audit"]
         ELSE operator' = [operator EXCEPT ![o] = NoDecision] /\ UNCHANGED <<candidate, writes>>
      /\ UNCHANGED <<request, upload, audits>>

Audit(o) ==
  LET W == operator[o]
  IN  /\ W.pc = "audit"
      /\ audits' = [audits EXCEPT ![W.req] = [n |-> @.n + 1, applied |-> W.apply]]
      /\ operator' = [operator EXCEPT ![o] = NoDecision]
      /\ UNCHANGED <<candidate, request, upload, writes>>

-----------------------------------------------------------------------------
(* The candidate's row under uploads and erasure. *)

\* ingest reads the matched candidate ...
BeginUpload(u, c, n) ==
  /\ upload[u].pc = "idle" /\ Live(c)
  /\ upload' = [upload EXCEPT ![u] = [pc |-> "flush", cand |-> c, name |-> n,
                                     read |-> candidate[c].name, pinned |-> candidate[c].pinned]]
  /\ UNCHANGED <<candidate, request, operator, writes, audits>>

\* Mutant: the next upload's guess replaces a corrected name.
RefreshesAlways(u) == upload[u].name # upload[u].read

\* _refresh_identity, on the row as it was read: an unpinned name is replaced,
\* and a name that reads the same is not written at all.
Refreshes(u) == ~upload[u].pinned /\ upload[u].name # upload[u].read

\* ... and flushes what it decided, unless the row is gone.
Flush(u) ==
  LET W == upload[u]
  IN  /\ W.pc = "flush"
      /\ candidate' = IF Live(W.cand) /\ Refreshes(u)
                      THEN [candidate EXCEPT ![W.cand].name = W.name] ELSE candidate
      /\ upload' = [upload EXCEPT ![u] = NoUpload]
      /\ UNCHANGED <<request, operator, writes, audits>>

\* delete_candidate: requests cascade.
Erase(c) ==
  /\ Live(c)
  /\ candidate' = [candidate EXCEPT ![c].st = "erased"]
  /\ request' = [r \in Requests |-> IF request[r].cand = c THEN [request[r] EXCEPT !.st = "erased"]
                                                           ELSE request[r]]
  /\ UNCHANGED <<operator, upload, writes, audits>>

\* A process death, or a transaction that fails: what was committed stays.
Crash ==
  /\ \/ \E o \in Operators : operator[o].pc # "idle" /\ operator' = [operator EXCEPT ![o] = NoDecision]
                             /\ UNCHANGED upload
     \/ \E u \in Uploads : upload[u].pc # "idle" /\ upload' = [upload EXCEPT ![u] = NoUpload]
                           /\ UNCHANGED operator
  /\ UNCHANGED <<candidate, request, writes, audits>>

Resolve(o) ==
  \/ \E r \in Requests, status \in Decisions, apply \in BOOLEAN : BeginResolve(o, r, status, apply)
  \/ Decide(o)
  \/ Load(o)
  \/ Apply(o)
  \/ Audit(o)

Upload(u) == (\E c \in Candidates, n \in Names : BeginUpload(u, c, n)) \/ Flush(u)

Next ==
  \/ \E r \in Requests, c \in Candidates, f \in Fields, n \in MaybeName : File(r, c, f, n)
  \/ \E o \in Operators : Resolve(o)
  \/ \E u \in Uploads : Upload(u)
  \/ \E c \in Candidates : Erase(c)
  \/ Crash

Spec == Init /\ [][Next]_vars

-----------------------------------------------------------------------------
(* Properties. *)

\* A decision is final: no second operator, however late, changes the outcome
\* or whether it is said to be applied.
DecisionIsFinal ==
  [][\A r \in Requests :
       request[r].st \in Decisions =>
         /\ request'[r].st \in {request[r].st, "erased"}
         /\ request'[r].applied = request[r].applied]_vars

\* A name is written at most once per request, and the candidate's access log
\* says at most once, and only after the write, that a correction was applied.
AuditTruthful ==
  \A r \in Requests :
    /\ writes[r] <= 1 /\ audits[r].n <= 1
    /\ audits[r].n = 1 => request[r].applied = audits[r].applied
    /\ audits[r].n = 1 /\ audits[r].applied => writes[r] = 1

\* Once a name is corrected, an upload that began after the correction leaves
\* it alone: only another decision about this person changes it.
Decided(c) == \E r \in Requests : request[r].cand = c /\ writes'[r] # writes[r]
CorrectionOutlivesUploads ==
  [][\A c \in Candidates :
       /\ candidate[c].pinned /\ candidate'[c].name # candidate[c].name
       /\ \A u \in Uploads : upload[u].cand = c => upload[u].pinned
       => Decided(c)]_vars

\* "applied is whether that decision changed stored data": a request that says
\* so, and that no operator is still working on, has been written.
AppliedIsWritten ==
  \A r \in Requests :
    /\ request[r].st = "resolved" /\ request[r].applied
    /\ \A o \in Operators : operator[o].req # r
    => writes[r] = 1

\* "full_name_corrected_at stops _refresh_identity from overwriting a verified
\* correction with the next upload's extracted guess."
CorrectionPinned ==
  [][\A c \in Candidates :
       candidate[c].pinned /\ candidate'[c].name # candidate[c].name => Decided(c)]_vars

=============================================================================
