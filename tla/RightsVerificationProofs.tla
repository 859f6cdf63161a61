---------------------- MODULE RightsVerificationProofs ----------------------
(***************************************************************************)
(* Theorems about the two records a candidate is judged by: requests about *)
(* their data, and verifications of who they are.                          *)
(***************************************************************************)
EXTENDS Rights, Verification, TLAPS

-----------------------------------------------------------------------------
(***************************************************************************)
(* A decision is written and audited truthfully, and stays what it is, for *)
(* any number of requests, operators, uploads and names.                   *)
(*                                                                         *)
(* The argument: the conditional UPDATE makes one operator the only one    *)
(* past the decision (Sole), what that operator carries agrees with the    *)
(* row and with what has been written so far (Handled), and nothing was    *)
(* written or audited for a request before its decision (Untouched).       *)
(***************************************************************************)

Past(o) == operator[o].pc \in {"load", "apply", "audit"}

RequestSound == \A r \in Requests :
  /\ IF request[r].st = "free" THEN request[r].cand = None ELSE request[r].cand \in Candidates
  /\ request[r].field = "full_name" => request[r].want \in Names

OperatorSound == \A o \in Operators :
  operator[o].pc # "idle" =>
    /\ operator[o].req \in Requests
    /\ request[operator[o].req].st # "free"
    /\ operator[o].apply => request[operator[o].req].field = "full_name"

UploadSound == \A u \in Uploads :
  upload[u].pc # "idle" => upload[u].cand \in Candidates /\ upload[u].name \in Names

Sole == \A o, p \in Operators : Past(o) /\ Past(p) /\ operator[o].req = operator[p].req => o = p

Agrees(W) ==
  /\ request[W.req].st # "open" /\ request[W.req].applied = W.apply
  /\ audits[W.req].n = 0
  /\ W.pc # "audit" => W.apply
  /\ writes[W.req] = IF W.pc = "audit" /\ W.apply THEN 1 ELSE 0

Handled == \A o \in Operators : Past(o) => Agrees(operator[o])

Untouched == \A r \in Requests : request[r].st \in {"free", "open"} => writes[r] = 0 /\ audits[r].n = 0

TypeInv == TypeOK /\ RequestSound /\ OperatorSound /\ UploadSound

RightsInv == TypeInv /\ Sole /\ Handled /\ Untouched /\ AuditTruthful

-----------------------------------------------------------------------------
\* No request is filed and no operator is at work: the invariant holds at the
\* start.
LEMMA InitInv == ASSUME Init PROVE RightsInv
<1> USE ConstantsOK DEF ConstantsOK, Init, NoDecision, NoUpload, Unfiled, MaybeName
<1>1. TypeOK
  BY DEF TypeOK, CandidateRows, RequestRows, OperatorRecs, UploadRecs, Fields, Decisions
<1>2. RequestSound /\ OperatorSound /\ UploadSound
  BY DEF RequestSound, OperatorSound, UploadSound
<1>3. Sole /\ Handled /\ Untouched /\ AuditTruthful
  BY DEF Sole, Handled, Untouched, AuditTruthful, Past
<1> QED
  BY <1>1, <1>2, <1>3 DEF RightsInv, TypeInv

-----------------------------------------------------------------------------
(* What most actions do: operators past the decision go on with what they     *)
(* have or leave, and requests are filed or erased.                            *)

Continues == \A o \in Operators : Past(o)' =>
  /\ Past(o)
  /\ operator'[o].req = operator[o].req /\ operator'[o].apply = operator[o].apply
  /\ (operator'[o].pc = "audit") = (operator[o].pc = "audit")

Undecides == \A r \in Requests :
  \/ /\ request'[r].st \in {request[r].st, "erased"} /\ request'[r].applied = request[r].applied
     /\ request[r].st = "free" => request'[r].st = "free"
  \/ request[r].st = "free" /\ request'[r].st = "open"

\* A step that takes no decision back and changes what no operator past its
\* decision relies on keeps the invariant.
LEMMA Frame ==
  ASSUME RightsInv, TypeInv', Continues, Undecides, UNCHANGED <<writes, audits>>
  PROVE  RightsInv'
<1>1. Sole'
  BY DEF RightsInv, Sole, Continues
<1>2. Handled'
  <2> SUFFICES ASSUME NEW o \in Operators, Past(o)' PROVE Agrees(operator[o])'
    BY DEF Handled
  <2>1. Past(o) /\ Agrees(operator[o])
    BY DEF Continues, RightsInv, Handled
  <2>2. operator[o].req \in Requests /\ request[operator[o].req].st # "free"
    BY <2>1 DEF Past, RightsInv, TypeInv, OperatorSound
  <2>3. request'[operator[o].req].st # "open" /\ request'[operator[o].req].applied = operator[o].apply
    BY <2>1, <2>2 DEF Undecides, Agrees
  <2> QED
    BY <2>1, <2>3 DEF Continues, Agrees
<1>3. Untouched' /\ AuditTruthful'
  <2>1. ASSUME NEW r \in Requests, request[r].st = "free", request'[r].st = "open"
        PROVE  writes[r] = 0 /\ audits[r].n = 0
    BY <2>1 DEF RightsInv, Untouched
  <2>2. Untouched'
    BY <2>1 DEF RightsInv, Untouched, Undecides
  <2>3. AuditTruthful'
    BY <2>1 DEF RightsInv, AuditTruthful, Undecides
  <2> QED
    BY <2>2, <2>3
<1> QED
  BY <1>1, <1>2, <1>3 DEF RightsInv

\* A step that writes no request takes no decision back.
LEMMA KeptRequests == ASSUME UNCHANGED request PROVE Undecides
BY DEF Undecides

\* A step that moves no operator lets each carry on.
LEMMA KeptOperators == ASSUME UNCHANGED operator PROVE Continues
BY DEF Continues, Past

\* One operator going idle changes nothing about the others.
LEMMA Leaves ==
  ASSUME TypeOK, NEW o \in Operators, operator' = [operator EXCEPT ![o] = NoDecision]
  PROVE  Continues /\ (\A p \in Operators : operator'[p].pc # "idle" => operator'[p] = operator[p])
BY DEF TypeOK, NoDecision, Continues, Past

-----------------------------------------------------------------------------
(* One lemma per action that changes the queue or the name. *)

\* `submit` files an open request, which nobody can have decided.
LEMMA FileInv ==
  ASSUME RightsInv, NEW r \in Requests, NEW c \in Candidates, NEW f \in Fields, NEW n \in MaybeName,
         File(r, c, f, n)
  PROVE  RightsInv'
<1> DEFINE row == [Unfiled EXCEPT !.st = "open", !.cand = c, !.field = f, !.want = n]
<1> USE DEF RightsInv, TypeInv
<1>1. /\ request[r].st = "free" /\ request' = [request EXCEPT ![r] = row]
      /\ UNCHANGED <<candidate, operator, upload, writes, audits>>
      /\ f = "full_name" => n \in Names
  BY DEF File, MaybeName
<1>2. row \in RequestRows /\ row.st = "open" /\ row.cand = c /\ row.field = f /\ row.want = n
  BY DEF Unfiled, RequestRows, MaybeName
<1>3. request'[r] = row /\ \A q \in Requests : q # r => request'[q] = request[q]
  BY <1>1 DEF TypeOK
<1>4. TypeOK'
  BY <1>1, <1>2 DEF TypeOK
<1>5. RequestSound' /\ OperatorSound' /\ UploadSound'
  BY <1>1, <1>2, <1>3 DEF RequestSound, OperatorSound, UploadSound
<1>6. Undecides
  BY <1>1, <1>2, <1>3 DEF Undecides
<1> QED
  BY <1>1, <1>4, <1>5, <1>6, Frame, KeptOperators

\* The checks of `resolve` write nothing.
LEMMA BeginResolveInv ==
  ASSUME RightsInv, NEW o \in Operators, NEW r \in Requests, NEW status \in Decisions,
         NEW apply \in BOOLEAN, BeginResolve(o, r, status, apply)
  PROVE  RightsInv'
<1> USE DEF RightsInv, TypeInv
<1>1. TypeOK'
  BY DEF TypeOK, OperatorRecs, BeginResolve, NoDecision
<1>2. RequestSound' /\ OperatorSound' /\ UploadSound'
  BY DEF TypeOK, RequestSound, OperatorSound, UploadSound, BeginResolve, NoDecision
<1>3. Continues
  BY DEF Continues, Past, TypeOK, BeginResolve, NoDecision
<1> QED
  BY <1>1, <1>2, <1>3, Frame, KeptRequests DEF BeginResolve

\* An operator who is refused, or finds nothing to do, drops out.
LEMMA DroppedInv ==
  ASSUME RightsInv, NEW o \in Operators, operator' = [operator EXCEPT ![o] = NoDecision],
         UNCHANGED <<candidate, request, upload, writes, audits>>
  PROVE  RightsInv'
<1> USE DEF RightsInv, TypeInv
<1>1. TypeOK'
  BY DEF TypeOK, OperatorRecs, NoDecision, Decisions
<1>2. RequestSound' /\ OperatorSound' /\ UploadSound'
  BY Leaves DEF RequestSound, OperatorSound, UploadSound
<1> QED
  BY <1>1, <1>2, Leaves, KeptRequests, Frame

\* The conditional UPDATE of a request that is still open makes this operator
\* the only one past its decision.
LEMMA DecideInv ==
  ASSUME RightsInv, NEW o \in Operators, Decide(o)
  PROVE  RightsInv'
<1> DEFINE W == operator[o]
<1> USE DEF RightsInv, TypeInv
<1>1. /\ W \in OperatorRecs /\ W.pc = "decide" /\ W.req \in Requests
      /\ W.status \in Decisions /\ W.apply \in BOOLEAN /\ request[W.req] \in RequestRows
  BY DEF Decide, TypeOK, OperatorSound, OperatorRecs
<1>2. CASE ~Undecided(W.req)
  <2>1. operator' = [operator EXCEPT ![o] = NoDecision]
        /\ UNCHANGED <<candidate, request, upload, writes, audits>>
    BY <1>2 DEF Decide
  <2> QED
    BY <2>1, DroppedInv
<1>3. CASE Undecided(W.req)
  <2>1. /\ request' = [request EXCEPT ![W.req] = [@ EXCEPT !.st = W.status, !.applied = W.apply]]
        /\ operator' = [operator EXCEPT ![o].pc = AfterDecision(o)]
        /\ UNCHANGED <<candidate, upload, writes, audits>>
    BY <1>3, <1>1 DEF Decide, TypeOK, RequestRows
  <2>2. /\ request[W.req].st = "open" /\ writes[W.req] = 0 /\ audits[W.req].n = 0
        /\ AfterDecision(o) = (IF W.apply THEN "load" ELSE "audit")
    BY <1>3, <1>1 DEF Undecided, Untouched, AfterDecision
  <2>3. TypeOK'
    BY <2>1, <2>2, <1>1 DEF TypeOK, RequestRows, OperatorRecs
  <2>4. RequestSound' /\ OperatorSound' /\ UploadSound'
    BY <2>1, <2>2, <1>1 DEF TypeOK, RequestRows, OperatorRecs, RequestSound, OperatorSound, UploadSound,
                            Decisions
  <2>5. \A p \in Operators : p # o => /\ operator'[p] = operator[p]
                                      /\ Past(p) => operator[p].req # W.req
    BY <2>1, <2>2, <1>1 DEF TypeOK, Past, Handled, Agrees
  <2>6. /\ operator'[o].req = W.req /\ operator'[o].apply = W.apply
        /\ operator'[o].pc = IF W.apply THEN "load" ELSE "audit"
    BY <2>1, <2>2, <1>1 DEF TypeOK, OperatorRecs
  <2>7. /\ request'[W.req].st = W.status /\ request'[W.req].applied = W.apply
        /\ \A r \in Requests : r # W.req => request'[r] = request[r]
    BY <2>1, <1>1 DEF TypeOK, RequestRows
  <2>8. Sole'
    BY <2>5, <2>6 DEF Sole, Past
  <2>9. Handled'
    <3>1. Agrees(operator[o])'
      BY <2>1, <2>2, <2>6, <2>7, <1>1 DEF Agrees, Decisions
    <3>2. ASSUME NEW p \in Operators, p # o, Past(p)' PROVE Agrees(operator[p])'
      BY <3>2, <2>1, <2>5, <2>7, <1>1 DEF Past, Handled, Agrees, OperatorSound
    <3> QED
      BY <3>1, <3>2 DEF Handled
  <2>10. Untouched' /\ AuditTruthful'
    BY <2>1, <2>2, <2>7, <1>1 DEF Untouched, AuditTruthful, Decisions
  <2> QED
    BY <2>3, <2>4, <2>8, <2>9, <2>10
<1> QED
  BY <1>2, <1>3

\* `apply_correction` reads the row it is going to write.
LEMMA LoadInv ==
  ASSUME RightsInv, NEW o \in Operators, Load(o)
  PROVE  RightsInv'
<1> DEFINE r == operator[o].req
           changes == candidate[request[r].cand].name # request[r].want
<1>1. CASE ~Live(request[r].cand)
  BY <1>1, DroppedInv DEF Load
<1>2. CASE Live(request[r].cand)
  <2> USE DEF RightsInv, TypeInv
  <2>1. /\ operator[o].pc = "load" /\ UNCHANGED <<candidate, request, upload, writes, audits>>
        /\ operator' = [operator EXCEPT ![o] = [@ EXCEPT !.pc = "apply", !.changes = changes]]
        /\ operator[o] \in OperatorRecs /\ changes \in BOOLEAN
    BY <1>2 DEF Load, TypeOK, OperatorRecs
  <2> HIDE DEF changes
  <2>2. TypeOK'
    BY <2>1 DEF TypeOK, OperatorRecs
  <2>3. \A p \in Operators :
          /\ operator'[p].req = operator[p].req /\ operator'[p].apply = operator[p].apply
          /\ \/ operator'[p].pc = operator[p].pc
             \/ operator[p].pc = "load" /\ operator'[p].pc = "apply"
    BY <2>1 DEF TypeOK, OperatorRecs
  <2>4. RequestSound' /\ OperatorSound' /\ UploadSound'
    BY <2>1, <2>3 DEF RequestSound, OperatorSound, UploadSound
  <2>5. Continues
    BY <2>3 DEF Continues, Past
  <2> QED
    BY <2>1, <2>2, <2>4, <2>5, Frame, KeptRequests
<1> QED
  BY <1>1, <1>2

\* The value is written by the operator who decided, at most once.
LEMMA ApplyInv ==
  ASSUME RightsInv, NEW o \in Operators, Apply(o)
  PROVE  RightsInv'
<1> DEFINE W == operator[o]
           r == W.req
           c == request[r].cand
<1> USE DEF RightsInv, TypeInv
<1>1. /\ W \in OperatorRecs /\ W.pc = "apply" /\ r \in Requests /\ c \in Candidates
      /\ W.apply /\ request[r].want \in Names
  BY DEF Apply, TypeOK, OperatorSound, RequestSound, Handled, Past, Agrees
<1>2. CASE ~Live(c)
  <2>1. operator' = [operator EXCEPT ![o] = NoDecision]
        /\ UNCHANGED <<candidate, request, upload, writes, audits>>
    BY <1>2 DEF Apply
  <2> QED
    BY <2>1, DroppedInv
<1>3. CASE Live(c)
  <2>1. /\ writes' = [writes EXCEPT ![r] = @ + 1]
        /\ operator' = [operator EXCEPT ![o].pc = "audit"]
        /\ UNCHANGED <<request, upload, audits>>
    BY <1>3 DEF Apply
  <2>2. candidate' \in [Candidates -> CandidateRows]
    <3>1. candidate[c] \in CandidateRows
      BY <1>1 DEF TypeOK
    <3>2. \E n \in Names : candidate' = [candidate EXCEPT ![c] = Corrected(candidate[c], n)]
      BY <1>1, <1>3, <3>1 DEF Apply, CandidateRows
    <3>3. \A n \in Names : Corrected(candidate[c], n) \in CandidateRows
      BY <3>1 DEF Corrected, CandidateRows
    <3> QED
      BY <3>2, <3>3 DEF TypeOK
  <2>3. TypeOK'
    BY <2>1, <2>2, <1>1 DEF TypeOK, OperatorRecs
  <2>4. RequestSound' /\ OperatorSound' /\ UploadSound'
    BY <2>1, <1>1 DEF TypeOK, OperatorRecs, RequestSound, OperatorSound, UploadSound
  <2>5. \A p \in Operators : p # o => /\ operator'[p] = operator[p]
                                      /\ Past(p) => operator[p].req # r
    BY <2>1, <1>1 DEF TypeOK, Past, Sole
  <2>6. operator'[o].req = r /\ operator'[o].apply = W.apply /\ operator'[o].pc = "audit"
    BY <2>1, <1>1 DEF TypeOK, OperatorRecs
  <2>7. Agrees(W) /\ request[r].st # "free"
    BY <1>1 DEF Handled, Past, OperatorSound
  <2>8. /\ writes[r] = 0 /\ audits[r].n = 0 /\ request[r].st # "open"
        /\ request[r].st # "free" /\ request[r].applied = W.apply
    BY <2>7, <1>1 DEF Agrees
  <2>9. writes'[r] = 1 /\ \A q \in Requests : q # r => writes'[q] = writes[q]
    BY <2>1, <2>8, <1>1 DEF TypeOK
  <2>10. Sole'
    BY <2>5, <2>6, <1>1 DEF Sole, Past
  <2>11. Handled'
    <3>1. Agrees(operator[o])'
      BY <2>1, <2>6, <2>9, <2>8, <1>1 DEF Agrees
    <3>2. ASSUME NEW p \in Operators, p # o, Past(p)' PROVE Agrees(operator[p])'
      BY <3>2, <2>1, <2>5, <2>9, <1>1 DEF Past, Handled, Agrees, OperatorSound
    <3> QED
      BY <3>1, <3>2 DEF Handled
  <2>12. Untouched' /\ AuditTruthful'
    BY <2>1, <2>9, <2>8, <1>1 DEF Untouched, AuditTruthful
  <2> QED
    BY <2>3, <2>4, <2>10, <2>11, <2>12
<1> QED
  BY <1>2, <1>3

\* The audit row says what was written before it.
LEMMA AuditInv ==
  ASSUME RightsInv, NEW o \in Operators, Audit(o)
  PROVE  RightsInv'
<1> DEFINE W == operator[o]
           r == W.req
<1> USE DEF RightsInv, TypeInv
<1>1. W \in OperatorRecs /\ W.pc = "audit" /\ r \in Requests /\ W.apply \in BOOLEAN
  BY DEF Audit, TypeOK, OperatorSound, OperatorRecs
<1>2. /\ audits' = [audits EXCEPT ![r] = [n |-> @.n + 1, applied |-> W.apply]]
      /\ operator' = [operator EXCEPT ![o] = NoDecision]
      /\ UNCHANGED <<candidate, request, upload, writes>>
  BY DEF Audit
<1>3. TypeOK'
  BY <1>1, <1>2 DEF TypeOK, OperatorRecs, NoDecision, Decisions
<1>4. RequestSound' /\ OperatorSound' /\ UploadSound'
  BY <1>2 DEF TypeOK, NoDecision, RequestSound, OperatorSound, UploadSound
<1>5. \A p \in Operators : Past(p)' => /\ p # o /\ Past(p) /\ operator'[p] = operator[p]
                                      /\ operator[p].req # r
  BY <1>1, <1>2 DEF TypeOK, NoDecision, Past, Sole
<1>6. /\ request[r].applied = W.apply /\ request[r].st \notin {"free", "open"}
      /\ audits[r].n = 0 /\ writes[r] = IF W.apply THEN 1 ELSE 0
      /\ audits'[r].n = 1 /\ audits'[r].applied = W.apply
      /\ \A q \in Requests : q # r => audits'[q] = audits[q]
  BY <1>1, <1>2 DEF Handled, Past, Agrees, TypeOK, OperatorSound
<1>7. Sole' /\ Handled'
  BY <1>1, <1>2, <1>5, <1>6 DEF Sole, Handled, Agrees, Past, OperatorSound
<1>8. Untouched' /\ AuditTruthful'
  BY <1>1, <1>2, <1>6 DEF Untouched, AuditTruthful
<1> QED
  BY <1>3, <1>4, <1>7, <1>8

\* Uploads write names, never requests or operators.
LEMMA UploadInv ==
  ASSUME RightsInv, NEW u \in Uploads, Upload(u)
  PROVE  RightsInv'
<1> USE DEF RightsInv, TypeInv
<1>1. UNCHANGED <<request, operator, writes, audits>>
  BY DEF Upload, BeginUpload, Flush
<1>2. CASE \E c \in Candidates, n \in Names : BeginUpload(u, c, n)
  <2>1. TypeOK'
    BY <1>1, <1>2 DEF BeginUpload, TypeOK, UploadRecs, CandidateRows, MaybeName
  <2>2. UploadSound'
    BY <1>2 DEF BeginUpload, TypeOK, UploadSound
  <2> QED
    BY <1>1, <2>1, <2>2, Frame, KeptRequests, KeptOperators DEF RequestSound, OperatorSound
<1>3. CASE Flush(u)
  <2>1. TypeOK'
    BY <1>1, <1>3 DEF Flush, NoUpload, TypeOK, UploadRecs, CandidateRows, MaybeName, UploadSound
  <2>2. UploadSound'
    BY <1>3 DEF Flush, NoUpload, TypeOK, UploadSound
  <2> QED
    BY <1>1, <2>1, <2>2, Frame, KeptRequests, KeptOperators DEF RequestSound, OperatorSound
<1> QED
  BY <1>2, <1>3 DEF Upload

\* Erasure takes the candidate and its requests together.
LEMMA EraseInv ==
  ASSUME RightsInv, NEW c \in Candidates, Erase(c)
  PROVE  RightsInv'
<1> USE DEF RightsInv, TypeInv
<1>1. /\ UNCHANGED <<operator, upload, writes, audits>>
      /\ candidate' \in [Candidates -> CandidateRows]
  BY DEF Erase, TypeOK, CandidateRows
<1>2. \A r \in Requests : /\ request[r] \in RequestRows
                          /\ request'[r] = IF request[r].cand = c THEN [request[r] EXCEPT !.st = "erased"]
                                                                 ELSE request[r]
                          /\ request[r].st = "free" => request'[r] = request[r]
  BY ConstantsOK DEF ConstantsOK, Erase, TypeOK, RequestSound
<1>3. \A r \in Requests :
        /\ request'[r] \in RequestRows
        /\ request'[r].cand = request[r].cand /\ request'[r].field = request[r].field
        /\ request'[r].want = request[r].want /\ request'[r].applied = request[r].applied
        /\ request'[r].st \in {request[r].st, "erased"}
  BY <1>2 DEF RequestRows
<1>4. TypeOK'
  <2>1. request' \in [Requests -> RequestRows]
    BY <1>3 DEF Erase
  <2> QED
    BY <1>1, <2>1 DEF TypeOK
<1>5. RequestSound'
  BY <1>2, <1>3 DEF RequestSound
<1>6. OperatorSound' /\ UploadSound'
  BY <1>1, <1>3 DEF OperatorSound, UploadSound
<1>7. Undecides
  BY <1>2, <1>3 DEF Undecides
<1> QED
  BY <1>1, <1>4, <1>5, <1>6, <1>7, Frame, KeptOperators

\* A crash drops an operator or an upload; what was committed stays.
LEMMA CrashInv ==
  ASSUME RightsInv, Crash
  PROVE  RightsInv'
<1>1. ASSUME NEW o \in Operators, operator' = [operator EXCEPT ![o] = NoDecision], UNCHANGED upload
      PROVE  RightsInv'
  BY <1>1, DroppedInv DEF Crash
<1>2. ASSUME NEW u \in Uploads, upload' = [upload EXCEPT ![u] = NoUpload], UNCHANGED operator
      PROVE  RightsInv'
  <2> USE DEF RightsInv, TypeInv
  <2>1. UNCHANGED <<candidate, request, writes, audits>>
    BY DEF Crash
  <2>2. TypeOK' /\ UploadSound'
    BY <1>2, <2>1 DEF NoUpload, TypeOK, UploadRecs, MaybeName, UploadSound
  <2> QED
    BY <1>2, <2>1, <2>2, Frame, KeptRequests, KeptOperators DEF RequestSound, OperatorSound
<1> QED
  BY <1>1, <1>2 DEF Crash

\* A step that changes no variable keeps the invariant.
LEMMA StutterInv == ASSUME RightsInv, UNCHANGED vars PROVE RightsInv'
BY DEF vars, RightsInv, TypeInv, TypeOK, RequestSound, OperatorSound, UploadSound, Sole, Handled, Past,
       Agrees, Untouched, AuditTruthful

\* Every step of the component keeps the invariant.
LEMMA StepInv == ASSUME RightsInv, [Next]_vars PROVE RightsInv'
<1>1. CASE Next
  <2>1. ASSUME NEW o \in Operators, Resolve(o) PROVE RightsInv'
    BY <2>1, BeginResolveInv, DecideInv, LoadInv, ApplyInv, AuditInv DEF Resolve
  <2> QED
    BY <1>1, <2>1, FileInv, UploadInv, EraseInv, CrashInv DEF Next
<1> QED
  BY <1>1, StutterInv

-----------------------------------------------------------------------------
\* Rows and calls keep their types: in particular what is written onto a
\* candidate's row is always a name (apply_correction, _refresh_identity).
THEOREM RightsTyped == Spec => []TypeOK
<1>1. RightsInv => TypeOK
  BY DEF RightsInv, TypeInv
<1> QED
  BY <1>1, InitInv, StepInv, PTL DEF Spec

\* One decision writes a name once at most, is audited once at most, and an
\* audit entry that says "applied" follows the write (RightsService.resolve).
THEOREM AuditsAreTruthful == Spec => []AuditTruthful
<1>1. RightsInv => AuditTruthful
  BY DEF RightsInv
<1> QED
  BY <1>1, InitInv, StepInv, PTL DEF Spec

\* No step changes a decision once it is made (RightsStore.resolve).
THEOREM DecisionsAreFinal == Spec => DecisionIsFinal
<1> DEFINE Final == \A r \in Requests : request[r].st \in Decisions =>
                      /\ request'[r].st \in {request[r].st, "erased"}
                      /\ request'[r].applied = request[r].applied
<1>1. ASSUME RightsInv, [Next]_vars PROVE Final
  <2>1. request \in [Requests -> RequestRows]
    BY <1>1 DEF RightsInv, TypeInv, TypeOK
  <2>2. CASE UNCHANGED request
    BY <2>2
  <2>3. ASSUME NEW r \in Requests, NEW c \in Candidates, NEW f \in Fields, NEW n \in MaybeName, File(r, c, f, n)
        PROVE  Final
    BY <2>1, <2>3 DEF File, Decisions
  <2>4. ASSUME NEW o \in Operators, Decide(o) PROVE Final
    <3>1. operator[o].req \in Requests
      BY <1>1, <2>4 DEF Decide, RightsInv, TypeInv, OperatorSound
    <3> QED
      BY <2>1, <2>4, <3>1 DEF Decide, Undecided, Decisions, RequestRows
  <2>5. ASSUME NEW c \in Candidates, Erase(c) PROVE Final
    BY <2>1, <2>5 DEF Erase, RequestRows
  <2> QED
    BY <1>1, <2>2, <2>3, <2>4, <2>5 DEF Next, Resolve, BeginResolve, Load, Apply, Audit, Upload, BeginUpload,
       Flush, Crash, vars
<1>2. RightsInv /\ [Next]_vars => [Final]_vars
  BY <1>1
<1> QED
  BY <1>2, InitInv, StepInv, PTL DEF Spec, DecisionIsFinal

\* Once a name is corrected, an upload that began after the correction leaves it
\* alone (_refresh_identity): only a decision about the person writes the name.
THEOREM CorrectionsOutliveUploads == Spec => CorrectionOutlivesUploads
<1> DEFINE Kept == \A c \in Candidates :
                     /\ candidate[c].pinned /\ candidate'[c].name # candidate[c].name
                     /\ \A u \in Uploads : upload[u].cand = c => upload[u].pinned
                     => Decided(c)
<1>1. ASSUME RightsInv, [Next]_vars PROVE Kept
  <2>1. candidate \in [Candidates -> CandidateRows] /\ writes \in [Requests -> Nat]
    BY <1>1 DEF RightsInv, TypeInv, TypeOK
  <2>2. CASE UNCHANGED candidate
    BY <2>2
  <2>3. ASSUME NEW o \in Operators, Apply(o) PROVE Kept
    <3>1. PICK r \in Requests : r = operator[o].req
      BY <1>1, <2>3 DEF Apply, RightsInv, TypeInv, OperatorSound
    <3>2. ASSUME NEW c \in Candidates, candidate'[c].name # candidate[c].name
          PROVE  Decided(c)
      <4>1. c = request[r].cand /\ writes' = [writes EXCEPT ![r] = @ + 1]
        BY <2>1, <2>3, <3>1, <3>2 DEF Apply
      <4>2. writes'[r] = writes[r] + 1 /\ writes[r] \in Nat
        BY <2>1, <4>1
      <4> QED
        BY <4>1, <4>2 DEF Decided
    <3> QED
      BY <3>2
  <2>4. ASSUME NEW u \in Uploads, Flush(u) PROVE Kept
    <3>1. ASSUME NEW c \in Candidates, candidate'[c].name # candidate[c].name
          PROVE  upload[u].cand = c /\ ~upload[u].pinned
      BY <2>1, <2>4, <3>1 DEF Flush, Refreshes
    <3> QED
      BY <3>1
  <2>5. ASSUME NEW c \in Candidates, Erase(c) PROVE Kept
    BY <2>1, <2>5 DEF Erase, CandidateRows
  <2> QED
    BY <1>1, <2>2, <2>3, <2>4, <2>5 DEF Next, File, Resolve, BeginResolve, Decide, Load, Audit, Upload,
       BeginUpload, Crash, vars
<1>2. RightsInv /\ [Next]_vars => [Kept]_vars
  BY <1>1
<1> QED
  BY <1>2, InitInv, StepInv, PTL DEF Spec, CorrectionOutlivesUploads

-----------------------------------------------------------------------------
(***************************************************************************)
(* What a verification reports was earned, and codes replace each other,   *)
(* for any number of candidates, attempts and overlapping calls, and any   *)
(* cooldown, lifetimes and budget.                                         *)
(*                                                                         *)
(* The argument: a call in flight is the only one at work on its attempt   *)
(* (OneCaller), which nobody has completed and no code is live for         *)
(* (CallSound); a live code belongs to an open attempt of its channel      *)
(* (RowSound) and is the newest there, or one of several that an older     *)
(* release left behind and that only go together (NewestLive), and expires *)
(* a lifetime after it was activated (CodesTimed); a verified outcome      *)
(* lapses no later than its proof (Earned).                                *)
(***************************************************************************)

RowSound == \A v \in Vids :
  /\ ver[v].st # "free" => ver[v].cand \in Claimants
  /\ ver[v].st = "free" => completions[v] = 0
  /\ chal[v].live => ver[v].st = "pending" /\ ver[v].method \in Otp
  /\ ver[v].st = "pending" /\ ver[v].method \in Otp => completions[v] = 0

LegacySound == \A v \in Legacy :
  ver[v].st # "free" /\ ver[v].cand = LegacyOwner /\ ver[v].method = "otp_email"

Owning(o) == op[o].pc \in {"issue", "undelivered", "complete"}

Fits(W) ==
  /\ W.vid \in Vids \ Legacy
  /\ ver[W.vid].st \in {"pending", "erased"}
  /\ ver[W.vid].cand = W.cand /\ ver[W.vid].method = W.method
  /\ ver[W.vid].st = "pending" => completions[W.vid] = 0
  /\ ~chal[W.vid].live
  /\ W.pc = "complete" <=> W.method \notin Otp

CallSound == \A o \in Ops :
  /\ op[o].pc # "idle" => op[o].cand \in Claimants /\ op[o].at <= clock
  /\ Owning(o) => Fits(op[o])

OneCaller == \A o, p \in Ops : Owning(o) /\ Owning(p) /\ op[o].vid = op[p].vid => o = p

LeftTogether(v) == v \in Legacy /\ Legacy # {v} /\ \A x \in Legacy : chal[x].live

NewestLive == \A v \in Vids :
  chal[v].live => newest[ver[v].cand][ver[v].method] = v \/ LeftTogether(v)

CodesTimed == \A v \in Vids :
  chal[v].live /\ newest[ver[v].cand][ver[v].method] = v /\ issuedAt[ver[v].cand][ver[v].method] # NoTime
    => chal[v].expires <= issuedAt[ver[v].cand][ver[v].method] + CodeTTL

Proving == Otp \cup {"manual_review"}

Earned ==
  /\ \A c \in Claimants : proved[c] <= clock
  /\ \A v \in Vids : ver[v].st = "verified" /\ ver[v].method \in Proving =>
       /\ ver[v].expires # NoTime /\ proved[ver[v].cand] # NoTime
       /\ ver[v].expires <= proved[ver[v].cand] + OutcomeTTL

VerificationInv ==
  /\ VerificationTypeOK /\ RowSound /\ LegacySound /\ CallSound /\ OneCaller
  /\ NewestLive /\ CodesTimed /\ OneLiveCode /\ CompletedOnce /\ ErasureLeavesNothing /\ Earned

-----------------------------------------------------------------------------
\* Nothing is in flight and the inherited codes are the only live ones: the
\* invariant holds at the start.
LEMMA InitSound == ASSUME VerificationInit PROVE VerificationInv
<1> USE VerificationConstantsOK DEF VerificationInit, Blank, NoCode, Idle
<1>1. VerificationTypeOK
  <2>1. clock \in Nat /\ claimant \in [Claimants -> {"live", "erased"}]
    OBVIOUS
  <2>2. ver \in [Vids -> VerRows]
    BY DEF VerRows, Outcomes, Methods, Otp, Instant, NoTime
  <2>3. chal \in [Vids -> ChalRows]
    BY DEF ChalRows
  <2>4. op \in [Ops -> OpRecs]
    BY DEF OpRecs, Methods, Otp, Instant
  <2>5. completions \in [Vids -> Nat]
    OBVIOUS
  <2>6. newest \in [Claimants -> [Otp -> Vids \cup {Absent}]]
    BY DEF InheritedNewest
  <2>7. issuedAt \in [Claimants -> [Otp -> Nat \cup {NoTime}]] /\ proved \in [Claimants -> Nat \cup {NoTime}]
    OBVIOUS
  <2> QED
    BY <2>1, <2>2, <2>3, <2>4, <2>5, <2>6, <2>7 DEF VerificationTypeOK
<1>2. RowSound /\ LegacySound
  BY DEF RowSound, LegacySound, Otp
<1>3. CallSound /\ OneCaller
  BY DEF CallSound, OneCaller, Owning
<1>4. NewestLive
  <2> SUFFICES ASSUME NEW v \in Vids, chal[v].live
               PROVE newest[ver[v].cand][ver[v].method] = v \/ LeftTogether(v)
    BY DEF NewestLive
  <2>1. v \in Legacy /\ ver[v].cand = LegacyOwner /\ ver[v].method = "otp_email"
    OBVIOUS
  <2>2. newest[LegacyOwner]["otp_email"] = InheritedNewest
    BY DEF Otp
  <2>3. \A x \in Legacy : chal[x].live
    OBVIOUS
  <2> QED
    BY <2>1, <2>2, <2>3 DEF LeftTogether, InheritedNewest
<1>5. OneLiveCode /\ CompletedOnce /\ ErasureLeavesNothing
  BY DEF OneLiveCode, CompletedOnce, ErasureLeavesNothing, Outcomes
<1>6. Earned
  BY DEF Earned, NoTime
<1>7. CodesTimed
  BY DEF CodesTimed, Otp
<1> QED
  BY <1>1, <1>2, <1>3, <1>4, <1>5, <1>6, <1>7 DEF VerificationInv

-----------------------------------------------------------------------------
(* What most actions do: a call goes on with the attempt it has, or leaves.   *)

LEMMA CallMoves ==
  ASSUME VerificationInv, NEW o \in Ops, NEW e \in OpRecs, op' = [op EXCEPT ![o] = e],
         e.pc # "idle" => e.cand \in Claimants /\ e.at <= clock,
         e.pc \in {"issue", "undelivered", "complete"} =>
           Owning(o) /\ e.vid = op[o].vid /\ e.cand = op[o].cand /\ e.method = op[o].method
             /\ (e.pc = "complete" <=> e.method \notin Otp),
         UNCHANGED <<clock, claimant, ver, chal, history>>
  PROVE  VerificationInv'
<1> USE DEF VerificationInv, history
<1>1. VerificationTypeOK'
  BY DEF VerificationTypeOK
<1>2. op'[o] = e /\ \A p \in Ops : p # o => op'[p] = op[p]
  BY DEF VerificationTypeOK
<1>3. CallSound'
  <2> SUFFICES ASSUME NEW p \in Ops
               PROVE /\ op'[p].pc # "idle" => op'[p].cand \in Claimants /\ op'[p].at <= clock
                     /\ Owning(p)' => Fits(op[p])'
    BY DEF CallSound
  <2>1. CASE p = o
    BY <2>1, <1>2 DEF CallSound, Owning, Fits
  <2>2. CASE p # o
    BY <2>2, <1>2 DEF CallSound, Owning, Fits
  <2> QED
    BY <2>1, <2>2
<1>4. OneCaller'
  BY <1>2 DEF OneCaller, Owning
<1>5. (RowSound /\ LegacySound /\ OneLiveCode /\ CompletedOnce /\ ErasureLeavesNothing)'
  BY DEF RowSound, LegacySound, OneLiveCode, CompletedOnce, ErasureLeavesNothing
<1>6. NewestLive' /\ CodesTimed'
  BY DEF NewestLive, LeftTogether, CodesTimed
<1>7. Earned'
  BY DEF Earned
<1> QED
  BY <1>1, <1>3, <1>4, <1>5, <1>6, <1>7

\* The steps of a call that change nothing but the call.
LEMMA MoveKeepsInv ==
  ASSUME VerificationInv, NEW o \in Ops,
         \/ \E c \in Claimants, m \in Methods : Begin(o, c, m)
         \/ Parsed(o) \/ IssueRefused(o) \/ Unsent(o) \/ CallDies(o)
         \/ \E pc \in {"issue", "complete", "undelivered"} : Gone(o, pc)
  PROVE  VerificationInv'
<1> USE DEF history
<1>t. op[o] \in OpRecs /\ op \in [Ops -> OpRecs] /\ clock \in Nat
  BY DEF VerificationInv, VerificationTypeOK
<1>s. (op[o].pc # "idle" => op[o].cand \in Claimants /\ op[o].at <= clock) /\ (Owning(o) => Fits(op[o]))
  BY DEF VerificationInv, CallSound
<1>i. Idle \in OpRecs /\ Idle.pc = "idle"
  BY DEF Idle, OpRecs, Methods, Otp
<1>1. ASSUME Leave(o), UNCHANGED <<clock, claimant, ver, chal, history>> PROVE VerificationInv'
  <2>1. op' = [op EXCEPT ![o] = Idle]
    BY <1>1 DEF Leave
  <2> QED
    BY <1>1, <1>i, <2>1, CallMoves
<1>2. ASSUME NEW c \in Claimants, NEW m \in Methods, Begin(o, c, m) PROVE VerificationInv'
  <2> DEFINE e == [Idle EXCEPT !.pc = IF m = "document" THEN "parse" ELSE "create",
                               !.cand = c, !.method = m, !.at = clock]
  <2>1. e \in OpRecs /\ e.cand = c /\ e.at = clock /\ e.pc \in {"parse", "create"}
    BY <1>t DEF Idle, OpRecs
  <2>2. op' = [op EXCEPT ![o] = e]
    BY <1>2 DEF Begin
  <2>3. UNCHANGED <<clock, claimant, ver, chal, history>>
    BY <1>2 DEF Begin
  <2> HIDE DEF e
  <2>4. e.at <= clock /\ e.pc \notin {"issue", "undelivered", "complete"}
    BY <1>t, <2>1
  <2> QED
    BY <2>1, <2>2, <2>3, <2>4, CallMoves
<1>3. ASSUME Parsed(o) PROVE VerificationInv'
  <2> DEFINE e == [op[o] EXCEPT !.pc = "create", !.at = clock]
  <2>1. e \in OpRecs /\ e.cand = op[o].cand /\ e.at = clock /\ e.pc = "create"
    BY <1>t DEF OpRecs
  <2>2. UNCHANGED <<clock, claimant, ver, chal, history>> /\ op[o].cand \in Claimants
    BY <1>3, <1>s DEF Parsed, At
  <2>3. CASE op' = [op EXCEPT ![o].pc = "create", ![o].at = clock]
    <3>1. op' = [op EXCEPT ![o] = e]
      BY <2>3, <1>t
    <3> HIDE DEF e
    <3>2. e.at <= clock /\ e.pc \notin {"issue", "undelivered", "complete"}
      BY <1>t, <2>1
    <3> QED
      BY <2>1, <2>2, <3>1, <3>2, CallMoves
  <2> QED
    BY <1>3, <1>1, <2>2, <2>3 DEF Parsed
<1>4. ASSUME Unsent(o) PROVE VerificationInv'
  <2> DEFINE e == [op[o] EXCEPT !.pc = "undelivered"]
  <2>1. /\ e \in OpRecs /\ e.cand = op[o].cand /\ e.at = op[o].at /\ e.pc = "undelivered"
        /\ e.vid = op[o].vid /\ e.method = op[o].method
    BY <1>t DEF OpRecs
  <2>2. op[o].pc = "issue"
    BY <1>4 DEF Unsent, CanIssue, At
  <2>3. Owning(o) /\ op[o].method \in Otp
    BY <2>2, <1>s DEF Owning, Fits
  <2>4. op' = [op EXCEPT ![o] = e] /\ UNCHANGED <<clock, claimant, ver, chal, history>>
    BY <1>4, <1>t DEF Unsent, Goto, RollsBack
  <2> HIDE DEF e
  <2> QED
    BY <1>s, <2>1, <2>2, <2>3, <2>4, CallMoves
<1> QED
  BY <1>1, <1>2, <1>3, <1>4 DEF IssueRefused, CallDies, Gone

-----------------------------------------------------------------------------
(* A call acquires a fresh attempt, and a code is activated for it.            *)

LEMMA CreateKeepsInv ==
  ASSUME VerificationInv, NEW o \in Ops, Create(o)
  PROVE  VerificationInv'
<1> USE DEF VerificationInv, history
<1>t. op[o] \in OpRecs /\ op \in [Ops -> OpRecs] /\ ver \in [Vids -> VerRows]
  BY DEF VerificationTypeOK
<1>1. op[o].pc = "create" /\ op[o].cand \in Claimants /\ op[o].at <= clock
  BY DEF Create, At, CallSound
<1>2. CASE ~Known(op[o].cand)
  <2>1. op' = [op EXCEPT ![o] = Idle] /\ UNCHANGED <<clock, claimant, ver, chal, history>>
    BY <1>2 DEF Create, Leave
  <2>2. Idle \in OpRecs /\ Idle.pc = "idle"
    BY DEF Idle, OpRecs, Methods, Otp
  <2> QED
    BY <2>1, <2>2, CallMoves
<1>3. CASE Known(op[o].cand)
  <2>1. PICK v \in Vids :
          /\ ver[v].st = "free"
          /\ ver' = [ver EXCEPT ![v] = [Blank EXCEPT !.st = "pending", !.cand = op[o].cand,
                                                     !.method = op[o].method]]
          /\ op' = [op EXCEPT ![o].vid = v,
                              ![o].pc = IF op[o].method \in Otp THEN "issue" ELSE "complete"]
    BY <1>3 DEF Create
  <2> DEFINE e == [op[o] EXCEPT !.vid = v, !.pc = IF op[o].method \in Otp THEN "issue" ELSE "complete"]
             row == [Blank EXCEPT !.st = "pending", !.cand = op[o].cand, !.method = op[o].method]
  <2>2. /\ e \in OpRecs /\ e.cand = op[o].cand /\ e.at = op[o].at /\ e.vid = v /\ e.method = op[o].method
        /\ e.pc = IF op[o].method \in Otp THEN "issue" ELSE "complete"
    BY <1>t DEF OpRecs
  <2>3. /\ row \in VerRows /\ row.st = "pending" /\ row.cand = op[o].cand /\ row.method = op[o].method
    BY <1>t DEF OpRecs, VerRows, Blank, Outcomes, NoTime
  <2>4. op' = [op EXCEPT ![o] = e] /\ ver' = [ver EXCEPT ![v] = row]
    BY <2>1, <1>t
  <2> HIDE DEF e, row
  <2>5. op'[o] = e /\ \A p \in Ops : p # o => op'[p] = op[p]
    BY <2>4, <1>t
  <2>6. ver'[v] = row /\ \A x \in Vids : x # v => ver'[x] = ver[x]
    BY <2>4, <1>t
  <2>7. UNCHANGED <<clock, claimant, chal, completions, newest, issuedAt, proved>> /\ claimant[op[o].cand] = "live"
    BY <1>3 DEF Create, Known
  <2>8. ~chal[v].live /\ completions[v] = 0 /\ v \notin Legacy
    BY <2>1 DEF RowSound, LegacySound
  <2>9. \A p \in Ops : Owning(p) => op[p].vid # v
    BY <2>1 DEF CallSound, Fits
  <2>10. VerificationTypeOK'
    BY <2>2, <2>3, <2>4, <2>7 DEF VerificationTypeOK
  <2>11. RowSound' /\ LegacySound'
    BY <1>1, <2>3, <2>6, <2>7, <2>8, VerificationConstantsOK DEF RowSound, LegacySound
  <2>12. CallSound'
    <3> SUFFICES ASSUME NEW p \in Ops
                 PROVE /\ op'[p].pc # "idle" => op'[p].cand \in Claimants /\ op'[p].at <= clock'
                       /\ Owning(p)' => Fits(op[p])'
      BY DEF CallSound
    <3>1. CASE p = o
      BY <3>1, <1>1, <2>2, <2>3, <2>5, <2>6, <2>7, <2>8 DEF Fits
    <3>2. CASE p # o
      BY <3>2, <2>5, <2>6, <2>7, <2>9 DEF CallSound, Owning, Fits
    <3> QED
      BY <3>1, <3>2
  <2>13. OneCaller'
    BY <2>2, <2>5, <2>9 DEF OneCaller, Owning
  <2>14. NewestLive' /\ CodesTimed' /\ OneLiveCode'
    BY <2>6, <2>7, <2>8 DEF NewestLive, LeftTogether, CodesTimed, OneLiveCode
  <2>15. CompletedOnce' /\ ErasureLeavesNothing'
    BY <2>3, <2>6, <2>7, <2>8 DEF CompletedOnce, ErasureLeavesNothing
  <2>16. Earned'
    BY <2>3, <2>6, <2>7 DEF Earned
  <2> QED
    BY <2>10, <2>11, <2>12, <2>13, <2>14, <2>15, <2>16
<1> QED
  BY <1>2, <1>3

LEMMA IssueKeepsInv ==
  ASSUME VerificationInv, NEW o \in Ops, Issue(o)
  PROVE  VerificationInv'
<1> DEFINE v == op[o].vid
           c == ver[v].cand
           m == ver[v].method
           code == [live |-> TRUE, attempts |-> 0, expires |-> clock + CodeTTL, sent |-> clock]
<1> USE DEF VerificationInv
<1>t. /\ op \in [Ops -> OpRecs] /\ chal \in [Vids -> ChalRows] /\ clock \in Nat
      /\ newest \in [Claimants -> [Otp -> Vids \cup {Absent}]]
      /\ issuedAt \in [Claimants -> [Otp -> Nat \cup {NoTime}]]
  BY DEF VerificationTypeOK
<1>1. op[o].pc = "issue" /\ ver[v].st = "pending"
  BY DEF Issue, CanIssue, At
<1>2. /\ v \in Vids \ Legacy /\ c \in Claimants /\ m \in Otp /\ completions[v] = 0 /\ ~chal[v].live
  BY <1>1 DEF CallSound, Owning, Fits
<1>3. /\ chal' = [x \in Vids |-> IF x = v THEN code ELSE IF x \in Priors(v) THEN NoCode ELSE chal[x]]
      /\ newest' = [newest EXCEPT ![c][m] = v] /\ issuedAt' = [issuedAt EXCEPT ![c][m] = clock]
      /\ op' = [op EXCEPT ![o] = Idle]
      /\ UNCHANGED <<clock, claimant, ver, completions, proved>>
  BY DEF Issue, Activated, Leave
<1>4. code \in ChalRows /\ NoCode \in ChalRows /\ ~NoCode.live /\ code.live
  BY <1>t, VerificationConstantsOK DEF ChalRows, NoCode
<1> HIDE DEF code, v, c, m
<1>5. /\ chal'[v].live
      /\ \A x \in Vids : x # v /\ chal'[x].live =>
           /\ chal'[x] = chal[x] /\ chal[x].live
           /\ ~(ver[x].cand = c /\ ver[x].method = m)
  BY <1>2, <1>3, <1>4 DEF Priors, c, m
<1>6. newest'[c][m] = v /\ \A d \in Claimants, n \in Otp : ~(d = c /\ n = m) => newest'[d][n] = newest[d][n]
  BY <1>2, <1>3, <1>t
<1>7. op'[o] = Idle /\ \A p \in Ops : p # o => op'[p] = op[p]
  BY <1>3, <1>t
<1>8. Idle \in OpRecs /\ Idle.pc = "idle"
  BY DEF Idle, OpRecs, Methods, Otp
<1>9. VerificationTypeOK'
  <2>1. chal' \in [Vids -> ChalRows] /\ op' \in [Ops -> OpRecs]
    BY <1>3, <1>4, <1>8, <1>t
  <2>2. newest' \in [Claimants -> [Otp -> Vids \cup {Absent}]]
    BY <1>2, <1>3, <1>t
  <2>3. issuedAt' \in [Claimants -> [Otp -> Nat \cup {NoTime}]]
    BY <1>2, <1>3, <1>t
  <2> QED
    BY <1>3, <2>1, <2>2, <2>3 DEF VerificationTypeOK
<1>10. RowSound' /\ LegacySound'
  BY <1>1, <1>2, <1>3, <1>5 DEF RowSound, LegacySound, m
<1>11. CallSound'
  <2> SUFFICES ASSUME NEW p \in Ops, p # o
               PROVE /\ op[p].pc # "idle" => op[p].cand \in Claimants /\ op[p].at <= clock
                     /\ Owning(p) => Fits(op[p])'
    BY <1>3, <1>7, <1>8 DEF CallSound, Owning
  <2>1. Owning(p) => op[p].vid # v
    BY <1>1 DEF OneCaller, Owning, v
  <2> QED
    BY <1>3, <1>5, <2>1 DEF CallSound, Fits
<1>12. OneCaller'
  BY <1>7, <1>8 DEF OneCaller, Owning
<1>13. NewestLive'
  <2> SUFFICES ASSUME NEW x \in Vids, x # v, chal'[x].live
               PROVE  newest'[ver[x].cand][ver[x].method] = x \/ LeftTogether(x)'
    BY <1>3, <1>6 DEF NewestLive, c, m
  <2>1. /\ chal[x].live /\ ~(ver[x].cand = c /\ ver[x].method = m)
        /\ ver[x].cand \in Claimants /\ ver[x].method \in Otp
    BY <1>5 DEF RowSound
  <2>2. newest'[ver[x].cand][ver[x].method] = newest[ver[x].cand][ver[x].method]
    BY <1>6, <2>1
  <2>3. ASSUME LeftTogether(x) PROVE LeftTogether(x)'
    <3>1. ~(LegacyOwner = c /\ "otp_email" = m)
      BY <2>1, <2>3 DEF LeftTogether, LegacySound
    <3>2. \A y \in Legacy : y # v /\ y \notin Priors(v)
      BY <1>2, <3>1 DEF LegacySound, Priors, c, m
    <3> QED
      BY <1>3, <2>3, <3>2, VerificationConstantsOK DEF LeftTogether
  <2> QED
    BY <2>1, <2>2, <2>3 DEF NewestLive
<1>14. OneLiveCode'
  <2> SUFFICES ASSUME NEW x \in Vids, NEW y \in Vids, chal'[x].live, chal'[y].live,
                      ver[x].cand = ver[y].cand, ver[x].method = ver[y].method
               PROVE  x = y \/ {x, y} \subseteq Legacy
    BY <1>3 DEF OneLiveCode
  <2> QED
    BY <1>5 DEF OneLiveCode, c, m
<1>15. CompletedOnce' /\ ErasureLeavesNothing'
  BY <1>1, <1>3, <1>5 DEF CompletedOnce, ErasureLeavesNothing
<1>16. Earned'
  BY <1>3 DEF Earned
<1>17. CodesTimed'
  <2>1. /\ issuedAt'[c][m] = clock
        /\ \A d \in Claimants, n \in Otp : ~(d = c /\ n = m) => issuedAt'[d][n] = issuedAt[d][n]
    BY <1>2, <1>3, <1>t
  <2>2. chal'[v].expires = clock + CodeTTL
    BY <1>2, <1>3 DEF code
  <2>3. ASSUME NEW x \in Vids, x # v, chal'[x].live, newest'[ver[x].cand][ver[x].method] = x,
               issuedAt'[ver[x].cand][ver[x].method] # NoTime
        PROVE  chal'[x].expires <= issuedAt'[ver[x].cand][ver[x].method] + CodeTTL
    <3>1. /\ chal[x].live /\ chal'[x] = chal[x] /\ ~(ver[x].cand = c /\ ver[x].method = m)
          /\ ver[x].cand \in Claimants /\ ver[x].method \in Otp
      BY <1>5, <2>3 DEF RowSound
    <3> QED
      BY <1>6, <2>1, <2>3, <3>1 DEF CodesTimed
  <2>4. clock + CodeTTL <= clock + CodeTTL
    BY <1>t, VerificationConstantsOK
  <2> QED
    BY <1>3, <2>1, <2>2, <2>3, <2>4 DEF CodesTimed, c, m
<1> QED
  BY <1>9, <1>10, <1>11, <1>12, <1>13, <1>14, <1>15, <1>16, <1>17

-----------------------------------------------------------------------------
(* An attempt is completed, or its code goes.                                  *)

\* The codes that were left together are in each other's way.
LEMMA TogetherCompete ==
  ASSUME VerificationInv, NEW v \in Legacy, NEW x \in Vids, LeftTogether(x)
  PROVE  Competing(v) # {}
<1>1. PICK y \in Legacy : y # v
  BY DEF LeftTogether
<1>2. chal[y].live /\ ver[y].cand = ver[v].cand /\ ver[y].method = ver[v].method
  BY DEF VerificationInv, LegacySound, LeftTogether
<1> QED
  BY <1>1, <1>2, VerificationConstantsOK DEF Competing, Priors

LEMMA CodeGoes ==
  ASSUME VerificationInv, NEW v \in Vids, chal[v].live => Competing(v) = {},
         NEW e \in ChalRows, chal' = [chal EXCEPT ![v] = e],
         e.live => chal[v].live /\ e.expires = chal[v].expires,
         \A x \in Vids : ver'[x].cand = ver[x].cand /\ ver'[x].method = ver[x].method,
         UNCHANGED <<newest, issuedAt>>
  PROVE  (\A x \in Vids : chal'[x].live => chal[x].live) /\ NewestLive' /\ CodesTimed' /\ OneLiveCode'
<1> USE DEF VerificationInv
<1>1. \A x \in Vids : chal'[x].live => chal[x].live
  BY DEF VerificationTypeOK
<1>2. NewestLive'
  <2> SUFFICES ASSUME NEW x \in Vids, chal'[x].live
               PROVE  newest[ver[x].cand][ver[x].method] = x \/ LeftTogether(x)'
    BY DEF NewestLive
  <2>1. ASSUME LeftTogether(x) PROVE LeftTogether(x)'
    <3>1. ~(v \in Legacy)
      BY <2>1, TogetherCompete DEF LeftTogether
    <3> QED
      BY <2>1, <3>1, VerificationConstantsOK DEF LeftTogether, VerificationTypeOK
  <2> QED
    BY <1>1, <2>1 DEF NewestLive
<1>3. OneLiveCode'
  BY <1>1 DEF OneLiveCode
<1>4. CodesTimed'
  <2>1. \A x \in Vids : chal'[x].live => chal'[x].expires = chal[x].expires
    BY DEF VerificationTypeOK
  <2> QED
    BY <1>1, <2>1 DEF CodesTimed
<1> QED
  BY <1>1, <1>2, <1>3, <1>4

LEMMA CompletedKeepsInv ==
  ASSUME VerificationInv, NEW v \in Vids, NEW st \in Outcomes, NEW at \in Nat, at <= clock,
         Completed(v, st, at),
         ver[v].st = "pending", completions[v] = 0, st = "pending" => ver[v].method \notin Otp,
         chal[v].live => Competing(v) = {},
         NEW dead \in ChalRows, ~dead.live, chal' = [chal EXCEPT ![v] = dead],
         \/ proved' = [proved EXCEPT ![ver[v].cand] = clock]
         \/ proved' = proved /\ ~(st = "verified" /\ ver[v].method \in Proving),
         op' \in [Ops -> OpRecs],
         \A p \in Ops : op'[p].pc = "idle" \/ (op'[p] = op[p] /\ (Owning(p) => op[p].vid # v)),
         UNCHANGED <<clock, claimant, newest, issuedAt>>
  PROVE  VerificationInv'
<1> DEFINE until == IF st = "verified" THEN at + OutcomeTTL ELSE ver[v].expires
           row == [ver[v] EXCEPT !.st = st, !.expires = until]
<1> USE DEF VerificationInv
<1>t. /\ ver \in [Vids -> VerRows] /\ chal \in [Vids -> ChalRows] /\ clock \in Nat
      /\ completions \in [Vids -> Nat] /\ proved \in [Claimants -> Nat \cup {NoTime}]
  BY DEF VerificationTypeOK
<1>1. ver[v] \in VerRows /\ ver[v].cand \in Claimants /\ claimant[ver[v].cand] = "live"
  BY <1>t DEF RowSound, ErasureLeavesNothing, Outcomes
<1>2. /\ row \in VerRows /\ row.st = st /\ row.cand = ver[v].cand /\ row.method = ver[v].method
      /\ st = "verified" => row.expires = at + OutcomeTTL
  <2>1. until \in Nat \cup {NoTime} /\ (st = "verified" => until = at + OutcomeTTL)
    BY <1>1, VerificationConstantsOK DEF VerRows
  <2> HIDE DEF until
  <2> QED
    BY <1>1, <2>1 DEF VerRows
<1>3. ver' = [ver EXCEPT ![v] = row] /\ completions' = [completions EXCEPT ![v] = completions[v] + 1]
  BY <1>t DEF Completed
<1> HIDE DEF row
<1>4. ver'[v] = row /\ \A x \in Vids : x # v => ver'[x] = ver[x]
  BY <1>3, <1>t
<1>5. completions'[v] = 1 /\ \A x \in Vids : x # v => completions'[x] = completions[x]
  BY <1>3, <1>t
<1>6. ~chal'[v].live /\ \A x \in Vids : x # v => chal'[x] = chal[x]
  BY <1>t
<1>7. \A x \in Vids : ver'[x].cand = ver[x].cand /\ ver'[x].method = ver[x].method
  BY <1>2, <1>4
<1>8. VerificationTypeOK'
  <2>1. ver' \in [Vids -> VerRows] /\ completions' \in [Vids -> Nat]
    BY <1>2, <1>3, <1>t
  <2>2. chal' \in [Vids -> ChalRows] /\ proved' \in [Claimants -> Nat \cup {NoTime}]
    BY <1>6, <1>t
  <2> QED
    BY <2>1, <2>2 DEF VerificationTypeOK
<1>9. RowSound' /\ LegacySound'
  <2>1. RowSound'
    BY <1>1, <1>2, <1>4, <1>5, <1>6, <1>7 DEF RowSound, Outcomes
  <2>2. LegacySound'
    BY <1>2, <1>4, <1>7, VerificationConstantsOK DEF LegacySound, Outcomes
  <2> QED
    BY <2>1, <2>2
<1>10. CallSound'
  <2> SUFFICES ASSUME NEW p \in Ops, op'[p] = op[p], Owning(p) => op[p].vid # v
               PROVE /\ op[p].pc # "idle" => op[p].cand \in Claimants /\ op[p].at <= clock
                     /\ Owning(p) => Fits(op[p])'
    BY DEF CallSound, Owning
  <2> QED
    BY <1>4, <1>5, <1>6 DEF CallSound, Fits
<1>11. OneCaller'
  BY DEF OneCaller, Owning
<1>12. NewestLive' /\ CodesTimed' /\ OneLiveCode'
  BY <1>6, <1>7, CodeGoes
<1>13. CompletedOnce'
  BY <1>4, <1>5 DEF CompletedOnce
<1>14. ErasureLeavesNothing'
  BY <1>1, <1>2, <1>4, <1>6 DEF ErasureLeavesNothing
<1>15. \A c \in Claimants : proved'[c] <= clock /\ (proved[c] # NoTime => proved'[c] # NoTime /\ proved[c] <= proved'[c])
  BY <1>t DEF Earned, NoTime
<1>16. Earned'
  <2> SUFFICES ASSUME NEW x \in Vids, ver'[x].st = "verified", ver'[x].method \in Proving
               PROVE  /\ ver'[x].expires # NoTime /\ proved'[ver'[x].cand] # NoTime
                      /\ ver'[x].expires <= proved'[ver'[x].cand] + OutcomeTTL
    BY <1>15 DEF Earned
  <2>1. CASE x = v
    <3>1. proved'[ver[v].cand] = clock /\ row.expires = at + OutcomeTTL
      BY <1>1, <1>2, <1>4, <1>t, <2>1
    <3> QED
      BY <1>2, <1>4, <1>t, <2>1, <3>1, VerificationConstantsOK DEF NoTime
  <2>2. CASE x # v
    <3>1. /\ ver'[x] = ver[x] /\ ver[x].cand \in Claimants
          /\ ver[x].expires # NoTime /\ proved[ver[x].cand] # NoTime
          /\ ver[x].expires <= proved[ver[x].cand] + OutcomeTTL
      BY <1>4, <2>2 DEF Earned, RowSound
    <3>2. ver[x].expires \in Nat \cup {NoTime} /\ proved[ver[x].cand] \in Nat \cup {NoTime}
      BY <1>t, <3>1 DEF VerRows
    <3>3. proved'[ver[x].cand] \in Nat \cup {NoTime}
      BY <1>8, <3>1 DEF VerificationTypeOK
    <3> QED
      BY <1>15, <3>1, <3>2, <3>3, VerificationConstantsOK DEF NoTime
  <2> QED
    BY <2>1, <2>2
<1> QED
  BY <1>8, <1>9, <1>10, <1>11, <1>12, <1>13, <1>14, <1>16

\* complete_verification, in a transaction of its own, by a call that owns the attempt.
LEMMA CallCompletes ==
  ASSUME VerificationInv, NEW o \in Ops, Complete(o) \/ MarkUndelivered(o)
  PROVE  VerificationInv'
<1> DEFINE v == op[o].vid
<1>t. /\ op \in [Ops -> OpRecs] /\ clock \in Nat /\ chal \in [Vids -> ChalRows]
  BY DEF VerificationInv, VerificationTypeOK
<1>1. Owning(o)
  BY DEF Owning, Complete, MarkUndelivered, At
<1>2. Fits(op[o]) /\ op[o].cand \in Claimants /\ op[o].at <= clock /\ op[o].at \in Nat
  BY <1>1, <1>t DEF VerificationInv, CallSound, Owning, OpRecs
<1>3. /\ v \in Vids /\ ver[v].st = "pending" /\ completions[v] = 0 /\ ~chal[v].live
      /\ ver[v].cand = op[o].cand /\ ver[v].method = op[o].method
  BY <1>2 DEF Fits, Complete, MarkUndelivered
<1>4. op' = [op EXCEPT ![o] = Idle] /\ Idle \in OpRecs /\ Idle.pc = "idle"
  BY DEF Complete, MarkUndelivered, Leave, Idle, OpRecs, Methods, Otp
<1>5. /\ op' \in [Ops -> OpRecs]
      /\ \A p \in Ops : op'[p].pc = "idle" \/ (op'[p] = op[p] /\ (Owning(p) => op[p].vid # v))
  BY <1>1, <1>4, <1>t DEF VerificationInv, OneCaller
<1>6. chal[v] \in ChalRows /\ ~chal[v].live /\ chal' = [chal EXCEPT ![v] = chal[v]]
  BY <1>3, <1>t DEF Complete, MarkUndelivered
<1>7. CASE Complete(o)
  <2>1. op[o].pc = "complete" /\ op[o].method \notin Otp
    BY <1>2, <1>7 DEF Complete, At, Fits
  <2>2. PICK st \in CASE op[o].method = "self_attested" -> {"verified"}
                      [] op[o].method = "document" -> {"verified", "failed"}
                      [] OTHER -> Outcomes :
          /\ Completed(v, st, op[o].at)
          /\ proved' = IF op[o].method = "manual_review" /\ st = "verified"
                       THEN [proved EXCEPT ![op[o].cand] = clock] ELSE proved
    BY <1>7 DEF Complete
  <2>3. st \in Outcomes
    BY <2>2 DEF Outcomes
  <2>4. \/ proved' = [proved EXCEPT ![ver[v].cand] = clock]
        \/ proved' = proved /\ ~(st = "verified" /\ ver[v].method \in Proving)
    BY <1>3, <2>1, <2>2 DEF Proving
  <2>5. UNCHANGED <<clock, claimant, newest, issuedAt>>
    BY <1>7 DEF Complete
  <2> HIDE DEF v
  <2> QED
    BY <1>2, <1>3, <1>5, <1>6, <2>1, <2>2, <2>3, <2>4, <2>5, CompletedKeepsInv
<1>8. CASE MarkUndelivered(o)
  <2>1. Completed(v, "failed", clock) /\ UNCHANGED <<clock, claimant, newest, issuedAt, proved>>
    BY <1>8 DEF MarkUndelivered
  <2>2. clock <= clock /\ "failed" \in Outcomes /\ "failed" # "pending"
    BY <1>t DEF Outcomes
  <2> HIDE DEF v
  <2> QED
    BY <1>3, <1>5, <1>6, <1>t, <2>1, <2>2, CompletedKeepsInv
<1> QED
  BY <1>7, <1>8

\* confirm_challenge.
LEMMA ConfirmKeepsInv ==
  ASSUME VerificationInv, NEW v \in Vids, Confirm(v)
  PROVE  VerificationInv'
<1>t. /\ op \in [Ops -> OpRecs] /\ clock \in Nat /\ chal \in [Vids -> ChalRows]
  BY DEF VerificationInv, VerificationTypeOK
<1>1. /\ ver[v].st = "pending" /\ chal[v].live /\ Competing(v) = {}
      /\ ver[v].method \in Otp /\ completions[v] = 0
  BY DEF Confirm, ConfirmExpired, ConfirmWrong, ConfirmRight, Confirmable, VerificationInv, RowSound
<1>2. \A p \in Ops : Owning(p) => op[p].vid # v
  BY <1>1 DEF VerificationInv, CallSound, Fits
<1>3. NoCode \in ChalRows /\ ~NoCode.live
  BY VerificationConstantsOK DEF NoCode, ChalRows
<1>4. UNCHANGED <<clock, claimant, op, newest, issuedAt>>
  BY DEF Confirm, ConfirmExpired, ConfirmWrong, ConfirmRight, history
<1>5. ASSUME NEW e \in ChalRows, chal' = [chal EXCEPT ![v] = e], e.live => e.expires = chal[v].expires,
             UNCHANGED <<ver, completions, proved>>
      PROVE  VerificationInv'
  <2>1. (\A x \in Vids : chal'[x].live => chal[x].live) /\ NewestLive' /\ CodesTimed' /\ OneLiveCode'
    BY <1>1, <1>4, <1>5, CodeGoes
  <2>2. VerificationTypeOK'
    BY <1>4, <1>5, <1>t DEF VerificationInv, VerificationTypeOK
  <2>3. (RowSound /\ LegacySound /\ CompletedOnce /\ ErasureLeavesNothing /\ Earned)'
    BY <1>4, <1>5, <2>1 DEF VerificationInv, RowSound, LegacySound, CompletedOnce, ErasureLeavesNothing, Earned
  <2>4. CallSound' /\ OneCaller'
    BY <1>4, <1>5, <2>1 DEF VerificationInv, CallSound, OneCaller, Owning, Fits
  <2> QED
    BY <2>1, <2>2, <2>3, <2>4 DEF VerificationInv
<1>6. ASSUME NEW st \in {"verified", "failed"}, Completed(v, st, clock), Drop(v),
             \/ st = "verified" /\ proved' = [proved EXCEPT ![ver[v].cand] = clock]
             \/ st = "failed" /\ proved' = proved
      PROVE  VerificationInv'
  <2>1. st \in Outcomes /\ st # "pending" /\ clock <= clock
    BY <1>t DEF Outcomes
  <2>2. chal' = [chal EXCEPT ![v] = NoCode]
    BY <1>6 DEF Drop
  <2>3. \/ proved' = [proved EXCEPT ![ver[v].cand] = clock]
        \/ proved' = proved /\ ~(st = "verified" /\ ver[v].method \in Proving)
    BY <1>6
  <2> QED
    BY <1>1, <1>2, <1>3, <1>4, <1>t, <1>6, <2>1, <2>2, <2>3, CompletedKeepsInv
<1>7. CASE ConfirmExpired(v)
  BY <1>3, <1>5, <1>7 DEF ConfirmExpired, Drop, history
<1>8. CASE ConfirmRight(v)
  BY <1>6, <1>8 DEF ConfirmRight
<1>9. CASE ConfirmWrong(v)
  <2> DEFINE n == IF AttemptsExhausted(chal[v].attempts) THEN chal[v].attempts ELSE chal[v].attempts + 1
             e == [chal[v] EXCEPT !.attempts = n]
  <2>1. CASE AttemptsExhausted(n)
    BY <1>6, <1>9, <2>1 DEF ConfirmWrong
  <2>2. CASE ~AttemptsExhausted(n)
    <3>1. chal' = [chal EXCEPT ![v] = e] /\ UNCHANGED <<ver, completions, proved>>
      BY <1>9, <2>2, <1>t DEF ConfirmWrong
    <3>2. n \in 0..MaxAttempts
      BY <2>2, <1>t, VerificationConstantsOK DEF AttemptsExhausted, ChalRows
    <3>3. e \in ChalRows /\ e.expires = chal[v].expires
      <4> HIDE DEF n
      <4> QED
        BY <3>2, <1>t DEF ChalRows
    <3> HIDE DEF e
    <3> QED
      BY <1>5, <3>1, <3>3
  <2> QED
    BY <2>1, <2>2
<1> QED
  BY <1>7, <1>8, <1>9 DEF Confirm

-----------------------------------------------------------------------------
(* Erasure and time.                                                           *)

LEMMA EraseKeepsInv ==
  ASSUME VerificationInv, NEW c \in Claimants, EraseClaimant(c)
  PROVE  VerificationInv'
<1> USE DEF VerificationInv, history
<1>t. ver \in [Vids -> VerRows] /\ chal \in [Vids -> ChalRows]
  BY DEF VerificationTypeOK
<1>1. /\ UNCHANGED <<clock, op, completions, newest, issuedAt, proved>>
      /\ claimant' = [claimant EXCEPT ![c] = "erased"]
      /\ ver' = [v \in Vids |-> IF ver[v].cand = c THEN [ver[v] EXCEPT !.st = "erased"] ELSE ver[v]]
      /\ chal' = [v \in Vids |-> IF ver[v].cand = c THEN NoCode ELSE chal[v]]
  BY DEF EraseClaimant
<1>2. NoCode \in ChalRows /\ ~NoCode.live
  BY VerificationConstantsOK DEF NoCode, ChalRows
<1>3. ASSUME NEW v \in Vids
      PROVE  /\ ver'[v] \in VerRows /\ ver'[v].cand = ver[v].cand /\ ver'[v].method = ver[v].method
             /\ ver[v].cand = c => ver'[v].st = "erased" /\ ~chal'[v].live
             /\ ver[v].cand # c => ver'[v] = ver[v] /\ chal'[v] = chal[v]
  BY <1>1, <1>2, <1>t DEF VerRows
<1>4. VerificationTypeOK'
  <2>1. ver' \in [Vids -> VerRows] /\ chal' \in [Vids -> ChalRows]
    BY <1>1, <1>2, <1>3, <1>t
  <2> QED
    BY <1>1, <2>1 DEF VerificationTypeOK
<1>5. RowSound' /\ LegacySound'
  <2>1. RowSound'
    BY <1>1, <1>3 DEF RowSound
  <2>2. LegacySound'
    BY <1>3, VerificationConstantsOK DEF LegacySound
  <2> QED
    BY <2>1, <2>2
<1>6. CallSound' /\ OneCaller'
  <2>1. CallSound'
    BY <1>1, <1>3 DEF CallSound, Owning, Fits
  <2>2. OneCaller'
    BY <1>1 DEF OneCaller, Owning
  <2> QED
    BY <2>1, <2>2
<1>c. CodesTimed'
  BY <1>1, <1>3 DEF CodesTimed
<1>7. NewestLive'
  <2> SUFFICES ASSUME NEW v \in Vids, chal'[v].live
               PROVE  newest[ver[v].cand][ver[v].method] = v \/ LeftTogether(v)'
    BY <1>1, <1>3 DEF NewestLive
  <2>1. chal[v].live /\ ver[v].cand # c
    BY <1>3
  <2>2. ASSUME LeftTogether(v) PROVE LeftTogether(v)'
    BY <1>3, <2>1, <2>2, VerificationConstantsOK DEF LeftTogether, LegacySound
  <2> QED
    BY <2>1, <2>2 DEF NewestLive
<1>8. OneLiveCode' /\ CompletedOnce'
  <2>1. \A v \in Vids : chal'[v].live => chal[v].live
    BY <1>3
  <2>2. OneLiveCode'
    BY <1>3, <2>1 DEF OneLiveCode
  <2>3. CompletedOnce'
    BY <1>1, <1>3 DEF CompletedOnce, Outcomes
  <2> QED
    BY <2>2, <2>3
<1>9. ErasureLeavesNothing'
  <2>1. \A d \in Claimants : d # c => claimant'[d] = claimant[d]
    BY <1>1 DEF VerificationTypeOK
  <2> QED
    BY <1>3, <2>1 DEF ErasureLeavesNothing, RowSound, Outcomes
<1>10. Earned'
  BY <1>1, <1>3 DEF Earned
<1> QED
  BY <1>4, <1>5, <1>6, <1>c, <1>7, <1>8, <1>9, <1>10

LEMMA TickKeepsInv ==
  ASSUME VerificationInv, Tick
  PROVE  VerificationInv'
<1> USE DEF VerificationInv, Tick, history
<1>1. clock \in Nat /\ clock' = clock + 1
  BY DEF VerificationTypeOK
<1>2. VerificationTypeOK'
  BY <1>1 DEF VerificationTypeOK
<1>3. (RowSound /\ LegacySound /\ OneCaller /\ OneLiveCode /\ CompletedOnce /\ ErasureLeavesNothing)'
  BY DEF RowSound, LegacySound, OneCaller, Owning, OneLiveCode, CompletedOnce, ErasureLeavesNothing
<1>4. NewestLive' /\ CodesTimed'
  BY DEF NewestLive, LeftTogether, CodesTimed
<1>5. CallSound'
  BY <1>1 DEF CallSound, Owning, Fits, VerificationTypeOK, OpRecs
<1>6. Earned'
  BY <1>1 DEF Earned, VerificationTypeOK, NoTime
<1> QED
  BY <1>2, <1>3, <1>4, <1>5, <1>6

\* Every step keeps the invariant.
LEMMA StepSound == ASSUME VerificationInv, [VerificationNext]_verificationVars PROVE VerificationInv'
<1>1. CASE UNCHANGED verificationVars
  BY <1>1 DEF VerificationInv, verificationVars, VerificationTypeOK, RowSound, LegacySound, CallSound, Owning, Fits,
     OneCaller, NewestLive, LeftTogether, CodesTimed, OneLiveCode, CompletedOnce, ErasureLeavesNothing, Earned
<1>2. CASE VerificationNext
  BY <1>2, MoveKeepsInv, CreateKeepsInv, IssueKeepsInv, CallCompletes, ConfirmKeepsInv, EraseKeepsInv, TickKeepsInv
     DEF VerificationNext, Step
<1> QED
  BY <1>1, <1>2

-----------------------------------------------------------------------------
(* Assurance is the highest level that is held.                                *)

LEMMA AssuranceHeld ==
  ASSUME VerificationInv, NEW c \in Claimants, Assurance(c, clock) >= 2
  PROVE  \E v \in Vids : /\ ver[v].cand = c /\ EffectiveStatus(v, clock) = "verified"
                         /\ ver[v].method \in Proving
<1> DEFINE H == Held(c, clock)
<1>1. \A v \in Vids : Level(ver[v].method) \in {0, 1, 2, 3} /\ (Level(ver[v].method) >= 2 => ver[v].method \in Proving)
  <2>1. \A m \in Otp : Level(m) = 2 /\ m \in Proving
    BY DEF Otp, Level, Proving
  <2>2. Level("self_attested") = 1 /\ Level("document") = 0
    BY DEF Otp, Level
  <2>3. Level("manual_review") = 3 /\ "manual_review" \in Proving
    BY DEF Otp, Level, Proving
  <2>4. \A v \in Vids : \/ ver[v].method \in Otp
                        \/ ver[v].method \in {"self_attested", "document", "manual_review"}
    BY DEF VerificationInv, VerificationTypeOK, VerRows, Methods, Instant
  <2> QED
    BY <2>1, <2>2, <2>3, <2>4
<1>2. H \subseteq {0, 1, 2, 3}
  BY <1>1 DEF Held
<1>3. H # {}
  BY DEF Assurance
<1>4. \E n \in H : \A k \in H : k <= n
  <2> HIDE DEF H
  <2>1. CASE 3 \in H
    BY <1>2, <2>1
  <2>2. CASE 3 \notin H /\ 2 \in H
    BY <1>2, <2>2
  <2>3. CASE 3 \notin H /\ 2 \notin H /\ 1 \in H
    BY <1>2, <2>3
  <2>4. CASE 3 \notin H /\ 2 \notin H /\ 1 \notin H
    <3>1. PICK k \in H : TRUE
      BY <1>3
    <3>2. k = 0 /\ \A j \in H : j = 0
      BY <1>2, <2>4
    <3> QED
      BY <3>1, <3>2
  <2> QED
    BY <2>1, <2>2, <2>3, <2>4
<1>5. Assurance(c, clock) \in H
  BY <1>3, <1>4 DEF Assurance
<1>6. PICK v \in Vids : /\ ver[v].cand = c /\ EffectiveStatus(v, clock) = "verified"
                        /\ Level(ver[v].method) = Assurance(c, clock)
  BY <1>5 DEF Held
<1> QED
  BY <1>1, <1>6

LEMMA EarnedAssurance == ASSUME VerificationInv PROVE AssuranceEarned
<1> SUFFICES ASSUME NEW c \in Claimants, Assurance(c, clock) >= 2
             PROVE  proved[c] # NoTime /\ clock < proved[c] + OutcomeTTL
  BY DEF AssuranceEarned
<1>1. PICK v \in Vids : /\ ver[v].cand = c /\ EffectiveStatus(v, clock) = "verified" /\ ver[v].method \in Proving
  BY AssuranceHeld
<1>2. ver[v].st = "verified" /\ ~(ver[v].expires # NoTime /\ ver[v].expires <= clock)
  BY <1>1 DEF EffectiveStatus
<1>3. ver[v].expires # NoTime /\ proved[c] # NoTime /\ ver[v].expires <= proved[c] + OutcomeTTL
  BY <1>1, <1>2 DEF VerificationInv, Earned
<1>4. ver[v].expires \in Nat \cup {NoTime} /\ proved[c] \in Nat \cup {NoTime} /\ clock \in Nat
  BY DEF VerificationInv, VerificationTypeOK, VerRows
<1> QED
  BY <1>2, <1>3, <1>4, VerificationConstantsOK DEF NoTime

-----------------------------------------------------------------------------
LEMMA Invariance == VerificationSpec => []VerificationInv
BY InitSound, StepSound, PTL DEF VerificationSpec

\* Clocks, rows, codes and calls keep to their types: a code's wrong guesses never
\* exceed the budget, whatever the order of confirmations.
THEOREM VerificationTyped == VerificationSpec => []VerificationTypeOK
<1>1. VerificationInv => VerificationTypeOK
  BY DEF VerificationInv
<1> QED
  BY <1>1, Invariance, PTL

\* At most one code per candidate and channel is live, however many starts overlap and
\* whatever an older release left behind (create_challenge supersedes under the lock).
THEOREM LiveCodesExclude == VerificationSpec => []OneLiveCode
<1>1. VerificationInv => OneLiveCode
  BY DEF VerificationInv
<1> QED
  BY <1>1, Invariance, PTL

\* No attempt is completed twice, and none has an outcome nobody recorded.
THEOREM CompletionsAreFinal == VerificationSpec => []CompletedOnce
<1>1. VerificationInv => CompletedOnce
  BY DEF VerificationInv
<1> QED
  BY <1>1, Invariance, PTL

\* Erasure orders itself with every call in flight: nothing of the erased is written
\* and no code of theirs lives.
THEOREM VerificationErases == VerificationSpec => []ErasureLeavesNothing
<1>1. VerificationInv => ErasureLeavesNothing
  BY DEF VerificationInv
<1> QED
  BY <1>1, Invariance, PTL

\* What compute_assurance reports as contact control or more was proved, and lapses no
\* later than the proof does.
THEOREM AssuranceIsEarned == VerificationSpec => []AssuranceEarned
BY EarnedAssurance, Invariance, PTL

\* Only the newest code of a contact verifies it, and only within its lifetime:
\* superseded codes are gone, and those whose order nobody knows are refused together.
THEOREM NewestCodeVerifies == VerificationSpec => NewestCodeOnly
<1> DEFINE A == \A v \in Vids :
                  ver[v].st = "pending" /\ ver'[v].st = "verified" /\ ver[v].method \in Otp
                    => /\ newest[ver[v].cand][ver[v].method] = v
                       /\ \/ issuedAt[ver[v].cand][ver[v].method] = NoTime
                          \/ clock < issuedAt[ver[v].cand][ver[v].method] + CodeTTL
<1>1. ASSUME VerificationInv, VerificationNext PROVE A
  <2> SUFFICES ASSUME NEW v \in Vids, ver[v].st = "pending", ver'[v].st = "verified", ver[v].method \in Otp
               PROVE  /\ newest[ver[v].cand][ver[v].method] = v
                      /\ \/ issuedAt[ver[v].cand][ver[v].method] = NoTime
                         \/ clock < issuedAt[ver[v].cand][ver[v].method] + CodeTTL
    OBVIOUS
  <2>1. ConfirmRight(v)
    <3>t. ver \in [Vids -> VerRows]
      BY <1>1 DEF VerificationInv, VerificationTypeOK
    <3>1. ASSUME ver' = ver PROVE FALSE
      BY <3>1
    <3>2. ASSUME NEW x \in Vids, NEW st, NEW at, Completed(x, st, at) PROVE x = v /\ st = "verified"
      BY <3>2, <3>t DEF Completed
    <3>3. ASSUME NEW o \in Ops, Create(o) PROVE FALSE
      BY <3>3, <3>t DEF Create
    <3>4. ASSUME NEW o \in Ops, Complete(o) PROVE FALSE
      <4>1. op[o].pc = "complete" /\ \E st : Completed(op[o].vid, st, op[o].at)
        BY <3>4 DEF Complete, At
      <4>2. op[o].vid \in Vids /\ ver[op[o].vid].method \notin Otp
        BY <1>1, <4>1 DEF VerificationInv, CallSound, Owning, Fits
      <4> QED
        BY <3>2, <4>1, <4>2
    <3>5. ASSUME NEW o \in Ops, MarkUndelivered(o) PROVE FALSE
      <4>1. op[o].vid \in Vids
        BY <1>1, <3>5 DEF MarkUndelivered, At, VerificationInv, CallSound, Owning, Fits
      <4> QED
        BY <3>2, <3>5, <4>1 DEF MarkUndelivered
    <3>6. ASSUME NEW c \in Claimants, EraseClaimant(c) PROVE FALSE
      BY <3>6, <3>t DEF EraseClaimant
    <3>7. ASSUME NEW x \in Vids, Confirm(x) PROVE x = v /\ ConfirmRight(x)
      <4>1. CASE ConfirmExpired(x)
        BY <3>1, <4>1 DEF ConfirmExpired
      <4>2. CASE ConfirmWrong(x)
        BY <3>1, <3>2, <4>2 DEF ConfirmWrong
      <4>3. CASE ConfirmRight(x)
        BY <3>2, <4>3 DEF ConfirmRight
      <4> QED
        BY <3>7, <4>1, <4>2, <4>3 DEF Confirm
    <3>8. ASSUME NEW o \in Ops,
                 \/ \E c \in Claimants, m \in Methods : Begin(o, c, m)
                 \/ Parsed(o) \/ IssueRefused(o) \/ Issue(o) \/ Unsent(o) \/ CallDies(o)
                 \/ \E pc \in {"issue", "complete", "undelivered"} : Gone(o, pc)
          PROVE  FALSE
      BY <3>1, <3>8 DEF Begin, Parsed, IssueRefused, Issue, Unsent, CallDies, Gone
    <3>9. ASSUME Tick PROVE FALSE
      BY <3>1, <3>9 DEF Tick
    <3> QED
      BY <1>1, <3>3, <3>4, <3>5, <3>6, <3>7, <3>8, <3>9 DEF VerificationNext, Step
  <2>2. chal[v].live /\ Competing(v) = {} /\ ~CodeExpired(v)
    BY <2>1 DEF ConfirmRight, Confirmable
  <2>3. newest[ver[v].cand][ver[v].method] = v
    BY <1>1, <2>2, TogetherCompete DEF VerificationInv, NewestLive, LeftTogether
  <2>4. ASSUME issuedAt[ver[v].cand][ver[v].method] # NoTime
        PROVE  clock < issuedAt[ver[v].cand][ver[v].method] + CodeTTL
    <3>1. chal[v].expires <= issuedAt[ver[v].cand][ver[v].method] + CodeTTL /\ ~(chal[v].expires <= clock)
      BY <1>1, <2>2, <2>3, <2>4 DEF VerificationInv, CodesTimed, CodeExpired
    <3>2. ver[v].cand \in Claimants /\ clock \in Nat /\ chal[v].expires \in Nat
      BY <1>1, <2>2 DEF VerificationInv, VerificationTypeOK, RowSound, ChalRows
    <3>3. issuedAt[ver[v].cand][ver[v].method] \in Nat
      BY <1>1, <2>4, <3>2 DEF VerificationInv, VerificationTypeOK
    <3> QED
      BY <3>1, <3>2, <3>3, VerificationConstantsOK
  <2> QED
    BY <2>3, <2>4
<1> QED
  BY <1>1, Invariance, PTL DEF VerificationSpec, NewestCodeOnly

=============================================================================
