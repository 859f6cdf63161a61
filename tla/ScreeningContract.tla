-------------------------- MODULE ScreeningContract --------------------------
(***************************************************************************)
(* What a screening batch promises about each item, without leases, rows,  *)
(* clocks or calls: the phase the organisation sees, and what is kept of   *)
(* the resume so that the item can be evaluated again.                     *)
(*                                                                         *)
(*   copy       the uploaded text, tied to nobody                          *)
(*   reference  the ingested resume, falling with it                       *)
(*   bound      the ingested resume and the saved report                   *)
(*   nothing    no input: the item can settle but not be evaluated         *)
(*                                                                         *)
(* What is kept only moves down this list, an item is evaluated while it   *)
(* is open, and `done`, `refused` and `deleted` are ends.                  *)
(***************************************************************************)
CONSTANT Items

VARIABLES phase, kept

contractVars == <<phase, kept>>

Phases == {"none", "open", "failed", "refused", "done", "deleted"}
Kept == {"copy", "reference", "bound", "nothing"}

Init ==
  /\ phase \in [Items -> {"none", "open"}]
  /\ kept = [i \in Items |-> IF phase[i] = "open" THEN "copy" ELSE "nothing"]

\* What may become of an item in phase p that keeps k.
Registered(p, q, l) == p = "none" /\ q = "open" /\ l = "copy"
Ingested(p, k, q, l) == p = "open" /\ k = "copy" /\ q = "open" /\ l = "reference"
Evaluated(p, k, q, l) == p = "open" /\ k = "reference" /\ q = "open" /\ l = "bound"
Completed(p, k, q, l) == p = "open" /\ k \in {"bound", "nothing"} /\ q = "done" /\ l = "nothing"
Failed(p, k, q, l) == p = "open" /\ q = "failed" /\ l \in {k, "nothing"}
Refused(p, k, q, l) == p \in {"open", "failed"} /\ q = "refused" /\ l = k
Retried(p, k, q, l) == p = "failed" /\ k # "nothing" /\ q = "open" /\ l = k
InputLost(p, q, l) == q = p /\ l = "nothing"
Deleted(p, q, l) == p # "none" /\ q = "deleted" /\ l = "nothing"

Next ==
  \A i \in Items :
    LET p == phase[i]
        k == kept[i]
        q == phase'[i]
        l == kept'[i]
    IN  \/ q = p /\ l = k
        \/ Registered(p, q, l) \/ Ingested(p, k, q, l) \/ Evaluated(p, k, q, l)
        \/ Completed(p, k, q, l) \/ Failed(p, k, q, l) \/ Refused(p, k, q, l)
        \/ Retried(p, k, q, l) \/ InputLost(p, q, l) \/ Deleted(p, q, l)

Spec == Init /\ [][Next]_contractVars

=============================================================================
