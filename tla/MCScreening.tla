----------------------------- MODULE MCScreening -----------------------------
(***************************************************************************)
(* Small instances of Screening for TLC: the functions a .cfg cannot write *)
(* and the symmetry of the identifiers that are only compared.             *)
(***************************************************************************)
EXTENDS Screening, TLC, AnalysisLaws

CONSTANTS t1, p1

\* All items belong to one batch.
OneBatch == [i \in Items |-> CHOOSE b \in Batches : TRUE]

\* All items carry the same text, about the same person.
SameText == [i \in Items |-> t1]
SamePerson == [t \in Texts |-> p1]

\* All items carry the same text, which names nobody.
NoPerson == [t \in Texts |-> None]

RowSymmetry == Permutations(Workers) \cup Permutations(Candidates)
                 \cup Permutations(Resumes) \cup Permutations(Reports)

=============================================================================
