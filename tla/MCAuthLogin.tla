---------------------------- MODULE MCAuthLogin ---------------------------
(* Symmetries of the ids of AuthLogin that are only compared.                *)
EXTENDS AuthLogin, TLC, ReadingLaws

IdSymmetry ==
  Permutations(Codes) \cup Permutations(Calls) \cup Permutations(Names)
    \cup Permutations(Candidates) \cup Permutations(Emails)

=============================================================================
