----------------------------- MODULE MCServices -----------------------------
(***************************************************************************)
(* The services that share no state, side by side: the initial state       *)
(* chooses the one that runs, and the others stay as they began.  The laws *)
(* of the pure algorithms are evaluated first.                             *)
(***************************************************************************)
EXTENDS Interview, Ledger, RateLimit, Executors, Curation, Features, Matching,
        AlgorithmLaws, TLC

VARIABLE service   \* the one that runs

serviceVars == <<vars, ledgerVars, rateVars, execVars, curationVars, featureVars, matchingVars, service>>

ServicesInit ==
  /\ service \in {"interview", "ledger", "rate limit", "executors", "curation", "features", "matching"}
  /\ Init /\ LedgerInit /\ RateInit /\ ExecInit /\ CurationInit /\ FeatureInit /\ MatchingInit

ServicesNext ==
  \/ /\ service = "interview" /\ Next
     /\ UNCHANGED <<ledgerVars, rateVars, execVars, curationVars, featureVars, matchingVars, service>>
  \/ /\ service = "ledger" /\ LedgerNext
     /\ UNCHANGED <<vars, rateVars, execVars, curationVars, featureVars, matchingVars, service>>
  \/ /\ service = "rate limit" /\ RateNext
     /\ UNCHANGED <<vars, ledgerVars, execVars, curationVars, featureVars, matchingVars, service>>
  \/ /\ service = "executors" /\ ExecNext
     /\ UNCHANGED <<vars, ledgerVars, rateVars, curationVars, featureVars, matchingVars, service>>
  \/ /\ service = "curation" /\ CurationNext
     /\ UNCHANGED <<vars, ledgerVars, rateVars, execVars, featureVars, matchingVars, service>>
  \/ /\ service = "features" /\ FeatureNext
     /\ UNCHANGED <<vars, ledgerVars, rateVars, execVars, curationVars, matchingVars, service>>
  \/ /\ service = "matching" /\ MatchingNext
     /\ UNCHANGED <<vars, ledgerVars, rateVars, execVars, curationVars, featureVars, service>>

ServicesSpec == ServicesInit /\ [][ServicesNext]_serviceVars

\* Row ids and calls are only compared; services share the names.
RowSymmetry == Permutations(Evidence) \cup Permutations(Asks)

=============================================================================
