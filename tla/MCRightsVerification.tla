------------------------ MODULE MCRightsVerification ------------------------
(***************************************************************************)
(* Rights and Verification side by side, which share no row but the        *)
(* candidate's: the initial state chooses the one that runs.               *)
(***************************************************************************)
EXTENDS Rights, Verification, TLC, GatewayLaws

VARIABLE world   \* the one that runs

bothVars == <<vars, verificationVars, world>>

BothInit ==
  /\ Init /\ VerificationInit
  /\ \/ world = "verification"
     \/ world = "rights" /\ \A v \in Legacy : chal[v].attempts = 0

BothNext ==
  \/ world = "rights" /\ Next /\ UNCHANGED <<verificationVars, world>>
  \/ world = "verification" /\ VerificationNext /\ UNCHANGED <<vars, world>>

BothSpec == BothInit /\ [][BothNext]_bothVars

-----------------------------------------------------------------------------
\* Row ids are only compared; the two modules share names.
IdSymmetry ==
  Permutations(Requests) \cup Permutations(Operators) \cup Permutations(Uploads) \cup Permutations(Names)

=============================================================================
