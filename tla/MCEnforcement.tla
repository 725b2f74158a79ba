---------------------------- MODULE MCEnforcement -----------------------------
(***************************************************************************)
(* What is decided and what is performed, explored side by side: calls     *)
(* under meters and a switch (MCIntercept), and the deployments of the     *)
(* effect gateway (MCDeployments).  path says which of the two a behaviour *)
(* is about; the other rests as it begins, where nothing is under way, and *)
(* the two share no state.                                                 *)
(***************************************************************************)
EXTENDS MCIntercept, MCDeployments

VARIABLE path

deploymentRests ==
    /\ deployment = "none"
    /\ clock = 0 /\ gw = 0 /\ slot = 0 /\ nonces = 0 /\ guard = 0 /\ evidence = 0
    /\ journal = 0 /\ cause = 0 /\ ran = 0 /\ answered = 0 /\ receipts = 0
    /\ crashes = 0 /\ outages = 0

InitEither ==
    /\ Init
    /\ \/ path = "decide" /\ deploymentRests
       \/ path = "perform" /\ InitDeployed

NextEither ==
    /\ UNCHANGED path
    /\ \/ path = "decide" /\ Next /\ UNCHANGED deploymentVars
       \/ path = "perform" /\ NextDeployed /\ UNCHANGED vars

(* What is performed is checked for safety only; of the decisions every    *)
(* promise settles.  Where they rest, no call is under way to continue.    *)
FairEither ==
    /\ InitEither /\ [][NextEither]_<<path, vars, deploymentVars>>
    /\ \A s \in Slots : WF_vars(Continue(s))
=============================================================================
