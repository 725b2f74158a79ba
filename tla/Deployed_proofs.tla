---------------------------- MODULE Deployed_proofs ----------------------------
(***************************************************************************)
(* What the runs explore, proved: the instances of MCFabric and of         *)
(* MCDeployments satisfy what the theorems of the components assume (TLC   *)
(* evaluates that), and a behaviour that is about one of them is one of    *)
(* that component, so that its theorems hold of the composition.           *)
(***************************************************************************)
EXTENDS MCFabric, MCDeployments, TLAPS

(* What a behaviour is about, as a name for the temporal prover. *)
About(s) == subject = s

LEMMA DelegationBehaves == Spec => D!Spec \/ []~About("delegation")
<1>1. Init /\ About("delegation") => D!Init
  BY DEF Init, About
<1>2. About("delegation") /\ [Next]_vars => About("delegation")' /\ [D!Next]_(D!vars)
  BY DEF Next, vars, delegationVars, D!vars, About
<1>3. ~About("delegation") /\ [Next]_vars => ~About("delegation")'
  BY DEF Next, vars, About
<1> QED
  BY <1>1, <1>2, <1>3, PTL DEF Spec, D!Spec

LEMMA SidecarBehaves == Spec => S!Spec \/ []~About("sidecar")
<1>1. Init /\ About("sidecar") => S!Init
  BY DEF Init, About
<1>2. About("sidecar") /\ [Next]_vars => About("sidecar")' /\ [S!Next]_(S!vars)
  BY DEF Next, vars, sidecarVars, S!vars, About
<1>3. ~About("sidecar") /\ [Next]_vars => ~About("sidecar")'
  BY DEF Next, vars, About
<1> QED
  BY <1>1, <1>2, <1>3, PTL DEF Spec, S!Spec

LEMMA SocketBehaves == Spec => S!K!Spec \/ []~About("socket")
<1>1. Init /\ About("socket") => S!K!Init
  BY DEF Init, About
<1>2. About("socket") /\ [Next]_vars => About("socket")' /\ [S!K!Next]_(S!K!vars)
  BY DEF Next, vars, socketVars, S!K!vars, About
<1>3. ~About("socket") /\ [Next]_vars => ~About("socket")'
  BY DEF Next, vars, About
<1> QED
  BY <1>1, <1>2, <1>3, PTL DEF Spec, S!K!Spec

LEMMA EvidenceBehaves == Spec => E!Spec \/ []~About("evidence")
<1>1. Init /\ About("evidence") => E!Init
  BY DEF Init, About
<1>2. About("evidence") /\ [Next]_vars => About("evidence")' /\ [E!Next]_(E!vars)
  BY DEF Next, vars, evidenceVars, E!vars, About
<1>3. ~About("evidence") /\ [Next]_vars => ~About("evidence")'
  BY DEF Next, vars, About
<1> QED
  BY <1>1, <1>2, <1>3, PTL DEF Spec, E!Spec

LEMMA CapabilityBehaves == Spec => X!V!Spec \/ []~About("capability")
<1>1. Init /\ About("capability") => X!V!Init
  BY DEF Init, About
<1>2. About("capability") /\ [Next]_vars => About("capability")' /\ [X!V!Next]_(X!V!vars)
  BY DEF Next, vars, capabilityVars, X!V!vars, About
<1>3. ~About("capability") /\ [Next]_vars => ~About("capability")'
  BY DEF Next, vars, About
<1> QED
  BY <1>1, <1>2, <1>3, PTL DEF Spec, X!V!Spec

LEMMA EgressBehaves == Spec => X!Spec \/ []~About("egress")
<1>1. Init /\ About("egress") => X!Init
  BY DEF Init, About
<1>2. About("egress") /\ [Next]_vars => About("egress")' /\ [X!Next]_(X!vars)
  BY DEF Next, vars, egressVars, X!vars, About
<1>3. ~About("egress") /\ [Next]_vars => ~About("egress")'
  BY DEF Next, vars, About
<1> QED
  BY <1>1, <1>2, <1>3, PTL DEF Spec, X!Spec

LEMMA IdentityBehaves == Spec => D!I!Spec \/ []~About("identity")
<1>1. Init /\ About("identity") => D!I!Init
  BY DEF Init, About
<1>2. About("identity") /\ [Next]_vars => About("identity")' /\ [D!I!Next]_(D!I!vars)
  BY DEF Next, vars, identityVars, D!I!vars, About
<1>3. ~About("identity") /\ [Next]_vars => ~About("identity")'
  BY DEF Next, vars, About
<1> QED
  BY <1>1, <1>2, <1>3, PTL DEF Spec, D!I!Spec

LEMMA McpBehaves == Spec => E!M!Spec \/ []~About("mcp")
<1>1. Init /\ About("mcp") => E!M!Init
  BY DEF Init, About
<1>2. About("mcp") /\ [Next]_vars => About("mcp")' /\ [E!M!Next]_(E!M!vars)
  BY DEF Next, vars, mcpVars, E!M!vars, About
<1>3. ~About("mcp") /\ [Next]_vars => ~About("mcp")'
  BY DEF Next, vars, About
<1> QED
  BY <1>1, <1>2, <1>3, PTL DEF Spec, E!M!Spec

LEMMA ClientBehaves == Spec => D!C!Spec \/ []~About("client")
<1>1. Init /\ About("client") => D!C!Init
  BY DEF Init, About
<1>2. About("client") /\ [Next]_vars => About("client")' /\ [D!C!Next]_(D!C!vars)
  BY DEF Next, vars, clientVars, D!C!vars, About
<1>3. ~About("client") /\ [Next]_vars => ~About("client")'
  BY DEF Next, vars, About
<1> QED
  BY <1>1, <1>2, <1>3, PTL DEF Spec, D!C!Spec

LEMMA PolicyBehaves == Spec => S!Y!Spec \/ []~About("policy")
<1>1. Init /\ About("policy") => S!Y!Init
  BY DEF Init, About
<1>2. About("policy") /\ [Next]_vars => About("policy")' /\ [S!Y!Next]_(S!Y!vars)
  BY DEF Next, vars, policyVars, S!Y!vars, About
<1>3. ~About("policy") /\ [Next]_vars => ~About("policy")'
  BY DEF Next, vars, About
<1> QED
  BY <1>1, <1>2, <1>3, PTL DEF Spec, S!Y!Spec

-----------------------------------------------------------------------------
(* Invariants of the composition *)

(* v2/delegation.ts: no chain of the instance grants beyond its root.      *)
THEOREM DelegationsStayWithinRoot == Spec => []WithinRoot
<1>1. D!Spec => []D!WithinRoot
  BY InstancesWellFormed, D!DelegationNarrows DEF DelegationHypotheses
<1>2. WithinRoot <=> (About("delegation") => D!WithinRoot)
  BY DEF WithinRoot, About
<1> QED
  BY <1>1, <1>2, DelegationBehaves, PTL

(* v2/sidecar.ts: what is allowed is so by the newest documents heard.     *)
THEOREM SidecarDecidesByTheNewest == Spec => []AllowsAreCurrent
<1>1. S!Spec => []S!AllowsAreCurrent
  BY InstancesWellFormed, S!DecidesByTheNewest DEF SidecarHypotheses
<1>2. AllowsAreCurrent <=> (About("sidecar") => S!AllowsAreCurrent)
  BY DEF AllowsAreCurrent, About
<1> QED
  BY <1>1, <1>2, SidecarBehaves, PTL

(* v2/failure-semantics.ts: each failure mode answers as its contract says. *)
THEOREM SidecarFailsAsContracted == Spec => []FailsAsContracted
<1>1. S!Spec => []S!FailsAsContracted
  BY InstancesWellFormed, S!FailuresAsContracted DEF SidecarHypotheses
<1>2. FailsAsContracted <=> (About("sidecar") => S!FailsAsContracted)
  BY DEF FailsAsContracted, About
<1> QED
  BY <1>1, <1>2, SidecarBehaves, PTL

(* v2/sidecar-server.ts, v2/fabric.ts: with calls that overlap, an answer  *)
(* is for what was asked on its connection, and crossed on a shared one    *)
(* only.                                                                   *)
THEOREM AnswersKeepToTheirConnection == Spec => []AnswersStayOnTheirConnection
<1>1. S!K!Spec => []S!K!AnswersStayOnTheirConnection
  BY InstancesWellFormed, S!AnswersAreOnesOwn DEF SidecarHypotheses
<1>2. AnswersStayOnTheirConnection <=> (About("socket") => S!K!AnswersStayOnTheirConnection)
  BY DEF AnswersStayOnTheirConnection, About
<1> QED
  BY <1>1, <1>2, SocketBehaves, PTL

(* v2/evidence-store.ts: no fork by the store itself, and a true audit.    *)
THEOREM EvidenceIsSound == Spec => []EvidenceHolds
<1>1. E!Spec => []E!ForksAreForeign
  BY InstancesWellFormed, E!AppendersNeverFork DEF EvidenceHypotheses
<1>2. E!Spec => []E!AuditTellsTruth
  BY InstancesWellFormed, E!AuditsTellTruth DEF EvidenceHypotheses
<1>3. EvidenceHolds <=> (About("evidence") => E!ForksAreForeign /\ E!AuditTellsTruth)
  BY DEF EvidenceHolds, About
<1> QED
  BY <1>1, <1>2, <1>3, EvidenceBehaves, PTL

(* v2/capability-broker.ts: no credential outlives its call unnoticed.     *)
THEOREM CredentialsAreReleased == Spec => []LeasesReleased
<1>1. X!V!Spec => []X!V!LeasesReleased
  BY InstancesWellFormed, X!LeasesAreReleased DEF EgressHypotheses
<1>2. LeasesReleased <=> (About("capability") => X!V!LeasesReleased)
  BY DEF LeasesReleased, About
<1> QED
  BY <1>1, <1>2, CapabilityBehaves, PTL

(* v2/egress-proxy.ts: one connection for a ticket.                        *)
THEOREM TicketsOpenOneTunnel == Spec => []TicketsOpenOnce
<1>1. X!Spec => []X!TicketsOpenOnce
  BY InstancesWellFormed, X!TicketsAreSpentOnce DEF EgressHypotheses
<1>2. TicketsOpenOnce <=> (About("egress") => X!TicketsOpenOnce)
  BY DEF TicketsOpenOnce, About
<1> QED
  BY <1>1, <1>2, EgressBehaves, PTL

(* v2/workload-identity-provider.ts: what was verified is what is honoured. *)
THEOREM VerifiedIsEnforced == Spec => []HeldIsHonoured
<1>1. D!I!Spec => []D!I!HeldIsHonoured
  BY InstancesWellFormed, D!IdentitiesAreHonoured DEF DelegationHypotheses
<1>2. HeldIsHonoured <=> (About("identity") => D!I!HeldIsHonoured)
  BY DEF HeldIsHonoured, About
<1> QED
  BY <1>1, <1>2, IdentityBehaves, PTL

(* mcp-manifest-guard.ts, mcp-tool-version-routes.ts: drift waits.         *)
THEOREM DriftIsApprovedFirst == Spec => []DriftWaits
<1>1. E!M!Spec => []E!M!DriftWaits
  BY InstancesWellFormed, E!DriftAlwaysWaits DEF EvidenceHypotheses
<1>2. DriftWaits <=> (About("mcp") => E!M!DriftWaits)
  BY DEF DriftWaits, About
<1> QED
  BY <1>1, <1>2, McpBehaves, PTL

(* mcp-gateway.ts: callers are told what was recorded.                     *)
THEOREM GatewayTellsTheRecord == Spec => []GatewayAnswers
<1>1. E!M!Spec => []E!M!GatewayAnswers
  BY InstancesWellFormed, E!GatewayAnswersTruly DEF EvidenceHypotheses
<1>2. GatewayAnswers <=> (About("mcp") => E!M!GatewayAnswers)
  BY DEF GatewayAnswers, About
<1> QED
  BY <1>1, <1>2, McpBehaves, PTL

(* packages/pi-adapter, packages/sdk: agents are told what was recorded.   *)
THEOREM AgentsAreTold == Spec => []ToldAsRecorded
<1>1. D!C!Spec => []D!C!ToldAsRecorded
  BY InstancesWellFormed, D!AgentsAreToldTruth DEF DelegationHypotheses
<1>2. ToldAsRecorded <=> (About("client") => D!C!ToldAsRecorded)
  BY DEF ToldAsRecorded, About
<1> QED
  BY <1>1, <1>2, ClientBehaves, PTL

(* policy-bundle-routes.ts, cedar-cli-provider.ts: an activated policy, and *)
(* no other and no failure, decides.                                       *)
THEOREM ActivatedPoliciesDecide == Spec => []PoliciesHold
<1>1. S!Y!Spec => []S!Y!PoliciesHold
  BY InstancesWellFormed, S!PoliciesAreSound DEF SidecarHypotheses
<1>2. PoliciesHold <=> (About("policy") => S!Y!PoliciesHold)
  BY DEF PoliciesHold, About
<1> QED
  BY <1>1, <1>2, PolicyBehaves, PTL

(* Every variable of every module keeps its type, whichever is the subject. *)
THEOREM FabricTyped == Spec => []TypeOK
<1>1. Spec => [](About("delegation") => D!DelegationTypeOK)
  <2>1. D!Spec => []D!DelegationTypeOK
    BY InstancesWellFormed, D!DelegationTyped DEF DelegationHypotheses
  <2> QED
    BY <2>1, DelegationBehaves, PTL
<1>2. Spec => [](About("sidecar") => S!SidecarTypeOK)
  <2>1. S!Spec => []S!SidecarTypeOK
    BY InstancesWellFormed, S!SidecarTyped DEF SidecarHypotheses
  <2> QED
    BY <2>1, SidecarBehaves, PTL
<1>3. Spec => [](About("socket") => S!K!SocketTypeOK)
  <2>1. S!K!Spec => []S!K!SocketTypeOK
    BY InstancesWellFormed, S!SocketTyped DEF SidecarHypotheses
  <2> QED
    BY <2>1, SocketBehaves, PTL
<1>4. Spec => [](About("evidence") => E!EvidenceTypeOK)
  <2>1. E!Spec => []E!EvidenceTypeOK
    BY InstancesWellFormed, E!EvidenceTyped DEF EvidenceHypotheses
  <2> QED
    BY <2>1, EvidenceBehaves, PTL
<1>5. Spec => [](About("capability") => X!V!CapabilityTypeOK)
  <2>1. X!V!Spec => []X!V!CapabilityTypeOK
    BY InstancesWellFormed, X!CapabilityTyped DEF EgressHypotheses
  <2> QED
    BY <2>1, CapabilityBehaves, PTL
<1>6. Spec => [](About("egress") => X!EgressTypeOK)
  <2>1. X!Spec => []X!EgressTypeOK
    BY InstancesWellFormed, X!EgressTyped DEF EgressHypotheses
  <2> QED
    BY <2>1, EgressBehaves, PTL
<1>7. Spec => [](About("identity") => D!I!IdentityTypeOK)
  <2>1. D!I!Spec => []D!I!IdentityTypeOK
    BY InstancesWellFormed, D!IdentityTypeCorrect DEF DelegationHypotheses
  <2> QED
    BY <2>1, IdentityBehaves, PTL
<1>8. Spec => [](About("mcp") => E!M!McpTypeOK)
  <2>1. E!M!Spec => []E!M!McpTypeOK
    BY InstancesWellFormed, E!McpTypeCorrect DEF EvidenceHypotheses
  <2> QED
    BY <2>1, McpBehaves, PTL
<1>9. Spec => [](About("client") => D!C!ClientTypeOK)
  <2>1. D!C!Spec => []D!C!ClientTypeOK
    BY InstancesWellFormed, D!ClientTyped DEF DelegationHypotheses
  <2> QED
    BY <2>1, ClientBehaves, PTL
<1>10. Spec => [](About("policy") => S!Y!PolicyTypeOK)
  <2>1. S!Y!Spec => []S!Y!PolicyTypeOK
    BY InstancesWellFormed, S!PolicyTyped DEF SidecarHypotheses
  <2> QED
    BY <2>1, PolicyBehaves, PTL
<1>11. TypeOK <=>
         /\ About("delegation") => D!DelegationTypeOK
         /\ About("sidecar") => S!SidecarTypeOK
         /\ About("socket") => S!K!SocketTypeOK
         /\ About("evidence") => E!EvidenceTypeOK
         /\ About("capability") => X!V!CapabilityTypeOK
         /\ About("egress") => X!EgressTypeOK
         /\ About("identity") => D!I!IdentityTypeOK
         /\ About("mcp") => E!M!McpTypeOK
         /\ About("client") => D!C!ClientTypeOK
         /\ About("policy") => S!Y!PolicyTypeOK
  BY DEF TypeOK, About
<1> QED
  BY <1>1, <1>2, <1>3, <1>4, <1>5, <1>6, <1>7, <1>8, <1>9, <1>10, <1>11, PTL

-----------------------------------------------------------------------------
(* Steps of the composition *)

(* v2/security-context-envelope.ts: no step of the instance widens a        *)
(* context.                                                                *)
THEOREM ContextsOnlyEverNarrow == Spec => ContextsNarrow
<1>1. D!Spec => [][D!ContextsStep]_(D!vars)
  BY InstancesWellFormed, D!ContextsOnlyNarrow DEF DelegationHypotheses, D!ContextsNarrow
<1>2. [Next]_vars /\ [D!ContextsStep]_(D!vars)
          => [subject = "delegation" => D!ContextsStep]_vars
  BY DEF Next, vars, delegationVars, D!vars, About
<1>3. ~About("delegation") => [subject = "delegation" => D!ContextsStep]_vars
  BY DEF About
<1> QED
  BY <1>1, <1>2, <1>3, DelegationBehaves, PTL DEF Spec, ContextsNarrow

(* v2/sidecar.ts: time, rotation and silence never widen what the instance *)
(* permits.                                                                *)
THEOREM DocumentsAloneEverWiden == Spec => OnlyDocumentsWiden
<1>1. S!Spec => [][S!WidensStep]_(S!vars)
  BY InstancesWellFormed, S!DocumentsAloneWiden DEF SidecarHypotheses, S!OnlyDocumentsWiden
<1>2. [Next]_vars /\ [S!WidensStep]_(S!vars)
          => [subject = "sidecar" => S!WidensStep]_vars
  BY DEF Next, vars, sidecarVars, S!vars, About
<1>3. ~About("sidecar") => [subject = "sidecar" => S!WidensStep]_vars
  BY DEF About
<1> QED
  BY <1>1, <1>2, <1>3, SidecarBehaves, PTL DEF Spec, OnlyDocumentsWiden

-----------------------------------------------------------------------------
(* The three deployments of the effect gateway *)

Deployed(d) == deployment = d

LEMMA JournalBehaves == SpecDeployed => J!Spec \/ []~Deployed("journal")
<1>1. InitDeployed /\ Deployed("journal") => J!Init
  BY DEF InitDeployed, Deployed
<1>2. Deployed("journal") /\ [NextDeployed]_deploymentVars => Deployed("journal")' /\ [J!Next]_(J!vars)
  BY DEF NextDeployed, deploymentVars, gatewayVars, J!vars, Deployed
<1>3. ~Deployed("journal") /\ [NextDeployed]_deploymentVars => ~Deployed("journal")'
  BY DEF NextDeployed, deploymentVars, Deployed
<1> QED
  BY <1>1, <1>2, <1>3, PTL DEF SpecDeployed, J!Spec

LEMMA GuardBehaves == SpecDeployed => G!Spec \/ []~Deployed("guard")
<1>1. InitDeployed /\ Deployed("guard") => G!Init
  BY DEF InitDeployed, Deployed
<1>2. Deployed("guard") /\ [NextDeployed]_deploymentVars => Deployed("guard")' /\ [G!Next]_(G!vars)
  BY DEF NextDeployed, deploymentVars, gatewayVars, G!vars, Deployed
<1>3. ~Deployed("guard") /\ [NextDeployed]_deploymentVars => ~Deployed("guard")'
  BY DEF NextDeployed, deploymentVars, Deployed
<1> QED
  BY <1>1, <1>2, <1>3, PTL DEF SpecDeployed, G!Spec

LEMMA SingleBehaves == SpecDeployed => O!Spec \/ []~Deployed("single")
<1>1. InitDeployed /\ Deployed("single") => O!Init
  BY DEF InitDeployed, Deployed
<1>2. Deployed("single") /\ [NextDeployed]_deploymentVars => Deployed("single")' /\ [O!Next]_(O!vars)
  BY DEF NextDeployed, deploymentVars, gatewayVars, O!vars, Deployed
<1>3. ~Deployed("single") /\ [NextDeployed]_deploymentVars => ~Deployed("single")'
  BY DEF NextDeployed, deploymentVars, Deployed
<1> QED
  BY <1>1, <1>2, <1>3, PTL DEF SpecDeployed, O!Spec

(* Single effects, truthful rows, answers with evidence and truthful        *)
(* receipts, of every deployment that promises them.                       *)
THEOREM DeploymentsKeepPromises == SpecDeployed => []PromisesKept
<1>1. J!Spec => []J!AtMostOnce /\ []J!JournalTruthful /\ []J!AnswerBacked /\ []J!ReceiptsTruthful
  BY DeploymentsWellFormed, J!EffectsHappenOnce, J!JournalsAreTruthful, J!AnswersAreBacked,
     J!ReceiptsAreTruthful
<1>2. G!Spec => []G!AtMostOnce /\ []G!NonceOnce /\ []G!AnswerBacked
  BY DeploymentsWellFormed, G!EffectsHappenOnce, G!NoncesTakeEffectOnce, G!AnswersAreBacked
<1>3. O!Spec => /\ []O!AtMostOnce /\ []O!JournalTruthful /\ []O!AnswerBacked
                /\ []O!ReceiptsTruthful /\ []O!OneReceipt
  BY DeploymentsWellFormed, O!EffectsHappenOnce, O!JournalsAreTruthful, O!AnswersAreBacked,
     O!ReceiptsAreTruthful, O!OneProcessSignsOnce
<1>4. PromisesKept <=>
         /\ Deployed("journal") => J!AtMostOnce /\ J!JournalTruthful /\ J!AnswerBacked
                                      /\ J!ReceiptsTruthful
         /\ Deployed("guard") => G!AtMostOnce /\ G!NonceOnce /\ G!AnswerBacked
         /\ Deployed("single") => O!AtMostOnce /\ O!JournalTruthful /\ O!AnswerBacked
                                     /\ O!ReceiptsTruthful /\ O!OneReceipt
  BY DEF PromisesKept, EffectsSingle, JournalTruthful, AnswerBacked, ReceiptsTruthful, Deployed
<1> QED
  BY <1>1, <1>2, <1>3, <1>4, JournalBehaves, GuardBehaves, SingleBehaves, PTL

(* One process recovers before it performs.                                *)
THEOREM SingleRecoversFirst == SpecDeployed => RecoveryFirst
<1>1. O!Spec => [][O!ServesStep]_(O!vars) /\ [][O!EffectsStep]_(O!vars)
  BY DeploymentsWellFormed, O!OneProcessRecoversFirst, O!EffectsOnlyWhileOpen
     DEF O!ServesRecovered, O!EffectsWhileOpen
<1>2. [NextDeployed]_deploymentVars /\ [O!ServesStep]_(O!vars) /\ [O!EffectsStep]_(O!vars)
          => [deployment = "single" => O!ServesStep /\ O!EffectsStep]_deploymentVars
  BY DEF NextDeployed, deploymentVars, gatewayVars, O!vars, Deployed
<1>3. ~Deployed("single") =>
         [deployment = "single" => O!ServesStep /\ O!EffectsStep]_deploymentVars
  BY DEF Deployed
<1> QED
  BY <1>1, <1>2, <1>3, SingleBehaves, PTL DEF SpecDeployed, RecoveryFirst
=============================================================================
