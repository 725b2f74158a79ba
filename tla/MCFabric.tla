------------------------------- MODULE MCFabric -------------------------------
(***************************************************************************)
(* Small instances of the modules around the effect gateway and the        *)
(* intercept pipeline, and of the theorems about them.  Delegations and    *)
(* identities go by one clock; the rest share no state, so one run         *)
(* explores them side by side: subject says which one a behaviour is       *)
(* about, and the variables of the others rest.                            *)
(***************************************************************************)
EXTENDS MCDelegation, MCSidecar, MCEvidence, MCEgress

CONSTANT Subjects

VARIABLE subject

(* What the theorems about the modules assume, of the instances explored.  *)
ASSUME InstancesWellFormed ==
    DelegationHypotheses /\ SidecarHypotheses /\ EvidenceHypotheses /\ EgressHypotheses

vars == <<subject, dnow, delegationVars, sidecarVars, socketVars, evidenceVars,
          capabilityVars, egressVars, identityVars, mcpVars, clientVars, policyVars>>

Init ==
    /\ subject \in Subjects
    /\ \/ /\ subject = "delegation" /\ D!Init
          /\ sidecarRests /\ socketRests /\ evidenceRests /\ capabilityRests /\ egressRests
          /\ identityRests /\ mcpRests /\ clientRests /\ policyRests
       \/ /\ subject = "sidecar" /\ S!Init /\ clockRests
          /\ delegationRests /\ socketRests /\ evidenceRests /\ capabilityRests
          /\ egressRests /\ identityRests /\ mcpRests /\ clientRests /\ policyRests
       \/ /\ subject = "socket" /\ S!K!Init /\ clockRests
          /\ delegationRests /\ sidecarRests /\ evidenceRests /\ capabilityRests
          /\ egressRests /\ identityRests /\ mcpRests /\ clientRests /\ policyRests
       \/ /\ subject = "evidence" /\ E!Init /\ clockRests
          /\ delegationRests /\ sidecarRests /\ socketRests /\ capabilityRests
          /\ egressRests /\ identityRests /\ mcpRests /\ clientRests /\ policyRests
       \/ /\ subject = "capability" /\ X!V!Init /\ clockRests
          /\ delegationRests /\ sidecarRests /\ socketRests /\ evidenceRests /\ egressRests
          /\ identityRests /\ mcpRests /\ clientRests /\ policyRests
       \/ /\ subject = "egress" /\ X!Init /\ clockRests
          /\ delegationRests /\ sidecarRests /\ socketRests /\ evidenceRests
          /\ capabilityRests /\ identityRests /\ mcpRests /\ clientRests /\ policyRests
       \/ /\ subject = "identity" /\ D!I!Init
          /\ delegationRests /\ sidecarRests /\ socketRests /\ evidenceRests
          /\ capabilityRests /\ egressRests /\ mcpRests /\ clientRests /\ policyRests
       \/ /\ subject = "mcp" /\ E!M!Init /\ clockRests
          /\ delegationRests /\ sidecarRests /\ socketRests /\ evidenceRests
          /\ capabilityRests /\ egressRests /\ identityRests /\ clientRests /\ policyRests
       \/ /\ subject = "client" /\ D!C!Init /\ CallersMeet /\ clockRests
          /\ delegationRests /\ sidecarRests /\ socketRests /\ evidenceRests
          /\ capabilityRests /\ egressRests /\ identityRests /\ mcpRests /\ policyRests
       \/ /\ subject = "policy" /\ S!Y!Init /\ clockRests
          /\ delegationRests /\ sidecarRests /\ socketRests /\ evidenceRests
          /\ capabilityRests /\ egressRests /\ identityRests /\ mcpRests /\ clientRests

Next ==
    /\ UNCHANGED subject
    /\ \/ /\ subject = "delegation" /\ D!Next
          /\ UNCHANGED <<sidecarVars, socketVars, evidenceVars, capabilityVars, egressVars,
                         identityVars, mcpVars, clientVars, policyVars>>
       \/ /\ subject = "sidecar" /\ S!Next /\ UNCHANGED dnow
          /\ UNCHANGED <<delegationVars, socketVars, evidenceVars, capabilityVars,
                         egressVars, identityVars, mcpVars, clientVars, policyVars>>
       \/ /\ subject = "socket" /\ S!K!Next /\ UNCHANGED dnow
          /\ UNCHANGED <<delegationVars, sidecarVars, evidenceVars, capabilityVars,
                         egressVars, identityVars, mcpVars, clientVars, policyVars>>
       \/ /\ subject = "evidence" /\ E!Next /\ UNCHANGED dnow
          /\ UNCHANGED <<delegationVars, sidecarVars, socketVars, capabilityVars,
                         egressVars, identityVars, mcpVars, clientVars, policyVars>>
       \/ /\ subject = "capability" /\ X!V!Next /\ UNCHANGED dnow
          /\ UNCHANGED <<delegationVars, sidecarVars, socketVars, evidenceVars, egressVars,
                         identityVars, mcpVars, clientVars, policyVars>>
       \/ /\ subject = "egress" /\ X!Next /\ UNCHANGED dnow
          /\ UNCHANGED <<delegationVars, sidecarVars, socketVars, evidenceVars,
                         capabilityVars, identityVars, mcpVars, clientVars, policyVars>>
       \/ /\ subject = "identity" /\ D!I!Next
          /\ UNCHANGED <<delegationVars, sidecarVars, socketVars, evidenceVars,
                         capabilityVars, egressVars, mcpVars, clientVars, policyVars>>
       \/ /\ subject = "mcp" /\ E!M!Next /\ EitherRace' /\ UNCHANGED dnow
          /\ UNCHANGED <<delegationVars, sidecarVars, socketVars, evidenceVars,
                         capabilityVars, egressVars, identityVars, clientVars, policyVars>>
       \/ /\ subject = "client" /\ D!C!Next /\ UNCHANGED dnow
          /\ UNCHANGED <<delegationVars, sidecarVars, socketVars, evidenceVars,
                         capabilityVars, egressVars, identityVars, mcpVars, policyVars>>
       \/ /\ subject = "policy" /\ S!Y!Next /\ UNCHANGED dnow
          /\ UNCHANGED <<delegationVars, sidecarVars, socketVars, evidenceVars,
                         capabilityVars, egressVars, identityVars, mcpVars, clientVars>>

Spec == Init /\ [][Next]_vars

TypeOK ==
    /\ subject = "delegation" => D!DelegationTypeOK
    /\ subject = "sidecar" => S!SidecarTypeOK
    /\ subject = "socket" => S!K!SocketTypeOK
    /\ subject = "evidence" => E!EvidenceTypeOK
    /\ subject = "capability" => X!V!CapabilityTypeOK
    /\ subject = "egress" => X!EgressTypeOK
    /\ subject = "identity" => D!I!IdentityTypeOK
    /\ subject = "mcp" => E!M!McpTypeOK
    /\ subject = "client" => D!C!ClientTypeOK
    /\ subject = "policy" => S!Y!PolicyTypeOK

-----------------------------------------------------------------------------
(* The properties of the modules, each about its own subject: *)

(* v2/delegation.ts, S6: nothing beyond the root is ever delegated. *)
WithinRoot == subject = "delegation" => D!WithinRoot

(* v2/security-context-envelope.ts: contexts only narrow. *)
ContextsNarrow == [][subject = "delegation" => D!ContextsStep]_vars

(* v2/sidecar.ts: what is allowed is so by the newest documents heard. *)
AllowsAreCurrent == subject = "sidecar" => S!AllowsAreCurrent

(* v2/sidecar.ts: time, rotation and silence never widen. *)
OnlyDocumentsWiden == [][subject = "sidecar" => S!WidensStep]_vars

(* v2/failure-semantics.ts: the contract of every failure mode. *)
FailsAsContracted == subject = "sidecar" => S!FailsAsContracted

(* v2/sidecar-server.ts, v2/fabric.ts: an answer is for what was asked on  *)
(* the same connection, ...                                                *)
AnswersStayOnTheirConnection == subject = "socket" => S!K!AnswersStayOnTheirConnection

(* ... and for its own question. *)
OnlyAllowedProceed == subject = "socket" => S!K!OnlyAllowedProceed

(* v2/evidence-store.ts: no fork by the store itself, and a true audit. *)
EvidenceHolds == subject = "evidence" => E!ForksAreForeign /\ E!AuditTellsTruth

(* v2/capability-broker.ts: no credential outlives its call unnoticed. *)
LeasesReleased == subject = "capability" => X!V!LeasesReleased

(* v2/egress-proxy.ts: one connection for a ticket. *)
TicketsOpenOnce == subject = "egress" => X!TicketsOpenOnce

(* v2/egress-cell.ts: addresses inside others are judged as themselves. *)
DressedAreJudged == subject = "egress" => X!DressedAreJudged

(* v2/egress-proxy.ts: what follows the head belongs to the tunnel. *)
TunnelsCarry == subject = "egress" => X!TunnelsCarry

(* v2/workload-identity-provider.ts: what was verified is what is honoured. *)
HeldIsHonoured == subject = "identity" => D!I!HeldIsHonoured

(* mcp-manifest-guard.ts, mcp-tool-version-routes.ts: drift waits. *)
DriftWaits == subject = "mcp" => E!M!DriftWaits

(* mcp-gateway.ts: callers are told what was recorded. *)
GatewayAnswers == subject = "mcp" => E!M!GatewayAnswers

(* packages/pi-adapter, packages/sdk: agents are told what was recorded. *)
ToldAsRecorded == subject = "client" => D!C!ToldAsRecorded

(* policy-bundle-routes.ts, cedar-cli-provider.ts: an activated policy, and *)
(* no other and no failure, decides.                                       *)
PoliciesHold == subject = "policy" => S!Y!PoliciesHold

=============================================================================
