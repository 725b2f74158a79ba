----------------------------- MODULE Delegation -----------------------------
(***************************************************************************)
(* Authority on its way from the signed policy to the agent that uses it:  *)
(* delegation chains that grow hop by hop, and security context envelopes  *)
(* presented while the policy that bounds them changes.                    *)
(*                                                                         *)
(*   v2/delegation.ts                 resolveDelegation                    *)
(*   v2/security-context-envelope.ts  verifySecurityContextEnvelope,       *)
(*                                    EnvelopeVersionTracker               *)
(***************************************************************************)
EXTENDS Authority

CONSTANTS
    Tenant,         \* the tenant the verifier serves
    Root,           \* options.rootScope: grants of the root delegator
    Links,          \* delegation links in circulation, forged ones included
    MaxDepth,       \* options.maxDepth
    Bundles,        \* policy bundles the lease may hold
    Envelopes,      \* envelopes in circulation, forged ones included
    NoEnvelope,     \* nothing presented yet
    Identities,     \* verified workload identities: agent and nonce
    Capabilities,   \* concrete capabilities, without wildcards
    MaxHops, MaxTime    \* bounds of the model

VARIABLES
    now,        \* the verifier's clock
    chain,      \* the links the last agent of the chain presents
    bundle,     \* the bundle in force
    highest,    \* EnvelopeVersionTracker: highest version for each agent
    context     \* the envelope each agent's context was last taken from

vars == <<now, chain, bundle, highest, context>>

Agents == {i.agent : i \in Identities}

DelegationTypeOK ==
    /\ now \in 0..MaxTime
    /\ chain \in Seq(Links) /\ Len(chain) <= MaxHops
    /\ bundle \in Bundles
    /\ highest \in [Agents -> Nat]
    /\ context \in [Agents -> Envelopes \cup {NoEnvelope}]

Init ==
    /\ now = 0
    /\ chain = <<>>
    /\ bundle \in Bundles
    /\ highest = [a \in Agents |-> 0]
    /\ context = [a \in Agents |-> NoEnvelope]

(* Any holder of a chain adds a link of its own, whatever it says. *)
Delegate(link) ==
    /\ Len(chain) < MaxHops
    /\ chain' = Append(chain, link)
    /\ UNCHANGED <<now, bundle, highest, context>>

Resolved(t) == DelegationAccepted(chain, Root, Tenant, MaxDepth, t)

EnvelopeAccepted(e, i) ==
    /\ e.genuine
    /\ e.tenant = Tenant
    /\ e.agent = i.agent /\ e.nonce = i.nonce
    /\ e.issued < e.expires
    /\ e.issued <= now /\ now < e.expires
    /\ e.version > highest[i.agent]

(* Faulty: the signature is taken for permission. *)
PresentUnassessed(e, i) ==
    /\ EnvelopeAccepted(e, i)
    /\ highest' = [highest EXCEPT ![i.agent] = e.version]
    /\ context' = [context EXCEPT ![i.agent] = e]
    /\ UNCHANGED <<now, chain, bundle>>

(* An envelope comes with an identity; verified, assessed, recorded. *)
Present(e, i) ==
    /\ EnvelopeAccepted(e, i)
    /\ WithinCeiling(e.context, CeilingOf(bundle, i.agent))
    /\ highest' = [highest EXCEPT ![i.agent] = e.version]
    /\ context' = [context EXCEPT ![i.agent] = e]
    /\ UNCHANGED <<now, chain, bundle>>

(* The lease takes another bundle. *)
Activate(b) ==
    /\ bundle' = b
    /\ UNCHANGED <<now, chain, highest, context>>

Tick ==
    /\ now < MaxTime
    /\ now' = now + 1
    /\ UNCHANGED <<chain, bundle, highest, context>>

Next ==
    \/ \E link \in Links : Delegate(link)
    \/ \E e \in Envelopes, i \in Identities : Present(e, i)
    \/ \E b \in Bundles : Activate(b)
    \/ Tick

Spec == Init /\ [][Next]_vars

-----------------------------------------------------------------------------
(* Properties *)

(* What a scope lets its holder do, read off the capabilities themselves,  *)
(* which have no wildcards: up to a `**` or the end, segment by segment.   *)
Matches(g, cap) ==
    /\ g.provider = cap.provider
    /\ \E n \in 0..Len(g.segments) :
          /\ n <= Len(cap.segments)
          /\ \A i \in 1..n : g.segments[i] \in {"*", cap.segments[i]}
          /\ IF n < Len(g.segments) THEN g.segments[n + 1] = "**"
             ELSE n = Len(cap.segments)

Permits(scope, cap) == \E g \in scope : Matches(g, cap)

(* delegation.ts "S6: delegation may narrow authority but never increase   *)
(* it": whatever links were chained by whom, the scope the chain resolves  *)
(* to, and that of every hop on the way, permits no capability the root    *)
(* delegator does not have.  Wildcards, depth and expiry all bear on it.   *)
WithinRoot ==
    Resolved(now) =>
        \A cap \in Capabilities, n \in 1..Len(chain) :
            Permits(chain[n].scope, cap) => Permits(Root, cap)

ReplacesContext(a) ==
    /\ \A cap \in Capabilities :
          Permits(context'[a].context.grants, cap)
              => \E t \in DOMAIN bundle.manifest : Matches(bundle.manifest[t], cap)
    /\ context[a] = NoEnvelope \/ context'[a].version > context[a].version
    /\ [agent |-> a, nonce |-> context'[a].nonce] \in Identities

ContextsStep == \A a \in Agents : context'[a] # context[a] => ReplacesContext(a)

(* security-context-envelope.ts "Narrowing-only": an agent's context is    *)
(* replaced only by one that, capability by capability, the bundle in      *)
(* force at that moment allows, by a newer version than every one before,  *)
(* and for the execution whose nonce it names.                             *)
ContextsNarrow == [][ContextsStep]_vars
=============================================================================
