------------------------------ MODULE Authority ------------------------------
(***************************************************************************)
(* The pure algorithms that decide whether authority narrows.              *)
(*                                                                         *)
(*   v2/delegation.ts   grantSubsumes, scopeIsNarrowerThan,                *)
(*                      resolveDelegation                                  *)
(*   v2/ifc.ts          highestLabel, evaluateIfc                          *)
(*   v2/network-target-guard.ts       hostMatchesRule                      *)
(*   v2/security-context-envelope.ts  assessEnvelopeAuthority              *)
(*                                                                         *)
(* A grant is a provider and a sequence of segments.  Parsing is left out: *)
(* NoGrant stands for a URI that parseGrant refuses.                       *)
(***************************************************************************)
EXTENDS Naturals, Sequences

NoGrant == [provider |-> "", segments |-> <<>>]

(* `*` stands for any one segment, `**` for whatever is left, even nothing. *)
Covers(parent, child) ==
    /\ child # "**"
    /\ parent # "**"
    /\ parent = "*" \/ parent = child

(* The two grants agree on their first n segments. *)
CoversUpTo(parent, child, n) ==
    /\ n <= Len(child.segments)
    /\ \A i \in 1..n : Covers(parent.segments[i], child.segments[i])

GrantSubsumes(parent, child) ==
    /\ parent.provider = child.provider
    /\ \/ \E n \in 1..Len(parent.segments) :
            parent.segments[n] = "**" /\ CoversUpTo(parent, child, n - 1)
       \/ /\ Len(parent.segments) = Len(child.segments)
          /\ CoversUpTo(parent, child, Len(parent.segments))

(* An unparseable parent cannot justify anything. *)
ScopeIsNarrowerThan(child, parent) ==
    /\ NoGrant \notin parent
    /\ \A c \in child : c # NoGrant /\ \E p \in parent : GrantSubsumes(p, c)

-----------------------------------------------------------------------------
(* Delegation chains, root first.  A link names who delegates to whom, its *)
(* own depth and the scope it passes on; genuine says its signature is one *)
(* of a trusted issuer's.                                                  *)

LinkAccepted(link, tenant, now) ==
    /\ link.genuine
    /\ link.tenant = tenant
    /\ now < link.expires
    /\ link.delegator # link.delegatee

HandsOver(chain) ==
    \A i \in 1..(Len(chain) - 1) : chain[i].delegatee = chain[i + 1].delegator

(* Faulty: only the first hop is compared with the root. *)
DelegationTrustsHops(chain, root, tenant, maxDepth, now) ==
    /\ chain # <<>>
    /\ \A i \in 1..Len(chain) : LinkAccepted(chain[i], tenant, now)
    /\ HandsOver(chain)
    /\ chain[Len(chain)].depth = Len(chain) /\ Len(chain) <= maxDepth
    /\ ScopeIsNarrowerThan(chain[1].scope, root)

(* The final scope and every hop's are compared with the root's, and with  *)
(* nothing else: a hop is never compared with the hop before it.           *)
DelegationAccepted(chain, root, tenant, maxDepth, now) ==
    /\ chain # <<>>
    /\ \A i \in 1..Len(chain) : LinkAccepted(chain[i], tenant, now)
    /\ HandsOver(chain)
    /\ chain[Len(chain)].depth = Len(chain) /\ Len(chain) <= maxDepth
    /\ \A i \in 1..Len(chain) : ScopeIsNarrowerThan(chain[i].scope, root)

EffectiveScope(chain) == chain[Len(chain)].scope

-----------------------------------------------------------------------------
(* Information flow *)

LabelRank == [PUBLIC |-> 0, INTERNAL |-> 1, CONFIDENTIAL |-> 2,
              PII |-> 3, SECRET |-> 4, CREDENTIAL |-> 5]

SinkClearance == [external_http |-> "PUBLIC", internal_http |-> "INTERNAL",
                  email |-> "INTERNAL", mcp_server |-> "INTERNAL",
                  another_agent |-> "INTERNAL", model_provider |-> "PUBLIC",
                  file_store |-> "CONFIDENTIAL", database |-> "CONFIDENTIAL"]

(* No label at all counts as PUBLIC; the highest label decides. *)
MayFlow(labels, sink) ==
    \A l \in labels : LabelRank[l] <= LabelRank[SinkClearance[sink]]

-----------------------------------------------------------------------------
(* Network targets.  A host is a sequence of labels, and so is a rule,     *)
(* whose first label may be `*` for any labels in its place, at least one. *)

HostMatchesRule(host, rule) ==
    IF rule[1] # "*" THEN host = rule
    ELSE /\ Len(host) >= Len(rule)
         /\ \A i \in 0..(Len(rule) - 2) : host[Len(host) - i] = rule[Len(rule) - i]

-----------------------------------------------------------------------------
(* Security context envelopes: what a signed bundle lets an agent be told. *)

CeilingOf(bundle, agent) ==
    [grants    |-> {bundle.manifest[t] : t \in DOMAIN bundle.manifest},
     tools     |-> IF bundle.agent = agent THEN bundle.tools ELSE {},
     hosts     |-> bundle.hosts,
     clearance |-> bundle.clearance,
     depth     |-> bundle.depth]

WithinCeiling(context, ceiling) ==
    /\ ScopeIsNarrowerThan(context.grants, ceiling.grants)
    /\ context.tools \subseteq ceiling.tools
    /\ context.hosts \subseteq ceiling.hosts
    /\ LabelRank[context.clearance] <= LabelRank[ceiling.clearance]
    /\ context.depth <= ceiling.depth
=============================================================================
