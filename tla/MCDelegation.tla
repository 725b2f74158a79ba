---------------------------- MODULE MCDelegation ----------------------------
(***************************************************************************)
(* One instance of the theorems about delegations, identities and the      *)
(* client, so that what they assume is evaluated on the small values too.  *)
(***************************************************************************)
EXTENDS MCBase

VARIABLES
    dnow,                                   \* the clock of delegations and identities
    chain, bundle, highest, context,        \* Delegation
    published, known, fetch, struck,        \* Identity
    where, ends, content, acting, decision, result, claimed, moves    \* Client

(* Delegation: two hops below a root with one wildcard, links that narrow, *)
(* widen, expire or are forged, and a bundle that is narrowed meanwhile.   *)

Link(from, to, depth, scope, expires, genuine) ==
    [delegator |-> from, delegatee |-> to, tenant |-> "t", depth |-> depth,
     scope |-> scope, expires |-> expires, genuine |-> genuine]

TheLinks ==
    {Link("root", "b", 1, {Issues}, 2, TRUE),
     Link("root", "b", 1, {All}, 1, TRUE),
     Link("b", "c", 2, {Read}, 2, TRUE),
     Link("b", "c", 2, {All}, 2, TRUE),
     Link("b", "c", 2, {AnyPart}, 2, TRUE),
     Link("b", "c", 2, {Merge}, 2, FALSE),
     Link("c", "root", 3, {Issues, Merge}, 2, TRUE)}

Bundle(manifest, depth) ==
    [agent |-> "b", tools |-> DOMAIN manifest, manifest |-> manifest,
     hosts |-> {}, clearance |-> "INTERNAL", depth |-> depth]

WideBundle   == Bundle([merge |-> All, read |-> Issues], 2)
NarrowBundle == Bundle([read |-> Read], 1)

Envelope(version, grants, nonce, genuine) ==
    [version |-> version, tenant |-> "t", agent |-> "b", nonce |-> nonce,
     issued |-> 0, expires |-> 2, genuine |-> genuine,
     context |-> [grants |-> grants, tools |-> {"read"}, hosts |-> {},
                  clearance |-> "PUBLIC", depth |-> 1]]

TheEnvelopes ==
    {Envelope(1, {All}, "n1", TRUE), Envelope(2, {Read}, "n1", TRUE),
     Envelope(2, {Issues}, "n1", TRUE), Envelope(3, {Merge}, "n2", TRUE),
     Envelope(4, {All}, "n1", FALSE), Envelope(3, {Read}, "n3", TRUE)}

TheRoot == {Issues, Grant(<<"repo", "pr", "**">>)}
TheBundles == {WideBundle, NarrowBundle}
TheIdentities == {[agent |-> "b", nonce |-> "n1"], [agent |-> "b", nonce |-> "n3"],
                  [agent |-> "c", nonce |-> "n2"]}
TheCapabilities ==
    {Grant(<<r, k, v>>) : r \in {"repo", "x"}, k \in {"issues", "pr"}, v \in {"read", "merge"}}
    \cup {Grant(<<"repo">>), Grant(<<"repo", "pr">>)}

(* Identity: two workloads, one of which the SPIRE agent would also hand   *)
(* the other's SVID, two signing keys, one revocation.                     *)

Name(agent) == [domain |-> "example.org", tenant |-> "t", agent |-> agent]
TheEntitled == [w1 |-> {Name("w1"), Name("w2")}, w2 |-> {Name("w2")}]

(* Client: two calls of every kind on one path, two names in the workspace *)
(* and one outside, the path's own name a file or a link out of it, and    *)
(* one relinking or write by somebody else.                                *)

TheCallers == {one, two}
TheInside == {"in", "aside"}
TheHome == [p \in {"path"} |-> "in"]
TheLinkings == {[in |-> end, aside |-> "aside", out |-> "out"] : end \in {"in", "out"}}
TheKinds == {"read", "list", "write", "edit", "bash", "wrapped"}

D == INSTANCE Delegation_proofs WITH
        now <- dnow, Tenant <- "t", MaxTime <- 2,
        Root <- TheRoot,
        Links <- TheLinks, MaxDepth <- 3, Bundles <- TheBundles,
        Envelopes <- TheEnvelopes, NoEnvelope <- None,
        Identities <- TheIdentities, Capabilities <- TheCapabilities, MaxHops <- 3,
        revoked <- struck, Workloads <- {"w1", "w2"}, Domain <- "example.org",
        Audience <- "fabric", Kids <- {1, 2}, LocalKey <- 0, Entitled <- TheEntitled,
        Algorithms <- {"ES256"}, NoJti <- <<>>, NoToken <- None, TimeToLive <- 1,
        MaxRevocations <- 1,
        named <- where, call <- acting,
        Calls <- TheCallers, Paths <- {"path"}, Inside <- TheInside, Outside <- {"out"},
        HomeOf <- TheHome, Linkings <- TheLinkings, Nowhere <- None, Kinds <- TheKinds,
        MaxMoves <- 1

delegationVars == <<chain, bundle, highest, context>>
identityVars == <<published, known, fetch, struck>>
clientVars == <<where, ends, content, acting, decision, result, claimed, moves>>

(* Another module is the subject; the clock rests when neither of its two   *)
(* modules is.                                                             *)
clockRests == dnow = None
delegationRests == chain = None /\ bundle = None /\ highest = None /\ context = None
identityRests == published = None /\ known = None /\ fetch = None /\ struck = None
clientRests ==
    /\ where = None /\ ends = None /\ content = None /\ acting = None /\ decision = None
    /\ result = None /\ claimed = None /\ moves = None

(* Two calls that can meet: both at files, or neither; the second name in   *)
(* the workspace is a file.                                                *)
AtFiles == {c \in TheCallers : acting[c].kind \in {"read", "list", "write", "edit"}}
CallersMeet == AtFiles \in {{}, TheCallers} /\ content["aside"] = 1

(* What the theorems about the three modules assume. *)
DelegationHypotheses ==
    /\ D!GrantsParsed /\ D!VersionsCount /\ D!IdentitiesArePairs
    /\ D!IdentitiesWellFormed /\ D!TrustDomainWellFormed
    /\ D!PathsWellFormed
=============================================================================
