------------------------------- MODULE Sidecar -------------------------------
(***************************************************************************)
(* The security sidecar: decisions taken locally, from a signed policy     *)
(* lease and a signed revocation snapshot that outlive the control plane.  *)
(*                                                                         *)
(*   v2/sidecar.ts              ActantSidecar.handle                       *)
(*   v2/policy-lease.ts         PolicyLease                                *)
(*   v2/signed-policy-bundle.ts verifyPolicyBundle                         *)
(*   v2/revocation-snapshot.ts  RevocationStore, verifyRevocationSnapshot  *)
(*   v2/keyring.ts              resolveIssuerKeys                          *)
(*   v2/failure-semantics.ts    FAILURE_CONTRACT and its probes            *)
(*                                                                         *)
(* handle runs to its end without an await and changes nothing but its     *)
(* telemetry, so a decision is a function of the state (Decision).  What   *)
(* moves is that state: documents are offered, in any order, duplicated    *)
(* and forged ones among them, keys rotate, time passes, the process       *)
(* restarts and forgets.                                                   *)
(***************************************************************************)
EXTENDS Authority, FiniteSets

CONSTANTS
    Tenant,
    Keys,           \* issuer keys: id and the window they may verify in
    Policies,       \* signed policy bundles in circulation
    Snapshots,      \* signed revocation snapshots in circulation
    NoDoc,          \* an empty lease, an empty store
    Tokens,         \* workload identity tokens in circulation
    Requests,       \* requests agents make
    Uninspectable,  \* the targets of a request too large to be walked
    AuthorityFor,   \* options.authorityFor: the grants of each agent
    HasIssuer,      \* options.permitIssuer is configured
    MaxTime, MaxRestarts    \* bounds of the model

VARIABLES
    now,        \* the sidecar's clock
    lease,      \* PolicyLease: #body, #highestActivatedVersion
    store,      \* RevocationStore: #body (and its index), #highestAppliedVersion
    trusted,    \* the keys lease and store verify with
    heard,      \* documents accepted since the process started
    restarts

vars == <<now, lease, store, trusted, heard, restarts>>

SidecarTypeOK ==
    /\ now \in 0..MaxTime
    /\ lease \in [body : Policies \cup {NoDoc}, floor : Nat]
    /\ store \in [body : Snapshots \cup {NoDoc}, floor : Nat]
    /\ trusted \in [lease : SUBSET Keys, store : SUBSET Keys]
    /\ heard \in [lease : SUBSET Policies, store : SUBSET Snapshots]
    /\ restarts \in 0..MaxRestarts

Empty == [body |-> NoDoc, floor |-> 0]

Fresh ==
    /\ lease' = Empty /\ store' = Empty
    /\ trusted' = [lease |-> Keys, store |-> Keys]
    /\ heard' = [lease |-> {}, store |-> {}]

Init ==
    /\ now = 0
    /\ lease = Empty /\ store = Empty
    /\ trusted = [lease |-> Keys, store |-> Keys]
    /\ heard = [lease |-> {}, store |-> {}]
    /\ restarts = 0

-----------------------------------------------------------------------------
(* Offering documents *)

(* The keys of an issuer that may verify now. *)
Current(keys) == {k \in keys : k.from <= now /\ now < k.until}

Verified(doc, keys) == doc.key \in {k.id : k \in Current(keys)}

Offerable(doc, keys, floor) ==
    /\ Verified(doc, keys)
    /\ doc.tenant = Tenant
    /\ doc.issued < doc.expires
    /\ doc.issued <= now /\ now < doc.expires
    /\ doc.version > floor

(* Faulty: the same version may be offered again. *)
BundleAcceptedAgain(doc) ==
    /\ doc.listed
    /\ doc.version >= lease.floor
    /\ Offerable(doc, trusted.lease, 0)

BundleAccepted(doc) ==
    doc.listed /\ Offerable(doc, trusted.lease, lease.floor)

SnapshotAccepted(doc) == Offerable(doc, trusted.store, store.floor)

(* PolicyLease.offer: a refused bundle leaves the lease as it is. *)
OfferBundle(doc) ==
    /\ BundleAccepted(doc)
    /\ lease' = [body |-> doc, floor |-> doc.version]
    /\ heard' = [heard EXCEPT !.lease = @ \cup {doc}]
    /\ UNCHANGED <<now, store, trusted, restarts>>

(* RevocationStore.offer: body, index and floor move together. *)
OfferSnapshot(doc) ==
    /\ SnapshotAccepted(doc)
    /\ store' = [body |-> doc, floor |-> doc.version]
    /\ heard' = [heard EXCEPT !.store = @ \cup {doc}]
    /\ UNCHANGED <<now, lease, trusted, restarts>>

(* setTrustedKeys of either: what was accepted stays accepted. *)
SetKeys(who, keys) ==
    /\ trusted[who] # keys
    /\ trusted' = [trusted EXCEPT ![who] = keys]
    /\ UNCHANGED <<now, lease, store, heard, restarts>>

Tick ==
    /\ now < MaxTime
    /\ now' = now + 1
    /\ UNCHANGED <<lease, store, trusted, heard, restarts>>

(* Bodies and floors are in memory only. *)
Restart ==
    /\ restarts < MaxRestarts
    /\ restarts' = restarts + 1
    /\ Fresh
    /\ UNCHANGED now

Next ==
    \/ \E doc \in Policies : OfferBundle(doc)
    \/ \E doc \in Snapshots : OfferSnapshot(doc)
    \/ \E who \in {"lease", "store"}, keys \in SUBSET Keys : SetKeys(who, keys)
    \/ Tick
    \/ Restart

Spec == Init /\ [][Next]_vars

-----------------------------------------------------------------------------
(* Deciding *)

(* Faulty: a lease is as good as its last offer. *)
LeaseStateUndying == IF lease.body = NoDoc THEN "empty" ELSE "active"

LeaseState ==
    IF lease.body = NoDoc THEN "empty"
    ELSE IF now >= lease.body.expires THEN "expired" ELSE "active"

IdentityAccepted(token) ==
    /\ token.genuine
    /\ token.tenant = Tenant
    /\ token.issued <= now /\ now < token.expires

(* Faulty: an expired snapshot counts as none. *)
RevokedWhileFresh(token) ==
    /\ store.body # NoDoc /\ now < store.body.expires
    /\ \/ token.agent \in store.body.agents
       \/ token.nonce \in store.body.nonces

(* Enforced past the snapshot's expiry; an empty store revokes nothing. *)
Revoked(token) ==
    /\ store.body # NoDoc
    /\ \/ token.agent \in store.body.agents
       \/ token.nonce \in store.body.nonces

(* checkNetworkTargets: every host named anywhere in the request. *)
TargetsAllowed(r, rules) ==
    /\ r.targets # Uninspectable
    /\ \A host \in r.targets : \E rule \in rules : HostMatchesRule(host, rule)

CheckAction(r) ==
    IF r.tool \notin lease.body.tools \cap DOMAIN lease.body.manifest
        THEN "tool_not_in_manifest"
    ELSE IF ~ScopeIsNarrowerThan({lease.body.manifest[r.tool]},
                                 AuthorityFor[r.token.agent])
        THEN "not_in_grant_scope"
    ELSE IF ~TargetsAllowed(r, lease.body.hosts) THEN "network_rule_denied"
    ELSE "action_allowed"

(* Neither the agent's tools nor its authority are looked at here. *)
RequestPermit(r) ==
    IF r.tool \notin lease.body.permits \/ ~HasIssuer
        THEN "sidecar_policy_denied"
    ELSE IF ~TargetsAllowed(r, lease.body.hosts) THEN "network_rule_denied"
    ELSE IF ~MayFlow(r.labels, r.sink) THEN "ifc_violation"
    ELSE "effect_permit_issued"

ByType(r) ==
    CASE r.type = "GetSecurityContext" -> "context_returned"
      [] r.type = "ResolveGrant" ->
            IF ScopeIsNarrowerThan({r.grant}, AuthorityFor[r.token.agent])
            THEN "grant_resolved" ELSE "not_in_grant_scope"
      [] r.type = "CheckMessage" ->
            IF MayFlow(r.labels, "another_agent")
            THEN "message_allowed" ELSE "ifc_violation"
      [] r.type = "CheckAction" -> CheckAction(r)
      [] r.type = "RequestEffectPermit" -> RequestPermit(r)
      [] r.type = "CommitEffect" -> "effect_committed"

Decision(r) ==
    CASE LeaseState = "empty" -> "no_valid_policy"
      [] LeaseState = "expired" -> "policy_expired"
      [] LeaseState = "active" ->
            IF ~IdentityAccepted(r.token) THEN "identity_invalid"
            ELSE IF Revoked(r.token) THEN "identity_revoked"
            ELSE ByType(r)

AllowReasons == {"context_returned", "grant_resolved", "message_allowed",
                 "action_allowed", "effect_permit_issued", "effect_committed"}

Allows(r) == Decision(r) \in AllowReasons

-----------------------------------------------------------------------------
(* failure-semantics.ts: what an outage may turn decisions into.  The other *)
(* three modes concern the permit issuer and the evidence sink, which are  *)
(* EffectGateway's, and the identity service, whose every outcome is       *)
(* allowed.                                                                *)

FailureContract ==
    [control_plane_unavailable |-> {"enforced_from_lease"},
     policy_expired            |-> {"denied"}]

Classify(in, out) ==
    IF ~in /\ ~out THEN "denied"
    ELSE IF in /\ ~out THEN "enforced_from_lease" ELSE "limited"

(* A probe's pair of requests: a tool the lease grants, one nobody grants. *)
InScope(token)  == {r \in Requests : /\ r.token = token /\ r.type = "CheckAction"
                                     /\ \E p \in Policies : r.tool \in p.tools
                                     /\ r.targets = {}}
OutOfScope(token) == {r \in Requests : /\ r.token = token /\ r.type = "CheckAction"
                                       /\ \A p \in Policies : r.tool \notin p.tools}

Observed(token) == Classify(\E r \in InScope(token) : Allows(r),
                            \E r \in OutOfScope(token) : Allows(r))

(* In which states, and with which tokens, a probe measures which failure. *)
Measures(mode, token) ==
    CASE mode = "control_plane_unavailable" ->
            /\ LeaseState = "active"
            /\ IdentityAccepted(token) /\ ~Revoked(token)
            /\ \E r \in InScope(token) :
                  /\ r.tool \in lease.body.tools \cap DOMAIN lease.body.manifest
                  /\ ScopeIsNarrowerThan({lease.body.manifest[r.tool]},
                                         AuthorityFor[token.agent])
      [] mode = "policy_expired" -> lease.body # NoDoc /\ now >= lease.body.expires

-----------------------------------------------------------------------------
(* Properties *)

Newest(docs) == CHOOSE d \in docs : \A e \in docs : e.version <= d.version

(* Whatever was offered in whatever order, replayed, forged or expired     *)
(* meanwhile, and however keys rotated: an allow follows from the newest   *)
(* policy this process ever accepted, in that policy's own window, and     *)
(* from nobody the newest snapshot it ever accepted has revoked.           *)
(* Sidecar.handle, PolicyLease.offer, RevocationStore.offer.               *)
AllowsAreCurrent ==
    \A r \in Requests : Allows(r) =>
        /\ heard.lease # {}
        /\ LET policy == Newest(heard.lease)
           IN  /\ now < policy.expires
               /\ r.type = "CheckAction" =>
                    /\ r.tool \in policy.tools
                    /\ TargetsAllowed(r, policy.hosts)
               /\ r.type = "RequestEffectPermit" => r.tool \in policy.permits
        /\ heard.store # {} =>
              LET listed == Newest(heard.store)
              IN  r.token.agent \notin listed.agents /\ r.token.nonce \notin listed.nonces

WidensStep ==
    heard' = heard \/ restarts' # restarts => \A r \in Requests : Allows(r)' => Allows(r)

(* policy-lease.ts "Authority must not change during the outage": passing  *)
(* time, key rotation and restarts take authority away but never give any; *)
(* only an accepted document turns a refusal into an allow.                *)
OnlyDocumentsWiden == [][WidensStep]_vars

(* The conformance check of failure-semantics.ts, on every reachable state *)
(* instead of one fresh sidecar per mode.                                  *)
FailsAsContracted ==
    \A mode \in DOMAIN FailureContract, token \in Tokens :
        Measures(mode, token) => Observed(token) \in FailureContract[mode]
=============================================================================
