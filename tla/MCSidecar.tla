----------------------------- MODULE MCSidecar ------------------------------
(***************************************************************************)
(* One instance of the theorems about the sidecar, its socket and the      *)
(* policies beside it, so that what they assume is evaluated here too.     *)
(***************************************************************************)
EXTENDS MCBase

VARIABLES
    snow, lease, store, trusted, heard, restarts,       \* Sidecar
    ask, client, dialling, socket, server, deaths,      \* SidecarSocket
    bundles, rowsActive, everActive, inForce, operation, evaluation,    \* Policy
    policyRequests, policyFaults, policyRestarts

(* Sidecar: genuine, forged, foreign and competing documents of versions 1 *)
(* to 3, two issuer keys whose windows overlap, one restart.               *)

TheKeys == {[id |-> "k1", from |-> 0, until |-> 2], [id |-> "k2", from |-> 1, until |-> 5]}

Policy(version, tenant, key, issued, expires, tools, hosts) ==
    [version |-> version, tenant |-> tenant, key |-> key, listed |-> TRUE,
     issued |-> issued, expires |-> expires, tools |-> tools,
     manifest |-> [t \in tools |-> IF t = "read" THEN Read ELSE Merge],
     hosts |-> hosts, permits |-> tools \cap {"merge"}]

ThePolicies ==
    {Policy(1, "t", "k1", 0, 4, {"read", "merge"}, {<<"*", "com">>}),
     Policy(2, "t", "k1", 0, 2, {"read"}, {}),
     Policy(2, "t", "k2", 1, 4, {"read", "merge"}, {}),
     Policy(3, "t", "none", 0, 4, {"read", "merge"}, {<<"*", "com">>}),
     Policy(3, "other", "k2", 0, 4, {"read", "merge"}, {<<"*", "com">>})}

Snapshot(version, key, issued, expires, agents, nonces) ==
    [version |-> version, tenant |-> "t", key |-> key, issued |-> issued,
     expires |-> expires, agents |-> agents, nonces |-> nonces]

TheSnapshots ==
    {Snapshot(1, "k1", 0, 1, {"b"}, {}), Snapshot(2, "k1", 0, 3, {}, {"m"}),
     Snapshot(2, "k2", 1, 3, {}, {}), Snapshot(3, "none", 0, 4, {}, {})}

Token(agent, nonce, expires, genuine) ==
    [agent |-> agent, nonce |-> nonce, tenant |-> "t", issued |-> 0,
     expires |-> expires, genuine |-> genuine]

TheTokens == {Token("b", "n", 3, TRUE), Token("c", "m", 2, TRUE), Token("b", "n", 3, FALSE)}

Ask(type, token, tool, targets, sink, labels, grant) ==
    [type |-> type, token |-> token, tool |-> tool, targets |-> targets, sink |-> sink,
     labels |-> labels, grant |-> grant]

TheRequests ==
    UNION {
      {Ask("CheckAction", t, tool, hosts, "email", {}, Read)
         : tool \in {"read", "merge", "undeclared"}, hosts \in {{}, {<<"api", "com">>}, {<<"com">>}, None}}
      \cup {Ask("RequestEffectPermit", t, "merge", {}, "file_store", ls, Read)
              : ls \in {{"PII"}, {"CONFIDENTIAL", "PUBLIC"}}}
      \cup {Ask("ResolveGrant", t, "read", {}, "email", {}, g) : g \in {Read, All}}
      \cup {Ask(type, t, "read", {}, "email", {"SECRET"}, Read)
              : type \in {"GetSecurityContext", "CheckMessage", "CommitEffect"}}
      : t \in TheTokens}

TheAuthority == [b |-> {Issues}, c |-> {All}]

(* SidecarSocket: three questions, the second denied and half a frame long,*)
(* over three connections, with one crash or shutdown.                     *)

TheAsks == {"a1", "a2", "a3"}
TheSockets == {"k1", "k2", "k3"}
TheSizes == [a1 |-> 1, a2 |-> 2, a3 |-> 4]

(* Policy: a seeded bundle of one tenant, an old row that does not parse,  *)
(* a second bundle, and another tenant's; a process that takes operators'  *)
(* requests and a data plane.                                              *)

TheBundleIds == {"seed", "new", "theirs", "broken"}
TheTenants == [seed |-> "t1", new |-> "t1", theirs |-> "t2", broken |-> "t1"]
TheStored == <<"broken", "seed">>
TheParsing == {"seed", "new", "theirs"}
TheBuiltIn == {"file", "theirs"}
ThePermitting == {"file", "new"}
TheServers == {"all", "data"}

S == INSTANCE Sidecar_proofs WITH
        now <- snow, Tenant <- "t", Keys <- TheKeys, Policies <- ThePolicies,
        Snapshots <- TheSnapshots, NoDoc <- None, Tokens <- TheTokens,
        Requests <- TheRequests, Uninspectable <- None,
        AuthorityFor <- TheAuthority, HasIssuer <- TRUE,
        MaxTime <- 4, MaxRestarts <- 1,
        Asks <- TheAsks, Allowed <- {"a1", "a3"}, Sockets <- TheSockets, Nothing <- "nothing", Transport <- "transport",
        Mode <- "v2_enforce", OnExisting <- "unlink",
        Size <- TheSizes, MaxFrame <- 3, MaxDeaths <- 1,
        created <- bundles, active <- rowsActive, activated <- everActive,
        request <- operation, call <- evaluation,
        requests <- policyRequests, faults <- policyFaults,
        Bundles <- TheBundleIds, TenantOf <- TheTenants, Stored <- TheStored, Seeded <- "seed",
        Parses <- TheParsing, File <- "file", BuiltIn <- TheBuiltIn,
        Permitting <- ThePermitting, Servers <- TheServers, Operators <- {"all"}, Operations <- {one, two},
        Calls <- {"call"}, MaxAttempts <- 2, MaxRequests <- 3, MaxFaults <- 1,
        MaxPolicyRestarts <- 1

sidecarVars == <<snow, lease, store, trusted, heard, restarts>>
socketVars == <<ask, client, dialling, socket, server, deaths>>
policyVars == <<bundles, rowsActive, everActive, inForce, operation, evaluation,
                policyRequests, policyFaults, policyRestarts>>

(* Another module is the subject. *)
sidecarRests ==
    /\ snow = None /\ lease = None /\ store = None /\ trusted = None
    /\ heard = None /\ restarts = None
socketRests ==
    /\ ask = None /\ client = None /\ dialling = None /\ socket = None
    /\ server = None /\ deaths = None
policyRests ==
    /\ bundles = None /\ rowsActive = None /\ everActive = None /\ inForce = None
    /\ operation = None /\ evaluation = None /\ policyFaults = None
    /\ policyRestarts = None /\ policyRequests = None

(* What the theorems about the three modules assume. *)
SidecarHypotheses ==
    /\ S!DocumentsWellFormed /\ S!RequestsWellFormed
    /\ \A r \in TheRequests : r.token.issued = 0
    /\ None # {}
    /\ S!QuestionsWellFormed
    /\ S!NamesDistinct /\ S!RowsWellFormed
=============================================================================
