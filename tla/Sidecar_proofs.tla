--------------------------- MODULE Sidecar_proofs ---------------------------
(***************************************************************************)
(* For any documents, keys, tokens and requests, and without the bounds of *)
(* the model: the sidecar decides by the newest documents it ever accepted *)
(* in its process's life, nothing but such a document widens what it       *)
(* allows, and both outages it can meet alone end as contracted.           *)
(*                                                                         *)
(* At the end, for any questions, connections and deaths: what an agent    *)
(* proceeds on is the answer to its own question (SidecarSocket).          *)
(***************************************************************************)
EXTENDS Sidecar, TLAPS

(* Documents have a version and an end, and none of them is no document;   *)
(* the bounds of the model are numbers.                                    *)
DocumentsWellFormed ==
    /\ \A d \in Policies \cup Snapshots : d.version \in Nat /\ d.expires \in Nat
    /\ NoDoc \notin Policies \cup Snapshots
    /\ MaxTime \in Nat /\ MaxRestarts \in Nat

(* A token carries numbers, and a request is of one of the six types. *)
RequestsWellFormed ==
    \A r \in Requests :
        /\ r.token.issued \in Nat /\ r.token.expires \in Nat
        /\ r.type \in {"GetSecurityContext", "ResolveGrant", "CheckMessage", "CheckAction",
                       "RequestEffectPermit", "CommitEffect"}

-----------------------------------------------------------------------------
(* What is in force is the newest of what was heard, and the floor is its  *)
(* version: body, index and floor move together.                           *)
HoldsNewest(held, docs) ==
    IF docs = {} THEN held = Empty
    ELSE /\ held.body \in docs /\ held.floor = held.body.version
         /\ \A d \in docs : d # held.body => d.version < held.floor

SidecarInv ==
    /\ SidecarTypeOK
    /\ HoldsNewest(lease, heard.lease)
    /\ HoldsNewest(store, heard.store)

(* Then it is what Newest chooses, and nothing else could be. *)
LEMMA HeldIsNewest ==
    ASSUME NEW docs, NEW held, docs # {}, HoldsNewest(held, docs),
           \A d \in docs : d.version \in Nat
    PROVE  Newest(docs) = held.body
<1> DEFINE Top(d) == d \in docs /\ \A e \in docs : e.version <= d.version
<1>1. Top(held.body)
  BY DEF HoldsNewest
<1>2. ASSUME NEW d, Top(d) PROVE d = held.body
  BY <1>2 DEF HoldsNewest
<1>3. Newest(docs) \in docs /\ \A e \in docs : e.version <= Newest(docs).version
  BY <1>1 DEF Newest
<1> QED
  BY <1>2, <1>3

(* A document above the floor becomes the newest; it was not heard before. *)
LEMMA OfferTakesOver ==
    ASSUME NEW docs, NEW held, NEW new, HoldsNewest(held, docs),
           \A d \in docs : d.version \in Nat, new.version \in Nat,
           held.floor \in Nat, new.version > held.floor
    PROVE  /\ HoldsNewest([body |-> new, floor |-> new.version], docs \cup {new})
           /\ new \notin docs
<1>1. \A d \in docs : d.version < new.version
  <2>1. CASE docs = {}
    BY <2>1
  <2>2. CASE docs # {}
    BY <2>2 DEF HoldsNewest
  <2> QED
    BY <2>1, <2>2
<1>2. new \notin docs
  BY <1>1
<1> QED
  BY <1>1, <1>2 DEF HoldsNewest

-----------------------------------------------------------------------------
LEMMA InitHolds == ASSUME DocumentsWellFormed, Init PROVE SidecarInv
BY DEF DocumentsWellFormed, Init, Empty, SidecarInv, SidecarTypeOK, HoldsNewest

(* An accepted bundle is new to the process ... *)
LEMMA BundleHolds ==
    ASSUME DocumentsWellFormed, SidecarInv, NEW doc \in Policies, OfferBundle(doc)
    PROVE  SidecarInv' /\ heard' # heard
<1>1. /\ lease' = [body |-> doc, floor |-> doc.version] /\ doc.version > lease.floor
      /\ heard' = [heard EXCEPT !.lease = @ \cup {doc}]
      /\ UNCHANGED <<now, store, trusted, restarts>>
  BY DEF OfferBundle, BundleAccepted, Offerable
<1>2. /\ heard.lease \subseteq Policies /\ lease.floor \in Nat /\ doc.version \in Nat
      /\ heard'.lease = heard.lease \cup {doc} /\ heard'.store = heard.store
      /\ \A d \in heard.lease : d.version \in Nat
  BY <1>1 DEF DocumentsWellFormed, SidecarInv, SidecarTypeOK
<1>3. SidecarTypeOK'
  BY <1>1, <1>2 DEF SidecarInv, SidecarTypeOK
<1>4. HoldsNewest(lease, heard.lease)' /\ doc \notin heard.lease
  BY <1>1, <1>2, OfferTakesOver DEF SidecarInv
<1>5. HoldsNewest(store, heard.store)'
  BY <1>1, <1>2 DEF SidecarInv
<1>6. heard' # heard
  BY <1>2, <1>4
<1> QED
  BY <1>3, <1>4, <1>5, <1>6 DEF SidecarInv

(* ... and so is an accepted snapshot. *)
LEMMA SnapshotHolds ==
    ASSUME DocumentsWellFormed, SidecarInv, NEW doc \in Snapshots, OfferSnapshot(doc)
    PROVE  SidecarInv' /\ heard' # heard
<1>1. /\ store' = [body |-> doc, floor |-> doc.version] /\ doc.version > store.floor
      /\ heard' = [heard EXCEPT !.store = @ \cup {doc}]
      /\ UNCHANGED <<now, lease, trusted, restarts>>
  BY DEF OfferSnapshot, SnapshotAccepted, Offerable
<1>2. /\ heard.store \subseteq Snapshots /\ store.floor \in Nat /\ doc.version \in Nat
      /\ heard'.store = heard.store \cup {doc} /\ heard'.lease = heard.lease
      /\ \A d \in heard.store : d.version \in Nat
  BY <1>1 DEF DocumentsWellFormed, SidecarInv, SidecarTypeOK
<1>3. SidecarTypeOK'
  BY <1>1, <1>2 DEF SidecarInv, SidecarTypeOK
<1>4. HoldsNewest(store, heard.store)' /\ doc \notin heard.store
  BY <1>1, <1>2, OfferTakesOver DEF SidecarInv
<1>5. HoldsNewest(lease, heard.lease)'
  BY <1>1, <1>2 DEF SidecarInv
<1>6. heard' # heard
  BY <1>2, <1>4
<1> QED
  BY <1>3, <1>4, <1>5, <1>6 DEF SidecarInv

LEMMA NextHolds ==
    ASSUME DocumentsWellFormed, SidecarInv, [Next]_vars PROVE SidecarInv'
<1>1. ASSUME NEW doc \in Policies, OfferBundle(doc) PROVE SidecarInv'
  BY <1>1, BundleHolds
<1>2. ASSUME NEW doc \in Snapshots, OfferSnapshot(doc) PROVE SidecarInv'
  BY <1>2, SnapshotHolds
<1>3. ASSUME NEW who \in {"lease", "store"}, NEW keys \in SUBSET Keys, SetKeys(who, keys)
      PROVE  SidecarInv'
  <2>1. trusted' \in [lease : SUBSET Keys, store : SUBSET Keys]
    BY <1>3 DEF SetKeys, SidecarInv, SidecarTypeOK
  <2> QED
    BY <1>3, <2>1 DEF SetKeys, SidecarInv, SidecarTypeOK
<1>4. CASE Tick
  BY <1>4 DEF DocumentsWellFormed, Tick, SidecarInv, SidecarTypeOK
<1>5. CASE Restart
  BY <1>5 DEF DocumentsWellFormed, Restart, Fresh, Empty, SidecarInv, SidecarTypeOK,
              HoldsNewest
<1>6. CASE UNCHANGED vars
  BY <1>6 DEF vars, SidecarInv, SidecarTypeOK
<1> QED
  BY <1>1, <1>2, <1>3, <1>4, <1>5, <1>6 DEF Next

LEMMA SidecarInvariant == ASSUME DocumentsWellFormed PROVE Spec => []SidecarInv
<1> QED
  BY InitHolds, NextHolds, PTL DEF Spec

(* The state stays within its types. *)
THEOREM SidecarTyped == ASSUME DocumentsWellFormed PROVE Spec => []SidecarTypeOK
<1>1. SidecarInv => SidecarTypeOK
  BY DEF SidecarInv
<1> QED
  BY <1>1, SidecarInvariant, PTL

-----------------------------------------------------------------------------
(* Decisions *)

(* An allow comes of a live lease and an identity nobody has revoked. *)
LEMMA AllowNeeds ==
    ASSUME NEW r, Allows(r)
    PROVE  /\ LeaseState = "active" /\ IdentityAccepted(r.token) /\ ~Revoked(r.token)
           /\ ByType(r) \in AllowReasons
<1>1. LeaseState \in {"empty", "expired", "active"}
  BY DEF LeaseState
<1>2. Decision(r) \in AllowReasons
  BY DEF Allows
<1> HIDE DEF LeaseState, IdentityAccepted, Revoked, ByType
<1>3. /\ "no_valid_policy" \notin AllowReasons /\ "policy_expired" \notin AllowReasons
      /\ "identity_invalid" \notin AllowReasons /\ "identity_revoked" \notin AllowReasons
  BY DEF AllowReasons
<1>4. LeaseState = "active"
  BY <1>1, <1>2, <1>3 DEF Decision
<1> QED
  BY <1>2, <1>3, <1>4 DEF Decision

LEMMA AllowSuffices ==
    ASSUME NEW r, LeaseState = "active", IdentityAccepted(r.token), ~Revoked(r.token),
           ByType(r) \in AllowReasons
    PROVE  Allows(r)
BY DEF Allows, Decision

LEMMA ActiveLease ==
    ASSUME DocumentsWellFormed, SidecarInv, LeaseState = "active"
    PROVE  lease.body \in Policies /\ now < lease.body.expires
BY DEF DocumentsWellFormed, SidecarInv, SidecarTypeOK, LeaseState

(* An allowed action is one the lease in force declares. *)
LEMMA ActionAllowed ==
    ASSUME NEW r, r.type = "CheckAction", ByType(r) \in AllowReasons
    PROVE  r.tool \in lease.body.tools /\ TargetsAllowed(r, lease.body.hosts)
<1>1. CheckAction(r) \in AllowReasons
  BY DEF ByType
<1> QED
  BY <1>1 DEF CheckAction, AllowReasons

LEMMA PermitIssued ==
    ASSUME NEW r, r.type = "RequestEffectPermit", ByType(r) \in AllowReasons
    PROVE  r.tool \in lease.body.permits
<1>1. RequestPermit(r) \in AllowReasons
  BY DEF ByType
<1> QED
  BY <1>1 DEF RequestPermit, AllowReasons

LEMMA CurrentDecisions == ASSUME DocumentsWellFormed, SidecarInv PROVE AllowsAreCurrent
<1> SUFFICES
      ASSUME NEW r \in Requests, Allows(r)
      PROVE  /\ heard.lease # {}
             /\ LET policy == Newest(heard.lease)
                IN  /\ now < policy.expires
                    /\ r.type = "CheckAction" =>
                         /\ r.tool \in policy.tools
                         /\ TargetsAllowed(r, policy.hosts)
                    /\ r.type = "RequestEffectPermit" => r.tool \in policy.permits
             /\ heard.store # {} =>
                   LET listed == Newest(heard.store)
                   IN  r.token.agent \notin listed.agents /\ r.token.nonce \notin listed.nonces
  BY DEF AllowsAreCurrent
<1>1. /\ LeaseState = "active" /\ ~Revoked(r.token) /\ ByType(r) \in AllowReasons
      /\ lease.body \in Policies /\ now < lease.body.expires
  BY AllowNeeds, ActiveLease
<1>2. heard.lease # {}
  BY <1>1 DEF DocumentsWellFormed, SidecarInv, HoldsNewest, Empty
<1>3. Newest(heard.lease) = lease.body
  BY <1>2, HeldIsNewest DEF DocumentsWellFormed, SidecarInv, SidecarTypeOK
<1>4. ASSUME heard.store # {}
      PROVE  /\ Newest(heard.store) = store.body
             /\ r.token.agent \notin store.body.agents /\ r.token.nonce \notin store.body.nonces
  <2>1. Newest(heard.store) = store.body
    BY <1>4, HeldIsNewest DEF DocumentsWellFormed, SidecarInv, SidecarTypeOK
  <2>2. store.body # NoDoc
    BY <1>4 DEF DocumentsWellFormed, SidecarInv, SidecarTypeOK, HoldsNewest
  <2> QED
    BY <1>1, <2>1, <2>2 DEF Revoked
<1> QED
  BY <1>1, <1>2, <1>3, <1>4, ActionAllowed, PermitIssued

(* Whatever was offered in whatever order, replayed, forged or expired     *)
(* meanwhile, and however keys rotated: what is allowed follows from the   *)
(* newest policy accepted since the process started and from the newest    *)
(* revocations.  Sidecar.handle, PolicyLease.offer, RevocationStore.offer. *)
THEOREM DecidesByTheNewest == ASSUME DocumentsWellFormed PROVE Spec => []AllowsAreCurrent
<1>1. SidecarInv => AllowsAreCurrent
  BY CurrentDecisions
<1> QED
  BY <1>1, SidecarInvariant, PTL

-----------------------------------------------------------------------------
(* Outages *)

(* Without an accepted document nothing is allowed that was not, to the    *)
(* holder of a token that is not from the future.                          *)
KeepsRefusing(r) ==
    heard' = heard \/ restarts' # restarts =>
        (r.token.issued <= now /\ Allows(r)' => Allows(r))

(* The same of the next state. *)
LEMMA NextAllowNeeds ==
    ASSUME NEW r, Allows(r)'
    PROVE  /\ LeaseState' = "active" /\ IdentityAccepted(r.token)' /\ ~Revoked(r.token)'
           /\ ByType(r)' \in AllowReasons
<1>1. LeaseState' \in {"empty", "expired", "active"}
  BY DEF LeaseState
<1>2. Decision(r)' \in AllowReasons
  BY DEF Allows, AllowReasons
<1>3. /\ "no_valid_policy" \notin AllowReasons /\ "policy_expired" \notin AllowReasons
      /\ "identity_invalid" \notin AllowReasons /\ "identity_revoked" \notin AllowReasons
  BY DEF AllowReasons
<1>4. LeaseState' = "active"
  BY <1>1, <1>2, <1>3 DEF Decision
<1> QED
  BY <1>2, <1>3, <1>4 DEF Decision

(* While the documents stay, the clock can only end leases and tokens.     *)
LEMMA TimeOnlyTakes ==
    ASSUME DocumentsWellFormed, RequestsWellFormed, SidecarInv, NEW r \in Requests,
           UNCHANGED <<lease, store>>, now' \in {now, now + 1},
           r.token.issued <= now, Allows(r)'
    PROVE  Allows(r)
<1>1. /\ LeaseState' = "active" /\ IdentityAccepted(r.token)' /\ ~Revoked(r.token)'
      /\ ByType(r)' \in AllowReasons
  BY NextAllowNeeds
<1>2. now \in Nat
  BY DEF SidecarInv, SidecarTypeOK, DocumentsWellFormed
<1>3. LeaseState = "active"
  <2>1. lease.body # NoDoc /\ ~(now' >= lease.body.expires)
    BY <1>1 DEF LeaseState
  <2>2. lease.body \in Policies /\ lease.body.expires \in Nat
    BY <2>1 DEF SidecarInv, SidecarTypeOK, DocumentsWellFormed
  <2> QED
    BY <1>2, <2>1, <2>2 DEF LeaseState
<1>4. IdentityAccepted(r.token)
  BY <1>1, <1>2 DEF IdentityAccepted, RequestsWellFormed
<1>5. ~Revoked(r.token)
  BY <1>1 DEF Revoked
<1>6. ByType(r)' = ByType(r)
  BY DEF RequestsWellFormed, ByType, CheckAction, RequestPermit
<1> QED
  BY <1>1, <1>3, <1>4, <1>5, <1>6, AllowSuffices

LEMMA RestartRefuses == ASSUME Restart, NEW r PROVE ~Allows(r)'
<1>1. LeaseState' = "empty"
  BY DEF Restart, Fresh, Empty, LeaseState
<1> QED
  BY <1>1, NextAllowNeeds

LEMMA StepKeepsRefusing ==
    ASSUME DocumentsWellFormed, RequestsWellFormed, SidecarInv, [Next]_vars,
           NEW r \in Requests
    PROVE  KeepsRefusing(r)
<1> SUFFICES ASSUME heard' = heard \/ restarts' # restarts, r.token.issued <= now, Allows(r)'
             PROVE  Allows(r)
  BY DEF KeepsRefusing
<1>1. ASSUME NEW doc \in Policies, OfferBundle(doc) PROVE FALSE
  BY <1>1, BundleHolds DEF OfferBundle
<1>2. ASSUME NEW doc \in Snapshots, OfferSnapshot(doc) PROVE FALSE
  BY <1>2, SnapshotHolds DEF OfferSnapshot
<1>3. CASE Restart
  BY <1>3, RestartRefuses
<1>4. ASSUME UNCHANGED <<lease, store>>, now' \in {now, now + 1} PROVE Allows(r)
  BY <1>4, TimeOnlyTakes
<1> QED
  BY <1>1, <1>2, <1>3, <1>4 DEF Next, SetKeys, Tick, vars

(* "Authority must not change during the outage": time, key rotation and   *)
(* restarts turn no refusal into an allow for anyone whose token is not    *)
(* issued in the future; only an accepted document does.                   *)
THEOREM OutagesNeverWiden ==
    ASSUME DocumentsWellFormed, RequestsWellFormed
    PROVE  Spec => [][\A r \in Requests : KeepsRefusing(r)]_vars
<1>1. SidecarInv /\ [Next]_vars => [\A r \in Requests : KeepsRefusing(r)]_vars
  BY StepKeepsRefusing
<1> QED
  BY <1>1, SidecarInvariant, PTL DEF Spec

(* So where every token in circulation was issued before the clock starts, *)
(* authority never widens without a document: policy-lease.ts.             *)
THEOREM DocumentsAloneWiden ==
    ASSUME DocumentsWellFormed, RequestsWellFormed,
           \A r \in Requests : r.token.issued = 0
    PROVE  Spec => OnlyDocumentsWiden
<1>1. SidecarInv /\ [Next]_vars => [WidensStep]_vars
  <2> SUFFICES ASSUME SidecarInv, [Next]_vars PROVE WidensStep
    OBVIOUS
  <2>1. now \in Nat
    BY DEF SidecarInv, SidecarTypeOK, DocumentsWellFormed
  <2>2. \A r \in Requests : KeepsRefusing(r) /\ r.token.issued <= now
    BY <2>1, StepKeepsRefusing
  <2> QED
    BY <2>2 DEF WidensStep, KeepsRefusing
<1> QED
  BY <1>1, SidecarInvariant, PTL DEF Spec, OnlyDocumentsWiden

-----------------------------------------------------------------------------
(* The failure contract *)

LEMMA ContractKept ==
    ASSUME DocumentsWellFormed, RequestsWellFormed, Uninspectable # {}, SidecarInv
    PROVE  FailsAsContracted
<1> SUFFICES ASSUME NEW mode \in DOMAIN FailureContract, NEW token \in Tokens,
                    Measures(mode, token)
             PROVE  Observed(token) \in FailureContract[mode]
  BY DEF FailsAsContracted
<1>1. CASE mode = "control_plane_unavailable"
  <2>1. /\ LeaseState = "active" /\ IdentityAccepted(token) /\ ~Revoked(token)
        /\ \E r \in InScope(token) :
              /\ r.tool \in lease.body.tools \cap DOMAIN lease.body.manifest
              /\ ScopeIsNarrowerThan({lease.body.manifest[r.tool]},
                                     AuthorityFor[token.agent])
    BY <1>1 DEF Measures
  <2>2. \E r \in InScope(token) : Allows(r)
    <3>1. PICK r \in InScope(token) :
              /\ r.tool \in lease.body.tools \cap DOMAIN lease.body.manifest
              /\ ScopeIsNarrowerThan({lease.body.manifest[r.tool]},
                                     AuthorityFor[token.agent])
      BY <2>1
    <3>2. r.token = token /\ r.type = "CheckAction" /\ r.targets = {}
      BY DEF InScope
    <3>3. TargetsAllowed(r, lease.body.hosts)
      BY <3>2 DEF TargetsAllowed
    <3>4. ByType(r) = "action_allowed"
      BY <3>1, <3>2, <3>3 DEF ByType, CheckAction
    <3> QED
      BY <2>1, <3>2, <3>4, AllowSuffices DEF AllowReasons
  <2>3. ~\E r \in OutOfScope(token) : Allows(r)
    <3> SUFFICES ASSUME NEW r \in OutOfScope(token), Allows(r) PROVE FALSE
      OBVIOUS
    <3>1. r.type = "CheckAction" /\ r.tool \notin lease.body.tools
      BY <2>1, ActiveLease DEF OutOfScope
    <3> QED
      BY <3>1, AllowNeeds, ActionAllowed
  <2>4. Observed(token) = "enforced_from_lease"
    BY <2>2, <2>3 DEF Observed, Classify
  <2> QED
    BY <1>1, <2>4 DEF FailureContract
<1>2. CASE mode = "policy_expired"
  <2>1. LeaseState = "expired"
    BY <1>2 DEF Measures, LeaseState
  <2>2. \A r : ~Allows(r)
    BY <2>1, AllowNeeds
  <2>3. Observed(token) = "denied"
    BY <2>2 DEF Observed, Classify
  <2> QED
    BY <1>2, <2>3 DEF FailureContract
<1> QED
  BY <1>1, <1>2 DEF FailureContract

(* While the control plane is unreachable what the lease grants is granted *)
(* and what nobody grants is not; an expired lease denies everything:      *)
(* the probes of failure-semantics.ts, in every reachable state.           *)
THEOREM FailuresAsContracted ==
    ASSUME DocumentsWellFormed, RequestsWellFormed, Uninspectable # {}
    PROVE  Spec => []FailsAsContracted
<1>1. SidecarInv => FailsAsContracted
  BY ContractKept
<1> QED
  BY <1>1, SidecarInvariant, PTL

-----------------------------------------------------------------------------
(***************************************************************************)
(* The socket before the sidecar (SidecarSocket), over whose one client    *)
(* any number of questions are asked at a time.                            *)
(***************************************************************************)
CONSTANTS Asks, Allowed, Sockets, Nothing, Transport, Mode, OnExisting, Size, MaxFrame,
          MaxDeaths
VARIABLES ask, client, dialling, socket, server, deaths

K == INSTANCE SidecarSocket

(* What is asked is no transport error, no connection is the absence of   *)
(* one, and the bound of the model is a number.                            *)
QuestionsWellFormed ==
    /\ Allowed \subseteq Asks
    /\ Transport \notin Asks
    /\ Nothing \notin Sockets
    /\ MaxDeaths \in Nat

Ask == [pc : {"new", "answered", "unavailable"} \cup K!Unsettled,
        via : Sockets \cup {Nothing}, answer : Asks \cup {Nothing, Transport}]
Wire == [state : {"unused", "open", "ended", "closed"}, waiting : SUBSET Asks,
         out : Seq(Asks), back : Seq(Asks \cup {Transport}), shared : BOOLEAN]

LEMMA SocketTypes ==
    ASSUME K!SocketTypeOK
    PROVE  /\ ask \in [Asks -> Ask] /\ socket \in [Sockets -> Wire]
           /\ client \in Sockets \cup {Nothing} /\ dialling \in Sockets \cup {Nothing}
           /\ server \in [listening : BOOLEAN, file : BOOLEAN] /\ deaths \in 0..MaxDeaths
BY DEF K!SocketTypeOK, Ask, Wire

LEMMA SocketTypesNext ==
    ASSUME ask' \in [Asks -> Ask], socket' \in [Sockets -> Wire],
           client' \in Sockets \cup {Nothing}, dialling' \in Sockets \cup {Nothing},
           server' \in [listening : BOOLEAN, file : BOOLEAN], deaths' \in 0..MaxDeaths
    PROVE  K!SocketTypeOK'
BY DEF K!SocketTypeOK, Ask, Wire
LEMMA ClosedIsClean ==
    ASSUME K!SocketTypeOK, NEW k \in Sockets, socket' = K!Closed(k)
    PROVE  /\ socket' \in [Sockets -> Wire]
           /\ socket'[k].waiting = {} /\ socket'[k].out = <<>> /\ socket'[k].back = <<>>
           /\ socket'[k].shared = socket[k].shared
           /\ \A j \in Sockets : j # k => socket'[j] = socket[j]
<1> DEFINE clean == [state |-> "closed", waiting |-> {}, out |-> <<>>, back |-> <<>>,
                     shared |-> socket[k].shared]
<1>2. socket' = [socket EXCEPT ![k] = clean]
  BY DEF K!Closed
<1>3. clean \in Wire
  BY SocketTypes DEF Wire
<1> QED
  BY <1>2, <1>3, SocketTypes

(* The types of the socket's state, which no question disturbs however many *)
(* are under way: all it takes is that a question sent has a connection.   *)

SendersConnected ==
    \A a \in Asks : ask[a].pc \in {"issue", "sent"} => ask[a].via \in Sockets

SocketTypesInv == K!SocketTypeOK /\ SendersConnected

LEMMA InitSocket == ASSUME QuestionsWellFormed, K!Init PROVE SocketTypesInv
<1>1. server \in [listening : BOOLEAN, file : BOOLEAN]
  BY DEF K!Init
<1>2. socket \in [Sockets -> Wire]
  BY DEF K!Init, K!Unused, Wire
<1>3. ask \in [Asks -> Ask] /\ SendersConnected
  BY DEF K!Init, Ask, SendersConnected
<1> QED
  BY <1>1, <1>2, <1>3 DEF K!Init, K!SocketTypeOK, QuestionsWellFormed, SocketTypesInv, Ask, Wire

LEMMA QuestionMoves ==
    ASSUME SocketTypesInv, NEW a \in Asks, NEW pc \in {"connect", "sent", "unavailable"},
           pc = "sent" => ask[a].pc = "issue", ask' = [ask EXCEPT ![a].pc = pc]
    PROVE  ask' \in [Asks -> Ask] /\ SendersConnected'
<1>1. ask \in [Asks -> Ask]
  BY SocketTypes DEF SocketTypesInv
<1>2. ask'[a] = [ask[a] EXCEPT !.pc = pc]
  BY <1>1
<1>3. ask'[a] \in Ask /\ ask'[a].pc = pc /\ ask'[a].via = ask[a].via
  BY <1>1, <1>2 DEF Ask, K!Unsettled
<1>4. \A b \in Asks : b # a => ask'[b] = ask[b]
  BY <1>1
<1> QED
  BY <1>1, <1>3, <1>4 DEF SocketTypesInv, SendersConnected

(* Every question that waits for the connection gets it or fails with it,  *)
(* and a question that fails needs none.                                   *)
LEMMA QuestionsMove ==
    ASSUME SocketTypesInv, NEW moved \in SUBSET Asks, NEW f,
           ask' = [b \in Asks |-> IF b \in moved THEN f[b] ELSE ask[b]],
           \A b \in moved : f[b] \in Ask /\ (f[b].pc \in {"issue", "sent"} => f[b].via \in Sockets)
    PROVE  ask' \in [Asks -> Ask] /\ SendersConnected'
<1>1. ask \in [Asks -> Ask]
  BY SocketTypes DEF SocketTypesInv
<1>2. \A b \in Asks : ask'[b] = IF b \in moved THEN f[b] ELSE ask[b]
  OBVIOUS
<1> QED
  BY <1>1, <1>2 DEF SocketTypesInv, SendersConnected

LEMMA AskTypes ==
    ASSUME QuestionsWellFormed, SocketTypesInv, NEW a \in Asks,
           K!Check(a) \/ K!Send(a) \/ K!IssueFails(a) \/ K!Timeout(a)
    PROVE  SocketTypesInv'
<1>0. /\ ask \in [Asks -> Ask] /\ socket \in [Sockets -> Wire]
      /\ client \in Sockets \cup {Nothing} /\ dialling \in Sockets \cup {Nothing}
      /\ server \in [listening : BOOLEAN, file : BOOLEAN] /\ deaths \in 0..MaxDeaths
  BY SocketTypes DEF SocketTypesInv
<1>1. CASE K!Check(a)
  <2>1. ask' \in [Asks -> Ask] /\ SendersConnected'
    <3>1. CASE client # Nothing
      <4>1. ask' = [ask EXCEPT ![a].pc = "issue", ![a].via = client] /\ client \in Sockets
        BY <1>0, <1>1, <3>1 DEF K!Check
      <4>2. ask'[a] = [ask[a] EXCEPT !.pc = "issue", !.via = client]
        BY <1>0, <4>1
      <4>3. ask'[a] \in Ask /\ ask'[a].via = client
        <5>1. ask[a] \in Ask
          BY <1>0
        <5>2. client \in Sockets
          BY <4>1
        <5> QED
          BY <4>2, <5>1, <5>2 DEF Ask, K!Unsettled
      <4>4. \A b \in Asks : b # a => ask'[b] = ask[b]
        BY <1>0, <4>1
      <4> QED
        BY <1>0, <4>1, <4>3, <4>4 DEF SocketTypesInv, SendersConnected
    <3>2. CASE client = Nothing
      BY <1>1, <3>2, QuestionMoves DEF K!Check, K!Goto
    <3> QED
      BY <3>1, <3>2
  <2>2. dialling' \in Sockets \cup {Nothing}
    BY <1>0, <1>1 DEF K!Check
  <2> QED
    BY <1>0, <1>1, <2>1, <2>2, SocketTypesNext DEF K!Check, SocketTypesInv
<1>2. CASE K!Send(a)
  <2> DEFINE k == ask[a].via
  <2>1. ask' \in [Asks -> Ask] /\ SendersConnected'
    BY <1>2, QuestionMoves DEF K!Send, K!Goto
  <2>2. k \in Sockets
    BY <1>2 DEF K!Send, SocketTypesInv, SendersConnected
  <2> DEFINE both == socket[k].shared \/ socket[k].waiting # {}
  <2>3. socket' = socket \/ socket' = [socket EXCEPT ![k].waiting = @ \cup {a},
                                                     ![k].out = Append(@, a),
                                                     ![k].shared = @ \/ socket[k].waiting # {}]
    BY <1>2 DEF K!Send
  <2> HIDE DEF k
  <2>4. ASSUME socket' = [socket EXCEPT ![k].waiting = @ \cup {a}, ![k].out = Append(@, a),
                                        ![k].shared = @ \/ socket[k].waiting # {}]
        PROVE  socket' \in [Sockets -> Wire]
    <3>1. socket'[k] = [socket[k] EXCEPT !.waiting = socket[k].waiting \cup {a},
                                         !.out = Append(socket[k].out, a), !.shared = both]
      BY <1>0, <2>2, <2>4, Zenon
    <3>2. /\ socket[k].waiting \cup {a} \in SUBSET Asks /\ Append(socket[k].out, a) \in Seq(Asks)
          /\ both \in BOOLEAN
      BY <1>0, <2>2 DEF Wire
    <3> HIDE DEF both
    <3>3. [socket[k] EXCEPT !.waiting = socket[k].waiting \cup {a},
                            !.out = Append(socket[k].out, a), !.shared = both] \in Wire
      <4>1. socket[k] \in Wire
        BY <1>0, <2>2
      <4> QED
        BY <3>2, <4>1 DEF Wire
    <3> QED
      BY <1>0, <2>2, <2>4, <3>1, <3>3
  <2>5. socket' \in [Sockets -> Wire]
    BY <1>0, <2>3, <2>4
  <2> QED
    BY <1>0, <1>2, <2>1, <2>5, SocketTypesNext DEF K!Send, SocketTypesInv
<1>3. CASE K!IssueFails(a) \/ K!Timeout(a)
  <2>1. ask[a].pc \in {"issue", "sent"} /\ K!GiveUp(a)
    BY <1>3 DEF K!IssueFails, K!Timeout
  <2>2. ask' \in [Asks -> Ask] /\ SendersConnected'
    BY <2>1, QuestionMoves DEF K!GiveUp, K!Goto
  <2>3. socket' \in [Sockets -> Wire]
    BY <2>1, ClosedIsClean DEF K!GiveUp, SocketTypesInv, SendersConnected
  <2> QED
    BY <1>0, <2>1, <2>2, <2>3, SocketTypesNext DEF K!GiveUp, SocketTypesInv
<1> QED
  BY <1>1, <1>2, <1>3

LEMMA ConnectionTypes ==
    ASSUME QuestionsWellFormed, SocketTypesInv, K!Connected \/ K!ConnectFails
    PROVE  SocketTypesInv'
<1> DEFINE moved == {b \in Asks : ask[b].pc = "connect"}
           got == [b \in Asks |-> [ask[b] EXCEPT !.pc = "issue", !.via = dialling]]
           lost == [b \in Asks |-> [ask[b] EXCEPT !.pc = "unavailable"]]
<1>0. /\ ask \in [Asks -> Ask] /\ socket \in [Sockets -> Wire]
      /\ client \in Sockets \cup {Nothing} /\ dialling \in Sockets
      /\ server \in [listening : BOOLEAN, file : BOOLEAN] /\ deaths \in 0..MaxDeaths
  BY SocketTypes DEF SocketTypesInv, K!Connected, K!ConnectFails
<1>1. CASE K!Connected
  <2>1. ask' = [b \in Asks |-> IF b \in moved THEN got[b] ELSE ask[b]]
    BY <1>1 DEF K!Connected
  <2>2. \A b \in moved : got[b] \in Ask /\ got[b].via \in Sockets
    BY <1>0 DEF Ask, K!Unsettled
  <2> HIDE DEF moved, got
  <2>3. ask' \in [Asks -> Ask] /\ SendersConnected'
    <3>1. moved \in SUBSET Asks
      BY DEF moved
    <3> QED
      BY <2>1, <2>2, <3>1, QuestionsMove
  <2>4. socket' \in [Sockets -> Wire]
    <3>1. socket' = [socket EXCEPT ![dialling].state = "open"]
      BY <1>1 DEF K!Connected
    <3>2. socket'[dialling] = [socket[dialling] EXCEPT !.state = "open"]
      BY <1>0, <3>1
    <3>3. socket'[dialling] \in Wire
      BY <1>0, <3>2 DEF Wire
    <3> QED
      BY <1>0, <3>1, <3>3
  <2> QED
    BY <1>0, <1>1, <2>3, <2>4, SocketTypesNext DEF K!Connected, SocketTypesInv
<1>2. CASE K!ConnectFails
  <2>1. ask' = [b \in Asks |-> IF b \in moved THEN lost[b] ELSE ask[b]]
    BY <1>2 DEF K!ConnectFails
  <2>2. \A b \in moved : lost[b] \in Ask /\ lost[b].pc = "unavailable"
    BY <1>0 DEF Ask
  <2> HIDE DEF moved, lost
  <2>3. ask' \in [Asks -> Ask] /\ SendersConnected'
    <3>1. moved \in SUBSET Asks
      BY DEF moved
    <3> QED
      BY <2>1, <2>2, <3>1, QuestionsMove
  <2> QED
    BY <1>0, <1>2, <2>3, SocketTypesNext DEF K!ConnectFails, SocketTypesInv
<1> QED
  BY <1>1, <1>2

LEMMA DeliveryTypes ==
    ASSUME QuestionsWellFormed, SocketTypesInv, NEW k \in Sockets, NEW n, K!Deliver(k, n)
    PROVE  SocketTypesInv'
<1> DEFINE line == socket[k].back[1]
           rest == SubSeq(socket[k].back, n + 1, Len(socket[k].back))
           told == [b \in Asks |-> [ask[b] EXCEPT !.pc = "answered", !.answer = line]]
<1>0. /\ ask \in [Asks -> Ask] /\ socket \in [Sockets -> Wire]
      /\ client \in Sockets \cup {Nothing} /\ dialling \in Sockets \cup {Nothing}
      /\ server \in [listening : BOOLEAN, file : BOOLEAN] /\ deaths \in 0..MaxDeaths
  BY SocketTypes DEF SocketTypesInv
<1>1. socket[k].back \in Seq(Asks \cup {Transport}) /\ socket[k].waiting \in SUBSET Asks
  BY <1>0 DEF Wire
<1>2. n \in 1..Len(socket[k].back)
  BY DEF K!Deliver
<1>3. line \in Asks \cup {Transport} /\ rest \in Seq(Asks \cup {Transport})
  BY <1>1, <1>2
<1>4. /\ ask' = [b \in Asks |-> IF b \in socket[k].waiting THEN told[b] ELSE ask[b]]
      /\ socket' = [socket EXCEPT ![k].waiting = {}, ![k].back = rest]
  <2>1. socket[k].waiting \subseteq Asks
    BY <1>1
  <2> QED
    BY <2>1 DEF K!Deliver
<1> HIDE DEF line, rest
<1>5. \A b \in Asks : told[b] \in Ask /\ told[b].pc = "answered"
  BY <1>0, <1>3 DEF Ask
<1> HIDE DEF told
<1>6. ask' \in [Asks -> Ask] /\ SendersConnected'
  BY <1>1, <1>4, <1>5, QuestionsMove
<1>7. socket' \in [Sockets -> Wire]
  <2>1. socket'[k] = [socket[k] EXCEPT !.waiting = {}, !.back = rest]
    BY <1>0, <1>4, SMT
  <2>2. [socket[k] EXCEPT !.waiting = {}, !.back = rest] \in Wire
    <3>1. socket[k] \in Wire
      BY <1>0
    <3> QED
      BY <1>3, <3>1 DEF Wire
  <2> QED
    BY <1>0, <1>4, <2>1, <2>2
<1> QED
  BY <1>0, <1>6, <1>7, SocketTypesNext DEF K!Deliver, SocketTypesInv

LEMMA ReadingTypes ==
    ASSUME QuestionsWellFormed, SocketTypesInv, NEW k \in Sockets, NEW n, K!Read(k, n)
    PROVE  SocketTypesInv'
<1> DEFINE chunk == SubSeq(socket[k].out, 1, n)
           rest  == SubSeq(socket[k].out, n + 1, Len(socket[k].out))
<1>0. /\ ask \in [Asks -> Ask] /\ socket \in [Sockets -> Wire]
      /\ client \in Sockets \cup {Nothing} /\ dialling \in Sockets \cup {Nothing}
      /\ server \in [listening : BOOLEAN, file : BOOLEAN] /\ deaths \in 0..MaxDeaths
  BY SocketTypes DEF SocketTypesInv
<1>1. socket[k].out \in Seq(Asks) /\ socket[k].back \in Seq(Asks \cup {Transport})
  BY <1>0 DEF Wire
<1>2. n \in 1..Len(socket[k].out)
  BY DEF K!Read
<1>3. chunk \in Seq(Asks) /\ rest \in Seq(Asks)
  BY <1>1, <1>2
<1>4. \/ socket' = [socket EXCEPT ![k].state = "ended", ![k].out = <<>>,
                                  ![k].back = Append(@, Transport)]
      \/ socket' = [socket EXCEPT ![k].out = rest, ![k].back = @ \o chunk]
  BY DEF K!Read
<1> HIDE DEF chunk, rest
<1>5. /\ Append(socket[k].back, Transport) \in Seq(Asks \cup {Transport})
      /\ socket[k].back \o chunk \in Seq(Asks \cup {Transport})
  <2>1. chunk \in Seq(Asks \cup {Transport})
    BY <1>3
  <2> QED
    BY <1>1, <2>1
<1>6. socket[k] \in Wire
  BY <1>0
<1>7. ASSUME socket' = [socket EXCEPT ![k].state = "ended", ![k].out = <<>>,
                                      ![k].back = Append(@, Transport)]
      PROVE  socket' \in [Sockets -> Wire]
  <2> DEFINE back == Append(socket[k].back, Transport)
  <2>1. socket'[k] = [socket[k] EXCEPT !.state = "ended", !.out = <<>>, !.back = back]
    BY <1>0, <1>7, SMT
  <2>2. back \in Seq(Asks \cup {Transport}) /\ <<>> \in Seq(Asks)
    BY <1>5
  <2> HIDE DEF back
  <2>3. [socket[k] EXCEPT !.state = "ended", !.out = <<>>, !.back = back] \in Wire
    BY <1>6, <2>2 DEF Wire
  <2> QED
    BY <1>0, <1>7, <2>1, <2>3
<1>8. ASSUME socket' = [socket EXCEPT ![k].out = rest, ![k].back = @ \o chunk]
      PROVE  socket' \in [Sockets -> Wire]
  <2> DEFINE back == socket[k].back \o chunk
  <2>1. socket'[k] = [socket[k] EXCEPT !.out = rest, !.back = back]
    BY <1>0, <1>8, SMT
  <2>2. back \in Seq(Asks \cup {Transport})
    BY <1>5
  <2> HIDE DEF back
  <2>3. [socket[k] EXCEPT !.out = rest, !.back = back] \in Wire
    BY <1>3, <1>6, <2>2 DEF Wire
  <2> QED
    BY <1>0, <1>8, <2>1, <2>3
<1>9. socket' \in [Sockets -> Wire]
  BY <1>4, <1>7, <1>8
<1> QED
  BY <1>0, <1>9, SocketTypesNext DEF K!Read, SocketTypesInv, SendersConnected

(* What a death tears down is closed, and who waited there is told. *)
LEMMA DeathTypes ==
    ASSUME QuestionsWellFormed, SocketTypesInv, NEW reset \in BOOLEAN, K!Die(reset)
    PROVE  SocketTypesInv'
<1> DEFINE torn == {k \in Sockets : socket[k].state = "open"}
           hit  == {a \in Asks : reset /\ \E k \in torn : a \in socket[k].waiting}
           lost == [b \in Asks |-> [ask[b] EXCEPT !.pc = "unavailable"]]
<1>0. /\ ask \in [Asks -> Ask] /\ socket \in [Sockets -> Wire]
      /\ client \in Sockets \cup {Nothing} /\ dialling \in Sockets \cup {Nothing}
      /\ server \in [listening : BOOLEAN, file : BOOLEAN]
      /\ deaths \in 0..MaxDeaths /\ MaxDeaths \in Nat
  BY SocketTypes DEF SocketTypesInv, QuestionsWellFormed
<1>1. ask' \in [Asks -> Ask] /\ SendersConnected'
  <2>1. ask' = [b \in Asks |-> IF b \in hit THEN lost[b] ELSE ask[b]] /\ hit \in SUBSET Asks
    BY DEF K!Die
  <2>2. \A b \in Asks : lost[b] \in Ask /\ lost[b].pc = "unavailable"
    BY <1>0 DEF Ask
  <2> HIDE DEF hit, lost
  <2> QED
    BY <2>1, <2>2, QuestionsMove
<1>2. socket' \in [Sockets -> Wire]
  <2>1. socket' = [k \in Sockets |-> IF k \in torn THEN K!Closed(k)[k] ELSE socket[k]]
    BY DEF K!Die
  <2>2. ASSUME NEW k \in Sockets PROVE K!Closed(k)[k] \in Wire
    <3> DEFINE clean == [state |-> "closed", waiting |-> {}, out |-> <<>>, back |-> <<>>,
                         shared |-> socket[k].shared]
    <3>1. K!Closed(k)[k] = clean
      BY <1>0 DEF K!Closed
    <3>2. clean \in Wire
      BY <1>0 DEF Wire
    <3> QED
      BY <3>1, <3>2
  <2> HIDE DEF torn
  <2> QED
    BY <1>0, <2>1, <2>2
<1>3. server' \in [listening : BOOLEAN, file : BOOLEAN] /\ deaths' \in 0..MaxDeaths
  <2>1. /\ server' = [server EXCEPT !.listening = FALSE]
        /\ deaths < MaxDeaths /\ deaths' = deaths + 1
    BY DEF K!Die
  <2>2. deaths' \in 0..MaxDeaths
    BY <1>0, <2>1
  <2> QED
    BY <1>0, <2>1, <2>2
<1>4. client' \in Sockets \cup {Nothing} /\ dialling' = dialling
  BY <1>0 DEF K!Die
<1> QED
  BY <1>0, <1>1, <1>2, <1>3, <1>4, SocketTypesNext DEF SocketTypesInv

LEMMA ServerTypes ==
    ASSUME QuestionsWellFormed, SocketTypesInv, K!Serve \/ K!Close PROVE SocketTypesInv'
<1>0. /\ ask \in [Asks -> Ask] /\ socket \in [Sockets -> Wire]
      /\ client \in Sockets \cup {Nothing} /\ dialling \in Sockets \cup {Nothing}
      /\ deaths \in 0..MaxDeaths /\ MaxDeaths \in Nat
  BY SocketTypes DEF SocketTypesInv, QuestionsWellFormed
<1>1. /\ ask' = ask /\ socket' = socket /\ client' = client /\ dialling' = dialling
      /\ \E x \in BOOLEAN : server' = [listening |-> x, file |-> x]
      /\ deaths' = deaths \/ (deaths < MaxDeaths /\ deaths' = deaths + 1)
  BY DEF K!Serve, K!Close
<1>2. server' \in [listening : BOOLEAN, file : BOOLEAN]
  <2>1. PICK x \in BOOLEAN : server' = [listening |-> x, file |-> x]
    BY <1>1
  <2> QED
    BY <2>1, Zenon
<1>3. deaths' \in 0..MaxDeaths
  BY <1>0, <1>1
<1> QED
  BY <1>0, <1>1, <1>2, <1>3, SocketTypesNext DEF SocketTypesInv, SendersConnected

LEMMA SocketTypesInvariant == ASSUME QuestionsWellFormed PROVE K!Spec => []SocketTypesInv
<1>1. K!Init => SocketTypesInv
  BY InitSocket
<1>2. SocketTypesInv /\ [K!Next]_(K!vars) => SocketTypesInv'
  <2> SUFFICES ASSUME SocketTypesInv, [K!Next]_(K!vars) PROVE SocketTypesInv'
    OBVIOUS
  <2>1. CASE \E a \in Asks : K!Check(a) \/ K!Send(a) \/ K!IssueFails(a) \/ K!Timeout(a)
    BY <2>1, AskTypes
  <2>2. CASE K!Connected \/ K!ConnectFails
    BY <2>2, ConnectionTypes
  <2>3. ASSUME NEW k \in Sockets, K!PeerEnded(k) PROVE SocketTypesInv'
    <3>1. socket' \in [Sockets -> Wire]
      BY <2>3, ClosedIsClean DEF K!PeerEnded, SocketTypesInv
    <3> QED
      BY <2>3, <3>1, SocketTypes, SocketTypesNext DEF K!PeerEnded, SocketTypesInv, SendersConnected
  <2>4. ASSUME NEW k \in Sockets, NEW n, K!Deliver(k, n) \/ K!Read(k, n) PROVE SocketTypesInv'
    BY <2>4, DeliveryTypes, ReadingTypes
  <2>5. CASE K!Serve \/ K!Close
    BY <2>5, ServerTypes
  <2>6. CASE \E reset \in BOOLEAN : K!Die(reset)
    BY <2>6, DeathTypes
  <2>7. CASE UNCHANGED K!vars
    BY <2>7 DEF K!vars, SocketTypesInv, K!SocketTypeOK, SendersConnected
  <2>8. CASE K!Next
    <3>1. CASE \E k \in Sockets : K!PeerEnded(k)
      BY <2>3, <3>1
    <3>2. CASE \E k \in Sockets : \E n : K!Deliver(k, n) \/ K!Read(k, n)
      BY <2>4, <3>2
    <3> QED
      BY <2>1, <2>2, <2>5, <2>6, <2>8, <3>1, <3>2 DEF K!Next
  <2> QED
    BY <2>7, <2>8
<1> QED
  BY <1>1, <1>2, PTL DEF K!Spec

(* Every variable of the socket and of its client keeps its type, whatever *)
(* questions overlap.                                                      *)
THEOREM SocketTyped ==
    ASSUME QuestionsWellFormed PROVE K!Spec => []K!SocketTypeOK
<1>1. SocketTypesInv => K!SocketTypeOK
  BY DEF SocketTypesInv
<1> QED
  BY <1>1, SocketTypesInvariant, PTL

-----------------------------------------------------------------------------
(* Answers.  A line is a question that was sent over the connection it is   *)
(* on, or an error; and where no two have waited at once, there is at most *)
(* one line, and the one who waits asked it.                               *)

Past(a) == ask[a].pc \in {"sent", "answered", "unavailable"}

Travels(k, line) == line # Transport => Past(line) /\ ask[line].via = k

TravelsOn(k, line) ==
    line # Transport => ask'[line].pc \in {"sent", "answered", "unavailable"} /\ ask'[line].via = k

Carried(k) ==
    /\ \A a \in socket[k].waiting : Past(a) /\ ask[a].via = k
    /\ \A i \in 1..Len(socket[k].out) : Travels(k, socket[k].out[i])
    /\ \A i \in 1..Len(socket[k].back) : Travels(k, socket[k].back[i])

Idle(k) == socket[k].waiting = {} /\ socket[k].out = <<>> /\ socket[k].back = <<>>

Alone(k) ==
    \/ Idle(k)
    \/ \E a \in Asks : /\ socket[k].waiting = {a}
                       /\ \/ socket[k].out = <<a>> /\ socket[k].back = <<>>
                          \/ socket[k].out = <<>> /\ socket[k].back \in {<<a>>, <<Transport>>}

(* What a question was told. *)
Told(a) ==
    LET b == ask[a].answer
    IN  ask[a].pc = "answered" =>
          /\ ask[a].via \in Sockets
          /\ b # Transport => /\ b \in Asks /\ Past(b) /\ ask[b].via = ask[a].via
                             /\ (b = a \/ socket[ask[a].via].shared)

AnswersInv ==
    /\ \A k \in Sockets : Carried(k) /\ (socket[k].shared \/ Alone(k))
    /\ \A a \in Asks : Told(a)

(* A question that was sent keeps its connection, and a shared connection  *)
(* stays one.                                                              *)
PastStays == \A a \in Asks : Past(a) => Past(a)' /\ ask'[a].via = ask[a].via
SharedStays == \A k \in Sockets : socket[k].shared => socket'[k].shared

LEMMA CarriedStays ==
    ASSUME SocketTypesInv, NEW k \in Sockets, Carried(k), PastStays,
           socket'[k].waiting = socket[k].waiting, socket'[k].out = socket[k].out,
           socket'[k].back = socket[k].back
    PROVE  Carried(k)'
<1>1. /\ socket[k].waiting \subseteq Asks /\ socket[k].out \in Seq(Asks)
      /\ socket[k].back \in Seq(Asks \cup {Transport})
  BY SocketTypes DEF SocketTypesInv, Wire
<1>2. \A i \in 1..Len(socket[k].out) : socket[k].out[i] \in Asks
  BY <1>1
<1>3. \A i \in 1..Len(socket[k].back) : socket[k].back[i] \in Asks \cup {Transport}
  BY <1>1
<1> QED
  BY <1>1, <1>2, <1>3 DEF Carried, Travels, PastStays

LEMMA AloneStays ==
    ASSUME NEW k \in Sockets, socket[k].shared \/ Alone(k), SharedStays,
           socket'[k].waiting = socket[k].waiting, socket'[k].out = socket[k].out,
           socket'[k].back = socket[k].back
    PROVE  socket'[k].shared \/ Alone(k)'
BY DEF Alone, Idle, SharedStays

LEMMA EmptyIsFine ==
    ASSUME NEW k \in Sockets, Idle(k)' PROVE Carried(k)' /\ Alone(k)'
<1>1. 1..Len(<<>>) = {}
  OBVIOUS
<1> QED
  BY <1>1 DEF Idle, Carried, Alone

LEMMA ToldStays ==
    ASSUME PastStays, SharedStays, NEW a \in Asks, Told(a),
           ask'[a].pc = "answered" => ask'[a] = ask[a]
    PROVE  Told(a)'
<1> SUFFICES ASSUME ask'[a].pc = "answered" PROVE Told(a)'
  BY DEF Told
<1>1. ask'[a] = ask[a] /\ ask[a].pc = "answered" /\ ask[a].via \in Sockets
  BY DEF Told
<1>2. ASSUME ask[a].answer # Transport
      PROVE  /\ ask[a].answer \in Asks /\ Past(ask[a].answer)
             /\ ask[ask[a].answer].via = ask[a].via
             /\ (ask[a].answer = a \/ socket[ask[a].via].shared)
  BY <1>1, <1>2 DEF Told
<1> QED
  BY <1>1, <1>2 DEF Told, PastStays, SharedStays

(* A step that answers nobody and empties connections or lets them be. *)
LEMMA QuietKeeps ==
    ASSUME SocketTypesInv, AnswersInv, PastStays, SharedStays,
           \A a \in Asks : ask'[a].pc = "answered" => ask'[a] = ask[a],
           \A k \in Sockets : \/ Idle(k)'
                              \/ /\ socket'[k].waiting = socket[k].waiting
                                 /\ socket'[k].out = socket[k].out
                                 /\ socket'[k].back = socket[k].back
    PROVE  AnswersInv'
<1>1. ASSUME NEW k \in Sockets PROVE Carried(k)' /\ (socket'[k].shared \/ Alone(k)')
  BY CarriedStays, AloneStays, EmptyIsFine DEF AnswersInv
<1>2. ASSUME NEW a \in Asks PROVE Told(a)'
  BY ToldStays DEF AnswersInv
<1> QED
  BY <1>1, <1>2 DEF AnswersInv

LEMMA InitAnswers == ASSUME K!Init PROVE AnswersInv
<1>1. \A a \in Asks : ask[a].pc = "new"
  BY DEF K!Init
<1>2. \A k \in Sockets : Idle(k)
  BY DEF K!Init, K!Unused, Idle
<1>3. 1..Len(<<>>) = {}
  OBVIOUS
<1>4. \A k \in Sockets : Carried(k) /\ Alone(k)
  BY <1>2, <1>3 DEF Idle, Carried, Alone
<1> QED
  BY <1>1, <1>4 DEF AnswersInv, Told

LEMMA CheckAnswers ==
    ASSUME SocketTypesInv, AnswersInv, NEW a \in Asks, K!Check(a) PROVE AnswersInv'
<1>1. ask \in [Asks -> Ask] /\ ask[a].pc = "new" /\ socket' = socket
  BY SocketTypes DEF SocketTypesInv, K!Check
<1>2. \/ ask' = [ask EXCEPT ![a].pc = "issue", ![a].via = client]
      \/ ask' = [ask EXCEPT ![a].pc = "connect"]
  BY DEF K!Check, K!Goto
<1>3. ask'[a].pc \in {"issue", "connect"} /\ \A b \in Asks : b # a => ask'[b] = ask[b]
  <2>1. CASE ask' = [ask EXCEPT ![a].pc = "issue", ![a].via = client]
    <3>1. ask'[a] = [ask[a] EXCEPT !.pc = "issue", !.via = client]
      BY <1>1, <2>1
    <3> QED
      BY <1>1, <2>1, <3>1 DEF Ask
  <2>2. CASE ask' = [ask EXCEPT ![a].pc = "connect"]
    <3>1. ask'[a] = [ask[a] EXCEPT !.pc = "connect"]
      BY <1>1, <2>2
    <3> QED
      BY <1>1, <2>2, <3>1 DEF Ask
  <2> QED
    BY <1>2, <2>1, <2>2
<1>4. PastStays /\ SharedStays
  BY <1>1, <1>3 DEF PastStays, SharedStays, Past
<1> QED
  BY <1>1, <1>3, <1>4, QuietKeeps

LEMMA ConnectionAnswers ==
    ASSUME SocketTypesInv, AnswersInv, K!Connected \/ K!ConnectFails PROVE AnswersInv'
<1>1. /\ ask \in [Asks -> Ask] /\ socket \in [Sockets -> Wire] /\ dialling \in Sockets
  BY SocketTypes DEF SocketTypesInv, K!Connected, K!ConnectFails
<1>2. \A b \in Asks : IF ask[b].pc = "connect" THEN ask'[b].pc \in {"issue", "unavailable"}
                                               ELSE ask'[b] = ask[b]
  <2>1. \A b \in Asks : /\ [ask[b] EXCEPT !.pc = "issue", !.via = dialling].pc = "issue"
                        /\ [ask[b] EXCEPT !.pc = "unavailable"].pc = "unavailable"
    BY <1>1 DEF Ask
  <2>2. CASE K!Connected
    <3>1. ask' = [a \in Asks |-> IF ask[a].pc = "connect"
                                 THEN [ask[a] EXCEPT !.pc = "issue", !.via = dialling]
                                 ELSE ask[a]]
      BY <2>2 DEF K!Connected
    <3> QED
      BY <2>1, <3>1
  <2>3. CASE K!ConnectFails
    <3>1. ask' = [a \in Asks |-> IF ask[a].pc = "connect"
                                 THEN [ask[a] EXCEPT !.pc = "unavailable"] ELSE ask[a]]
      BY <2>3 DEF K!ConnectFails
    <3> QED
      BY <2>1, <3>1
  <2> QED
    BY <2>2, <2>3
<1>3. \A k \in Sockets :
         /\ socket'[k].waiting = socket[k].waiting /\ socket'[k].out = socket[k].out
         /\ socket'[k].back = socket[k].back /\ socket'[k].shared = socket[k].shared
  <2>1. CASE K!Connected
    <3>1. socket' = [socket EXCEPT ![dialling].state = "open"]
      BY <2>1 DEF K!Connected
    <3>2. socket'[dialling] = [socket[dialling] EXCEPT !.state = "open"]
      BY <1>1, <3>1
    <3>3. socket[dialling] \in Wire
      BY <1>1
    <3>4. /\ socket'[dialling].waiting = socket[dialling].waiting
          /\ socket'[dialling].out = socket[dialling].out
          /\ socket'[dialling].back = socket[dialling].back
          /\ socket'[dialling].shared = socket[dialling].shared
      BY <3>2, <3>3 DEF Wire
    <3> QED
      BY <1>1, <3>1, <3>4
  <2> QED
    BY <2>1 DEF K!ConnectFails
<1>4. PastStays /\ SharedStays
  BY <1>2, <1>3 DEF PastStays, SharedStays, Past
<1> QED
  BY <1>2, <1>3, <1>4, QuietKeeps

(* A question sent where another waits makes the connection shared. *)
LEMMA SendAnswers ==
    ASSUME SocketTypesInv, AnswersInv, NEW a \in Asks, K!Send(a) PROVE AnswersInv'
<1>1. /\ ask \in [Asks -> Ask] /\ socket \in [Sockets -> Wire]
      /\ ask[a].pc = "issue" /\ ask[a].via \in Sockets
  BY SocketTypes DEF SocketTypesInv, SendersConnected, K!Send
<1>6. PICK k \in Sockets : k = ask[a].via
  BY <1>1
<1>2. /\ ask'[a].pc = "sent" /\ ask'[a].via = k
      /\ \A b \in Asks : b # a => ask'[b] = ask[b]
  <2>1. ask' = [ask EXCEPT ![a].pc = "sent"]
    BY DEF K!Send, K!Goto
  <2>2. ask'[a] = [ask[a] EXCEPT !.pc = "sent"]
    BY <1>1, <2>1
  <2> QED
    BY <1>1, <1>6, <2>1, <2>2 DEF Ask
<1>3. PastStays /\ \A b \in Asks : ask'[b].pc = "answered" => ask'[b] = ask[b]
  BY <1>1, <1>2 DEF PastStays, Past
<1>4. CASE socket' = socket
  BY <1>3, <1>4, QuietKeeps DEF SharedStays
<1>5. CASE socket' # socket
  <2>1. socket' = [socket EXCEPT ![k].waiting = @ \cup {a}, ![k].out = Append(@, a),
                                 ![k].shared = @ \/ socket[k].waiting # {}]
    BY <1>5, <1>6 DEF K!Send
  <2>2. /\ socket'[k].waiting = socket[k].waiting \cup {a}
        /\ socket'[k].out = Append(socket[k].out, a) /\ socket'[k].back = socket[k].back
        /\ socket'[k].shared = (socket[k].shared \/ socket[k].waiting # {})
        /\ \A j \in Sockets : j # k => socket'[j] = socket[j]
    <3>1. socket'[k] = [socket[k] EXCEPT !.waiting = socket[k].waiting \cup {a},
                                         !.out = Append(socket[k].out, a),
                                         !.shared = socket[k].shared \/ socket[k].waiting # {}]
      BY <1>1, <2>1, Zenon
    <3>2. socket[k] \in Wire
      BY <1>1
    <3> QED
      BY <1>1, <2>1, <3>1, <3>2 DEF Wire
  <2>3. SharedStays
    BY <2>2 DEF SharedStays
  <2>4. Carried(k)'
    <3>1. Carried(k) /\ socket[k].waiting \subseteq Asks /\ socket[k].out \in Seq(Asks)
          /\ socket[k].back \in Seq(Asks \cup {Transport})
      BY <1>1 DEF AnswersInv, Wire
    <3>2. Past(a)' /\ ask'[a].via = k
      BY <1>2 DEF Past
    <3>3. \A b \in Asks : Past(b) /\ ask[b].via = k => Past(b)' /\ ask'[b].via = k
      BY <1>3 DEF PastStays
    <3>4. \A b \in Asks \cup {Transport} : Travels(k, b) => TravelsOn(k, b)
      BY <3>3 DEF Travels, TravelsOn, Past
    <3>5. \A i \in 1..Len(socket'[k].out) : TravelsOn(k, socket'[k].out[i])
      <4>1. \A i \in 1..Len(socket'[k].out) :
               \/ socket'[k].out[i] = a
               \/ i \in 1..Len(socket[k].out) /\ socket'[k].out[i] = socket[k].out[i]
                  /\ socket[k].out[i] \in Asks
        BY <2>2, <3>1
      <4>2. TravelsOn(k, a)
        BY <3>2 DEF TravelsOn, Past
      <4> QED
        BY <3>1, <3>4, <4>1, <4>2 DEF Carried
    <3>6. \A i \in 1..Len(socket'[k].back) : TravelsOn(k, socket'[k].back[i])
      <4>1. \A i \in 1..Len(socket[k].back) : socket[k].back[i] \in Asks \cup {Transport}
        BY <3>1
      <4> QED
        BY <2>2, <3>1, <3>4, <4>1 DEF Carried
    <3>7. \A b \in socket'[k].waiting : Past(b)' /\ ask'[b].via = k
      BY <2>2, <3>1, <3>2, <3>3 DEF Carried
    <3> QED
      BY <3>5, <3>6, <3>7 DEF Carried, Travels, TravelsOn, Past
  <2>5. socket'[k].shared \/ Alone(k)'
    <3>1. CASE ~socket[k].shared /\ socket[k].waiting = {}
      <4>1. socket[k].out = <<>> /\ socket[k].back = <<>>
        BY <1>1, <3>1 DEF AnswersInv, Alone, Idle
      <4>2. Append(<<>>, a) = <<a>>
        OBVIOUS
      <4>3. socket'[k].waiting = {a} /\ socket'[k].out = <<a>> /\ socket'[k].back = <<>>
        BY <2>2, <3>1, <4>1, <4>2
      <4> QED
        BY <4>3 DEF Alone
    <3> QED
      BY <2>2, <3>1
  <2>6. ASSUME NEW j \in Sockets, j # k PROVE Carried(j)' /\ (socket'[j].shared \/ Alone(j)')
    BY <1>3, <2>2, <2>3, <2>6, CarriedStays, AloneStays DEF AnswersInv
  <2>7. \A b \in Asks : Told(b)'
    BY <1>3, <2>3, ToldStays DEF AnswersInv
  <2> QED
    BY <2>4, <2>5, <2>6, <2>7 DEF AnswersInv
<1> QED
  BY <1>4, <1>5

LEMMA GiveUpAnswers ==
    ASSUME SocketTypesInv, AnswersInv, NEW a \in Asks, ask[a].pc \in {"issue", "sent"},
           K!GiveUp(a)
    PROVE  AnswersInv'
<1>1. ask \in [Asks -> Ask] /\ ask[a].via \in Sockets
  BY SocketTypes DEF SocketTypesInv, SendersConnected
<1>2. /\ ask'[a].pc = "unavailable" /\ ask'[a].via = ask[a].via
      /\ \A b \in Asks : b # a => ask'[b] = ask[b]
  <2>1. ask' = [ask EXCEPT ![a].pc = "unavailable"]
    BY DEF K!GiveUp, K!Goto
  <2>2. ask'[a] = [ask[a] EXCEPT !.pc = "unavailable"]
    BY <1>1, <2>1
  <2> QED
    BY <1>1, <2>1, <2>2 DEF Ask
<1>5. PICK k \in Sockets : k = ask[a].via
  BY <1>1
<1>3. /\ Idle(k)' /\ SharedStays
      /\ \A j \in Sockets : j # k => socket'[j] = socket[j]
  BY <1>5, ClosedIsClean DEF K!GiveUp, SocketTypesInv, Idle, SharedStays
<1>4. PastStays
  BY <1>2 DEF PastStays, Past
<1> QED
  BY <1>1, <1>2, <1>3, <1>4, QuietKeeps

LEMMA PeerEndedAnswers ==
    ASSUME SocketTypesInv, AnswersInv, NEW k \in Sockets, K!PeerEnded(k) PROVE AnswersInv'
<1>1. /\ Idle(k)' /\ SharedStays /\ ask' = ask
      /\ \A j \in Sockets : j # k => socket'[j] = socket[j]
  BY ClosedIsClean DEF K!PeerEnded, SocketTypesInv, Idle, SharedStays
<1> QED
  BY <1>1, QuietKeeps DEF PastStays, Past

(* Who waits is told the first line, and the lines after it stay or go.    *)
LEMMA DeliverAnswers ==
    ASSUME SocketTypesInv, AnswersInv, NEW k \in Sockets, NEW n, K!Deliver(k, n)
    PROVE  AnswersInv'
<1> DEFINE back == socket[k].back
           line == back[1]
           rest == SubSeq(back, n + 1, Len(back))
<1>1. /\ ask \in [Asks -> Ask] /\ socket \in [Sockets -> Wire]
      /\ back \in Seq(Asks \cup {Transport}) /\ socket[k].waiting \subseteq Asks
      /\ n \in 1..Len(back) /\ socket[k].out \in Seq(Asks)
  BY SocketTypes DEF SocketTypesInv, K!Deliver, Wire
<1>2. line \in Asks \cup {Transport} /\ 1 \in 1..Len(back) /\ back # <<>>
  BY <1>1
<1>3. \A i \in 1..Len(rest) : n + i \in 1..Len(back) /\ rest[i] = back[n + i]
                              /\ rest[i] \in Asks \cup {Transport}
  BY <1>1
<1>4. ask' = [b \in Asks |-> IF b \in socket[k].waiting
                             THEN [ask[b] EXCEPT !.pc = "answered", !.answer = line]
                             ELSE ask[b]]
  BY DEF K!Deliver
<1>5. socket' = [socket EXCEPT ![k].waiting = {}, ![k].back = rest]
  BY DEF K!Deliver
<1>6. Carried(k) /\ Travels(k, line) /\ (socket[k].shared \/ Alone(k))
  BY <1>2 DEF AnswersInv, Carried
<1>7. ~socket[k].shared => /\ \E a \in Asks : socket[k].waiting = {a} /\ back \in {<<a>>, <<Transport>>}
                           /\ socket[k].out = <<>>
  BY <1>2, <1>6 DEF Alone, Idle
<1> HIDE DEF line, rest
<1>8. /\ \A b \in socket[k].waiting : /\ ask'[b].pc = "answered" /\ ask'[b].answer = line
                                      /\ ask'[b].via = ask[b].via
      /\ \A b \in Asks : b \notin socket[k].waiting => ask'[b] = ask[b]
  <2>1. \A b \in Asks : /\ [ask[b] EXCEPT !.pc = "answered", !.answer = line].pc = "answered"
                        /\ [ask[b] EXCEPT !.pc = "answered", !.answer = line].answer = line
                        /\ [ask[b] EXCEPT !.pc = "answered", !.answer = line].via = ask[b].via
    BY <1>1 DEF Ask
  <2> QED
    BY <1>1, <1>4, <2>1
<1>9. /\ socket'[k].waiting = {} /\ socket'[k].out = socket[k].out /\ socket'[k].back = rest
      /\ socket'[k].shared = socket[k].shared
      /\ \A j \in Sockets : j # k => socket'[j] = socket[j]
  <2>1. socket'[k] = [socket[k] EXCEPT !.waiting = {}, !.back = rest]
    BY <1>1, <1>5, SMT
  <2>2. socket[k] \in Wire
    BY <1>1
  <2> QED
    BY <1>1, <1>5, <2>1, <2>2 DEF Wire
<1>10. PastStays /\ SharedStays
  BY <1>1, <1>8, <1>9 DEF PastStays, SharedStays, Past
<1>11. Carried(k)'
  <2>1. \A b \in Asks \cup {Transport} : Travels(k, b) => TravelsOn(k, b)
    BY <1>10 DEF Travels, TravelsOn, Past, PastStays
  <2>2. \A i \in 1..Len(rest) : TravelsOn(k, rest[i])
    BY <1>3, <1>6, <2>1 DEF Carried
  <2>3. \A i \in 1..Len(socket[k].out) : socket[k].out[i] \in Asks
    BY <1>1
  <2>4. \A i \in 1..Len(socket[k].out) : TravelsOn(k, socket[k].out[i])
    BY <1>6, <2>1, <2>3 DEF Carried
  <2> QED
    BY <1>9, <2>2, <2>4 DEF Carried, Travels, TravelsOn, Past
<1>12. socket'[k].shared \/ Alone(k)'
  <2>1. CASE ~socket[k].shared
    <3>1. PICK x \in Asks \cup {Transport} : back = <<x>>
      BY <1>7, <2>1
    <3>2. Len(back) = 1 /\ n = 1
      BY <1>1, <3>1
    <3>3. \A s \in Seq(Asks \cup {Transport}) : Len(s) = 1 => SubSeq(s, 2, 1) = <<>>
      OBVIOUS
    <3>4. rest = <<>>
      BY <1>1, <3>2, <3>3 DEF rest
    <3>5. Idle(k)'
      BY <1>7, <1>9, <2>1, <3>4 DEF Idle
    <3> QED
      BY <3>5, EmptyIsFine
  <2> QED
    BY <1>9, <2>1
<1>13. ASSUME NEW j \in Sockets, j # k PROVE Carried(j)' /\ (socket'[j].shared \/ Alone(j)')
  BY <1>9, <1>10, <1>13, CarriedStays, AloneStays DEF AnswersInv
<1>14. ASSUME NEW b \in Asks PROVE Told(b)'
  <2>1. CASE b \notin socket[k].waiting
    BY <1>8, <1>10, <2>1, ToldStays DEF AnswersInv
  <2>2. CASE b \in socket[k].waiting
    <3>1. ask'[b].answer = line /\ ask'[b].via = k
      BY <1>6, <1>8, <2>2 DEF Carried
    <3>2. ASSUME line # Transport
          PROVE  line \in Asks /\ TravelsOn(k, line)
      BY <1>2, <1>6, <1>10, <3>2 DEF Travels, TravelsOn, Past, PastStays
    <3>3. ASSUME line # Transport, ~socket[k].shared PROVE line = b
      <4>1. PICK a \in Asks : socket[k].waiting = {a} /\ back \in {<<a>>, <<Transport>>}
        BY <1>7, <3>3
      <4>2. a = b /\ \A x : <<x>>[1] = x
        BY <2>2, <4>1
      <4> QED
        BY <3>3, <4>1, <4>2 DEF line
    <3> QED
      BY <1>8, <1>9, <2>2, <3>1, <3>2, <3>3 DEF Told, TravelsOn, Past
  <2> QED
    BY <2>1, <2>2
<1> QED
  BY <1>11, <1>12, <1>13, <1>14 DEF AnswersInv

(* Requests read are moved over to the answers, or refused together. *)
LEMMA ReadAnswers ==
    ASSUME SocketTypesInv, AnswersInv, NEW k \in Sockets, NEW n, K!Read(k, n)
    PROVE  AnswersInv'
<1> DEFINE out == socket[k].out
           back == socket[k].back
           chunk == SubSeq(out, 1, n)
           rest  == SubSeq(out, n + 1, Len(out))
<1>1. /\ socket \in [Sockets -> Wire] /\ ask' = ask
      /\ out \in Seq(Asks) /\ back \in Seq(Asks \cup {Transport}) /\ n \in 1..Len(out)
  BY SocketTypes DEF SocketTypesInv, K!Read, Wire
<1>2. /\ chunk \in Seq(Asks) /\ \A i \in 1..Len(chunk) : i \in 1..Len(out) /\ chunk[i] = out[i]
      /\ rest \in Seq(Asks) /\ \A i \in 1..Len(rest) : n + i \in 1..Len(out) /\ rest[i] = out[n + i]
  BY <1>1
<1>3. Carried(k) /\ (socket[k].shared \/ Alone(k))
  BY DEF AnswersInv
<1>4. ~socket[k].shared => \E a \in Asks : /\ socket[k].waiting = {a}
                                           /\ out = <<a>> /\ back = <<>>
  <2>1. out # <<>>
    BY <1>1
  <2> QED
    BY <1>3, <2>1 DEF Alone, Idle
<1>5. ~socket[k].shared => chunk = out /\ rest = <<>>
  <2>1. \A s \in Seq(Asks) : Len(s) = 1 => SubSeq(s, 1, 1) = s /\ SubSeq(s, 2, 1) = <<>>
    OBVIOUS
  <2>2. ASSUME ~socket[k].shared PROVE Len(out) = 1 /\ n = 1
    <3>1. PICK a \in Asks : out = <<a>>
      BY <1>4, <2>2
    <3>2. Len(out) = 1
      BY <3>1
    <3> QED
      BY <1>1, <3>2
  <2>3. ASSUME ~socket[k].shared PROVE SubSeq(out, 1, n) = out /\ SubSeq(out, n + 1, Len(out)) = <<>>
    <3>1. n = 1 /\ Len(out) = 1 /\ n + 1 = 2 /\ out \in Seq(Asks)
      BY <1>1, <2>2, <2>3
    <3>2. SubSeq(out, 1, 1) = out /\ SubSeq(out, 2, 1) = <<>>
      BY <2>1, <3>1
    <3> QED
      BY <3>1, <3>2
  <2> QED
    BY <2>3
<1>6. \/ socket' = [socket EXCEPT ![k].state = "ended", ![k].out = <<>>,
                                  ![k].back = Append(@, Transport)]
      \/ socket' = [socket EXCEPT ![k].out = rest, ![k].back = @ \o chunk]
  BY DEF K!Read
<1> HIDE DEF chunk, rest
<1>7. /\ socket'[k].waiting = socket[k].waiting /\ socket'[k].shared = socket[k].shared
      /\ \/ socket'[k].out = <<>> /\ socket'[k].back = Append(back, Transport)
         \/ socket'[k].out = rest /\ socket'[k].back = back \o chunk
      /\ \A j \in Sockets : j # k => socket'[j] = socket[j]
  <2>1. socket[k] \in Wire
    BY <1>1
  <2>2. CASE socket' = [socket EXCEPT ![k].state = "ended", ![k].out = <<>>,
                                      ![k].back = Append(@, Transport)]
    <3>1. socket'[k] = [socket[k] EXCEPT !.state = "ended", !.out = <<>>,
                                         !.back = Append(back, Transport)]
      BY <1>1, <2>2, SMT
    <3> QED
      BY <1>1, <2>1, <2>2, <3>1 DEF Wire
  <2>3. CASE socket' = [socket EXCEPT ![k].out = rest, ![k].back = @ \o chunk]
    <3>1. socket'[k] = [socket[k] EXCEPT !.out = rest, !.back = back \o chunk]
      BY <1>1, <2>3, SMT
    <3> QED
      BY <1>1, <2>1, <2>3, <3>1 DEF Wire
  <2> QED
    BY <1>6, <2>2, <2>3
<1>8. PastStays /\ SharedStays
  BY <1>1, <1>7 DEF PastStays, SharedStays, Past
<1>9. Carried(k)'
  <2>1. \A x : Travels(k, x) => Travels(k, x)'
    BY <1>1 DEF Travels, Past
  <2>2. Travels(k, Transport)
    BY DEF Travels
  <2>3. \A i \in 1..Len(socket'[k].out) : Travels(k, socket'[k].out[i])
    <3>1. 1..Len(<<>>) = {}
      OBVIOUS
    <3>2. \A i \in 1..Len(rest) : Travels(k, rest[i])
      BY <1>2, <1>3 DEF Carried
    <3> QED
      BY <1>7, <3>1, <3>2
  <2>4. \A i \in 1..Len(socket'[k].back) : Travels(k, socket'[k].back[i])
    <3>1. CASE socket'[k].back = Append(back, Transport)
      <4>1. \A i \in 1..Len(Append(back, Transport)) :
               \/ Append(back, Transport)[i] = Transport
               \/ i \in 1..Len(back) /\ Append(back, Transport)[i] = back[i]
        BY <1>1
      <4> QED
        BY <1>3, <2>2, <3>1, <4>1 DEF Carried
    <3>2. CASE socket'[k].back = back \o chunk
      <4>1. \A i \in 1..Len(back \o chunk) :
               \/ i \in 1..Len(back) /\ (back \o chunk)[i] = back[i]
               \/ \E j \in 1..Len(chunk) : (back \o chunk)[i] = chunk[j]
        <5>1. Len(back) \in Nat /\ Len(chunk) \in Nat /\ Len(back \o chunk) = Len(back) + Len(chunk)
          BY <1>1, <1>2
        <5>2. ASSUME NEW i \in 1..Len(back \o chunk), i \notin 1..Len(back)
              PROVE  i - Len(back) \in 1..Len(chunk) /\ (back \o chunk)[i] = chunk[i - Len(back)]
          BY <1>1, <1>2, <5>1, <5>2
        <5>3. ASSUME NEW i \in 1..Len(back \o chunk), i \in 1..Len(back)
              PROVE  (back \o chunk)[i] = back[i]
          BY <1>1, <1>2, <5>1, <5>3
        <5> QED
          BY <5>2, <5>3
      <4> QED
        BY <1>2, <1>3, <3>2, <4>1 DEF Carried
    <3> QED
      BY <1>7, <3>1, <3>2
  <2>5. \A b \in socket'[k].waiting : Past(b)' /\ ask'[b].via = k
    BY <1>1, <1>3, <1>7 DEF Carried, Past
  <2> QED
    BY <2>1, <2>3, <2>4, <2>5 DEF Carried
<1>10. socket'[k].shared \/ Alone(k)'
  <2>1. CASE ~socket[k].shared
    <3>1. PICK a \in Asks : socket[k].waiting = {a} /\ out = <<a>> /\ back = <<>>
      BY <1>4, <2>1
    <3>2. Append(<<>>, Transport) = <<Transport>> /\ <<>> \o <<a>> = <<a>>
      OBVIOUS
    <3>3. /\ socket'[k].waiting = {a} /\ socket'[k].out = <<>>
          /\ socket'[k].back \in {<<a>>, <<Transport>>}
      BY <1>5, <1>7, <2>1, <3>1, <3>2
    <3> QED
      BY <3>3 DEF Alone
  <2> QED
    BY <1>7, <2>1
<1>11. ASSUME NEW j \in Sockets, j # k PROVE Carried(j)' /\ (socket'[j].shared \/ Alone(j)')
  BY <1>7, <1>8, <1>11, CarriedStays, AloneStays DEF AnswersInv
<1>12. ASSUME NEW b \in Asks PROVE Told(b)'
  BY <1>1, <1>8, ToldStays DEF AnswersInv
<1> QED
  BY <1>9, <1>10, <1>11, <1>12 DEF AnswersInv

(* Nobody is answered by a death, and what it tears down is empty. *)
LEMMA DieAnswers ==
    ASSUME SocketTypesInv, AnswersInv, NEW reset \in BOOLEAN, K!Die(reset) PROVE AnswersInv'
<1> DEFINE torn == {k \in Sockets : socket[k].state = "open"}
           hit  == {a \in Asks : reset /\ \E k \in torn : a \in socket[k].waiting}
<1>1. ask \in [Asks -> Ask] /\ socket \in [Sockets -> Wire]
  BY SocketTypes DEF SocketTypesInv
<1>2. \A b \in Asks : IF b \in hit THEN ask'[b].pc = "unavailable" /\ ask'[b].via = ask[b].via
                                   ELSE ask'[b] = ask[b]
  <2>1. ask' = [a \in Asks |->
                  IF a \in hit THEN [ask[a] EXCEPT !.pc = "unavailable"] ELSE ask[a]]
    BY DEF K!Die
  <2> HIDE DEF hit
  <2>2. \A b \in Asks : /\ [ask[b] EXCEPT !.pc = "unavailable"].pc = "unavailable"
                        /\ [ask[b] EXCEPT !.pc = "unavailable"].via = ask[b].via
    BY <1>1 DEF Ask
  <2> QED
    BY <2>1, <2>2
<1>3. ASSUME NEW k \in Sockets
      PROVE  /\ Idle(k)' \/ socket'[k] = socket[k]
             /\ socket'[k].shared = socket[k].shared
  <2>1. socket' = [j \in Sockets |-> IF j \in torn THEN K!Closed(j)[j] ELSE socket[j]]
    BY DEF K!Die
  <2> DEFINE clean == [state |-> "closed", waiting |-> {}, out |-> <<>>, back |-> <<>>,
                       shared |-> socket[k].shared]
  <2>2. K!Closed(k)[k] = clean
    BY <1>1 DEF K!Closed
  <2>3. socket'[k] = clean \/ socket'[k] = socket[k]
    BY <2>1, <2>2
  <2> QED
    BY <2>3 DEF Idle
<1>4. PastStays /\ SharedStays
  BY <1>2, <1>3 DEF PastStays, SharedStays, Past
<1> QED
  BY <1>2, <1>3, <1>4, QuietKeeps

LEMMA AnswersStep ==
    ASSUME SocketTypesInv, AnswersInv, [K!Next]_(K!vars) PROVE AnswersInv'
<1>1. ASSUME NEW a \in Asks, K!Check(a) \/ K!Send(a) \/ K!IssueFails(a) \/ K!Timeout(a)
      PROVE  AnswersInv'
  BY <1>1, CheckAnswers, SendAnswers, GiveUpAnswers DEF K!IssueFails, K!Timeout
<1>2. CASE K!Connected \/ K!ConnectFails
  BY <1>2, ConnectionAnswers
<1>3. ASSUME NEW k \in Sockets, K!PeerEnded(k) PROVE AnswersInv'
  BY <1>3, PeerEndedAnswers
<1>4. ASSUME NEW k \in Sockets, NEW n, K!Deliver(k, n) \/ K!Read(k, n) PROVE AnswersInv'
  BY <1>4, DeliverAnswers, ReadAnswers
<1>5. ASSUME NEW reset \in BOOLEAN, K!Die(reset) PROVE AnswersInv'
  BY <1>5, DieAnswers
<1>6. ASSUME UNCHANGED <<ask, socket>> PROVE AnswersInv'
  BY <1>6, QuietKeeps DEF PastStays, SharedStays, Past
<1>7. CASE K!Serve \/ K!Close \/ UNCHANGED K!vars
  BY <1>6, <1>7 DEF K!Serve, K!Close, K!vars
<1>8. CASE \E a \in Asks : K!Check(a) \/ K!Send(a) \/ K!IssueFails(a) \/ K!Timeout(a)
  BY <1>1, <1>8
<1>9. CASE \E k \in Sockets : K!PeerEnded(k)
  BY <1>3, <1>9
<1>10. CASE \E k \in Sockets : \E n : K!Deliver(k, n) \/ K!Read(k, n)
  BY <1>4, <1>10
<1>11. CASE \E reset \in BOOLEAN : K!Die(reset)
  BY <1>5, <1>11
<1> QED
  BY <1>2, <1>7, <1>8, <1>9, <1>10, <1>11 DEF K!Next

(* evaluate over the local socket, with any number of calls under way: an  *)
(* answer is for a question asked on the same connection, and for one's    *)
(* own unless two have waited on it at once, whatever dies, times out or   *)
(* is delivered late.                                                      *)
THEOREM AnswersAreOnesOwn ==
    ASSUME QuestionsWellFormed PROVE K!Spec => []K!AnswersStayOnTheirConnection
<1>1. ASSUME AnswersInv PROVE K!AnswersStayOnTheirConnection
  <2> SUFFICES ASSUME NEW a \in Asks
               PROVE  /\ ask[a].pc = "answered" /\ ask[a].answer # Transport =>
                            /\ ask[ask[a].answer].via = ask[a].via
                            /\ (ask[a].answer = a \/ socket[ask[a].via].shared)
                      /\ K!Settled(a) /\ ~K!FabricDenies(a)
                            => Mode # "v2_enforce" \/ a \in Allowed \/ socket[ask[a].via].shared
    BY DEF K!AnswersStayOnTheirConnection
  <2>1. Told(a)
    BY <1>1 DEF AnswersInv
  <2>2. ASSUME ask[a].pc = "answered", ask[a].answer # Transport
        PROVE  /\ ask[ask[a].answer].via = ask[a].via
               /\ (ask[a].answer = a \/ socket[ask[a].via].shared)
    BY <2>1, <2>2 DEF Told
  <2>3. ASSUME K!Settled(a), ~K!FabricDenies(a), Mode = "v2_enforce"
        PROVE  ask[a].pc = "answered" /\ ask[a].answer \in Allowed
    BY <2>3 DEF K!Settled, K!FabricDenies
  <2> QED
    BY <2>2, <2>3 DEF QuestionsWellFormed
<1>2. K!Init => AnswersInv
  BY InitAnswers
<1>3. SocketTypesInv /\ AnswersInv /\ [K!Next]_(K!vars) => AnswersInv'
  BY AnswersStep
<1>4. K!Spec => []SocketTypesInv
  BY SocketTypesInvariant
<1> QED
  BY <1>1, <1>2, <1>3, <1>4, PTL DEF K!Spec

-----------------------------------------------------------------------------
(***************************************************************************)
(* The policies that decide beside it (Policy): only a bundle that was     *)
(* committed as an active one and parses comes into force, no tenant is    *)
(* left without a policy, and what an evaluation answers is the verdict of *)
(* the source it began with.                                               *)
(***************************************************************************)
CONSTANTS Bundles, TenantOf, Stored, Seeded, Parses, File, BuiltIn, Permitting, Servers,
          Operators, Operations, Calls, None, MaxAttempts, MaxRequests, MaxFaults,
          MaxPolicyRestarts
VARIABLES created, active, activated, inForce, request, call, requests, faults, policyRestarts

Y == INSTANCE Policy WITH
        Requests <- Operations, restarts <- policyRestarts, MaxRestarts <- MaxPolicyRestarts

(* The model's names are told apart.                                       *)
NamesDistinct ==
    /\ Seeded \in Bundles /\ Parses \subseteq Bundles /\ None \notin Bundles
    /\ None \notin {"permit", "forbid"} /\ Operators \subseteq Servers

-----------------------------------------------------------------------------
(* What an operator's request carries. *)
Request == [pc : {"idle", "lookup", "see", "deactivate", "write", "commit", "reload"},
            server : Operators \cup {None}, bundle : Bundles \cup {None},
            kind : {None, "create", "promote", "activate"},
            seen : SUBSET Bundles, off : SUBSET Bundles]
Call == [pc : {"idle", "run"}, server : Servers \cup {None},
         source : Y!Sources \cup {None}, attempt : Nat,
         answer : {None, "permit", "forbid", "rejected"}]

RequestsAreRecords == request \in [Operations -> Request]

(* A request past the parser holds a bundle that parses.                   *)
PastTheParser ==
    \A r \in Operations : request[r].pc \notin {"idle", "lookup"} => request[r].bundle \in Parses

(* One that takes rows out takes its own tenant's.                         *)
OwnTenantOnly ==
    \A r \in Operations : \A b \in request[r].seen \cup request[r].off :
        TenantOf[b] = TenantOf[request[r].bundle]

(* One that is about to reload has committed.                              *)
ReloadsCommitted ==
    \A r \in Operations : request[r].pc = "reload" => request[r].bundle \in activated

(* What is active was activated, and parses.                               *)
ActiveParses ==
    /\ active \subseteq activated /\ activated \subseteq Bundles
    /\ activated \subseteq Parses \cup {Seeded}

RequestInv ==
    /\ RequestsAreRecords /\ PastTheParser /\ OwnTenantOnly /\ ReloadsCommitted
    /\ ActiveParses

InForceInv == inForce \in [Servers -> Bundles \cup {None}] /\ Y!OnlyActivatedRule

CallInv == call \in [Calls -> Call] /\ Y!AnswersFollow

PolicyInv == RequestInv /\ Y!TenantsKeepOne /\ InForceInv /\ CallInv

-----------------------------------------------------------------------------
(* At the start the seeded bundle is the active one and in force. *)
LEMMA InitPolicy == ASSUME NamesDistinct, Y!Init PROVE PolicyInv
<1>1. RequestInv
  BY DEF NamesDistinct, Y!Init, RequestInv, RequestsAreRecords, Request, Y!Idle, PastTheParser,
         OwnTenantOnly, ReloadsCommitted, ActiveParses
<1>2. Y!TenantsKeepOne /\ InForceInv
  BY DEF NamesDistinct, Y!Init, Y!TenantsKeepOne, InForceInv, Y!OnlyActivatedRule
<1>3. CallInv
  BY DEF NamesDistinct, Y!Init, CallInv, Call, Y!Quiet, Y!AnswersFollow
<1> QED
  BY <1>1, <1>2, <1>3 DEF PolicyInv

(* A request that only moves on keeps what requests know ... *)
LEMMA MovingOn ==
    ASSUME NamesDistinct, RequestInv, NEW r \in Operations, NEW new \in Request,
           request' = [request EXCEPT ![r] = new],
           UNCHANGED <<active, activated>>,
           new.pc \notin {"idle", "lookup"} => new.bundle \in Parses,
           \A b \in new.seen \cup new.off : TenantOf[b] = TenantOf[new.bundle],
           new.pc = "reload" => new.bundle \in activated
    PROVE  RequestInv'
<1>1. \A q \in Operations : request'[q] = IF q = r THEN new ELSE request[q]
  BY DEF RequestInv, RequestsAreRecords
<1>2. RequestsAreRecords'
  BY DEF RequestInv, RequestsAreRecords
<1>3. PastTheParser' /\ OwnTenantOnly' /\ ReloadsCommitted'
  BY <1>1 DEF RequestInv, PastTheParser, OwnTenantOnly, ReloadsCommitted
<1>4. ActiveParses'
  BY DEF RequestInv, ActiveParses
<1> QED
  BY <1>2, <1>3, <1>4 DEF RequestInv

(* ... and so does one that ends. *)
LEMMA Ending ==
    ASSUME NamesDistinct, RequestInv, NEW r \in Operations, Y!End(r), UNCHANGED <<active, activated>>
    PROVE  RequestInv'
<1>1. Y!Idle \in Request /\ Y!Idle.pc = "idle" /\ Y!Idle.seen = {} /\ Y!Idle.off = {}
  BY DEF Y!Idle, Request
<1> QED
  BY <1>1, MovingOn DEF Y!End

(* What a committed activation makes visible keeps what is known of the    *)
(* rows, and leaves every tenant with an active one.                       *)
LEMMA CommitKeepsRows ==
    ASSUME NamesDistinct, RequestInv, Y!TenantsKeepOne, NEW r \in Operations,
           request[r].pc = "commit", Y!Committed(r)
    PROVE  /\ ActiveParses' /\ Y!TenantsKeepOne' /\ activated \subseteq activated'
           /\ request[r].kind # "create" => request[r].bundle \in activated'
<1> DEFINE b == request[r].bundle
<1>1. request[r] \in Request /\ b \in Parses
  BY DEF RequestInv, RequestsAreRecords, PastTheParser
<1>2. activated' = activated \cup active'
  BY DEF Y!Committed
<1>3. CASE request[r].kind = "create"
  BY <1>2, <1>3 DEF Y!Committed, RequestInv, ActiveParses, Y!TenantsKeepOne
<1>4. CASE request[r].kind # "create"
  <2>1. active' = (active \ request[r].off) \cup {b}
    BY <1>4 DEF Y!Committed
  <2>2. \A a \in request[r].off : TenantOf[a] = TenantOf[b]
    BY DEF RequestInv, OwnTenantOnly
  <2>3. Y!TenantsKeepOne'
    BY <1>2, <2>1, <2>2 DEF Y!TenantsKeepOne
  <2>4. b \in Bundles
    BY <1>1 DEF NamesDistinct
  <2>5. ActiveParses'
    BY <1>1, <1>2, <2>1, <2>4 DEF RequestInv, ActiveParses
  <2> QED
    BY <1>2, <2>1, <2>3, <2>5
<1> QED
  BY <1>3, <1>4

(* With nothing said of active rows or sources, the rest stands as it was. *)
LEMMA RowsUntouched ==
    ASSUME PolicyInv, UNCHANGED <<active, activated>>
    PROVE  Y!TenantsKeepOne'
BY DEF PolicyInv, Y!TenantsKeepOne

LEMMA InForceUntouched ==
    ASSUME PolicyInv, activated \subseteq activated', UNCHANGED inForce
    PROVE  InForceInv'
BY DEF PolicyInv, InForceInv, Y!OnlyActivatedRule

LEMMA CallUntouched == ASSUME PolicyInv, UNCHANGED call PROVE CallInv'
BY DEF PolicyInv, CallInv, Y!AnswersFollow

LEMMA RequestUntouched ==
    ASSUME PolicyInv, UNCHANGED <<request, active, activated>> PROVE RequestInv'
BY DEF PolicyInv, RequestInv, RequestsAreRecords, PastTheParser, OwnTenantOnly, ReloadsCommitted,
       ActiveParses

-----------------------------------------------------------------------------
(* A request that is new carries a bundle the parser takes, or is looked   *)
(* up first.                                                               *)
LEMMA BeginKeeps ==
    ASSUME NamesDistinct, PolicyInv, NEW r \in Operations, NEW s \in Operators, NEW b \in Bundles,
           NEW kind \in {"create", "promote"}, Y!Create(r, s, b, kind) \/ Y!Activate(r, s, b)
    PROVE  PolicyInv'
<1>1. request[r] = Y!Idle /\ UNCHANGED <<active, activated, inForce, call>>
  BY DEF Y!Create, Y!Activate
<1> DEFINE To(pc, k) ==
      [Y!Idle EXCEPT !.pc = pc, !.server = s, !.bundle = b, !.kind = k]
<1>2. ASSUME NEW pc, NEW k, Y!Begin(r, pc, s, b, k)
      PROVE  request' = [request EXCEPT ![r] = To(pc, k)]
  <2>1. request' = [request EXCEPT ![r] =
          [request[r] EXCEPT !.pc = pc, !.server = s, !.bundle = b, !.kind = k]]
    BY <1>2 DEF Y!Begin, PolicyInv, RequestInv, RequestsAreRecords
  <2> QED
    BY <1>1, <2>1
<1>3. CASE Y!Create(r, s, b, kind)
  <2> DEFINE pc == IF kind = "promote" THEN "see" ELSE "write"
  <2>1. To(pc, kind) \in Request /\ b \in Parses /\ request' = [request EXCEPT ![r] = To(pc, kind)]
    BY <1>2, <1>3 DEF Y!Create, Request, Y!Valid, Y!Idle
  <2> HIDE DEF To
  <2>2. To(pc, kind).bundle = b /\ To(pc, kind).seen = {} /\ To(pc, kind).off = {}
        /\ To(pc, kind).pc # "reload"
    BY DEF To, Y!Idle
  <2>3. RequestInv'
    BY <1>1, <2>1, <2>2, MovingOn DEF PolicyInv
  <2> QED
    BY <1>1, <2>3, RowsUntouched, InForceUntouched, CallUntouched DEF PolicyInv
<1>4. CASE Y!Activate(r, s, b)
  <2>1. To("lookup", "activate") \in Request
        /\ request' = [request EXCEPT ![r] = To("lookup", "activate")]
    BY <1>2, <1>4 DEF Y!Activate, Request, Y!Idle
  <2> HIDE DEF To
  <2>2. To("lookup", "activate").pc = "lookup" /\ To("lookup", "activate").seen = {}
        /\ To("lookup", "activate").off = {}
    BY DEF To, Y!Idle
  <2>3. RequestInv'
    BY <1>1, <2>1, <2>2, MovingOn DEF PolicyInv
  <2> QED
    BY <1>1, <2>3, RowsUntouched, InForceUntouched, CallUntouched DEF PolicyInv
<1> QED
  BY <1>3, <1>4

(* Looking up, and the statements of the transaction. *)
LEMMA StatementKeeps ==
    ASSUME NamesDistinct, PolicyInv, NEW r \in Operations,
           Y!LookUp(r) \/ Y!See(r) \/ Y!Deactivate(r) \/ Y!Write(r)
    PROVE  PolicyInv'
<1>1. UNCHANGED <<active, activated, inForce, call>>
  BY DEF Y!LookUp, Y!See, Y!Deactivate, Y!Write
<1>2. request[r] \in Request /\ request \in [Operations -> Request]
  BY DEF PolicyInv, RequestInv, RequestsAreRecords
<1> DEFINE own == {b \in active : TenantOf[b] = TenantOf[request[r].bundle]}
<1>3. \A b \in request[r].seen \cup request[r].off : TenantOf[b] = TenantOf[request[r].bundle]
  BY DEF PolicyInv, RequestInv, OwnTenantOnly
<1>4. active \subseteq Bundles
  BY DEF PolicyInv, RequestInv, ActiveParses
<1>5. ASSUME NEW pc \in {"see", "deactivate", "write", "commit"},
             NEW seen \in SUBSET Bundles, NEW off \in SUBSET Bundles,
             request' = [request EXCEPT ![r].pc = pc, ![r].seen = seen, ![r].off = off],
             request[r].bundle \in Parses,
             \A b \in seen \cup off : TenantOf[b] = TenantOf[request[r].bundle]
      PROVE  PolicyInv'
  <2> DEFINE new == [request[r] EXCEPT !.pc = pc, !.seen = seen, !.off = off]
  <2>1. new \in Request /\ request' = [request EXCEPT ![r] = new]
    BY <1>2, <1>5 DEF Request
  <2>2. new.pc = pc /\ new.bundle = request[r].bundle /\ new.seen = seen /\ new.off = off
        /\ new.pc # "reload"
    BY <1>2 DEF Request
  <2> HIDE DEF new
  <2>3. RequestInv'
    <3>1. \A b \in new.seen \cup new.off : TenantOf[b] = TenantOf[new.bundle]
      BY <1>5, <2>2
    <3>2. new.bundle \in Parses
      BY <1>5, <2>2
    <3> QED
      BY <1>1, <2>1, <2>2, <3>1, <3>2, MovingOn DEF PolicyInv
  <2> QED
    BY <1>1, <2>3, RowsUntouched, InForceUntouched, CallUntouched DEF PolicyInv
<1>6. CASE Y!LookUp(r)
  <2>1. CASE Y!End(r)
    BY <1>1, <2>1, Ending, RowsUntouched, InForceUntouched, CallUntouched DEF PolicyInv
  <2>2. CASE Y!Valid(request[r].bundle) /\ Y!Goto(r, "see")
    <3>1. request' = [request EXCEPT ![r].pc = "see", ![r].seen = request[r].seen,
                                     ![r].off = request[r].off]
      BY <1>2, <2>2 DEF Y!Goto, Request
    <3> QED
      BY <1>2, <1>3, <1>5, <2>2, <3>1 DEF Y!Valid, Request
  <2> QED
    BY <1>6, <2>1, <2>2 DEF Y!LookUp
<1>7. CASE Y!See(r)
  <2>1. request' = [request EXCEPT ![r].pc = "deactivate", ![r].seen = own,
                                   ![r].off = request[r].off]
    BY <1>2, <1>7 DEF Y!See, Request
  <2>2. request[r].bundle \in Parses
    BY <1>7 DEF Y!See, PolicyInv, RequestInv, PastTheParser
  <2>3. request[r].off \in SUBSET Bundles /\ own \in SUBSET Bundles
    BY <1>2, <1>4 DEF Request
  <2>4. \A b \in own \cup request[r].off : TenantOf[b] = TenantOf[request[r].bundle]
    BY <1>3
  <2> QED
    BY <1>5, <2>1, <2>2, <2>3, <2>4
<1>8. CASE Y!Deactivate(r)
  <2> DEFINE took == request[r].seen \cap active
  <2>1. request' = [request EXCEPT ![r].pc = "write", ![r].seen = {}, ![r].off = took]
    BY <1>8 DEF Y!Deactivate
  <2>2. request[r].bundle \in Parses
    BY <1>8 DEF Y!Deactivate, PolicyInv, RequestInv, PastTheParser
  <2>3. took \in SUBSET Bundles /\ {} \in SUBSET Bundles
    BY <1>4
  <2>4. \A b \in {} \cup took : TenantOf[b] = TenantOf[request[r].bundle]
    BY <1>3
  <2> QED
    BY <1>5, <2>1, <2>2, <2>3, <2>4
<1>9. CASE Y!Write(r)
  <2>1. request' = [request EXCEPT ![r].pc = "commit", ![r].seen = request[r].seen,
                                   ![r].off = request[r].off]
    BY <1>2, <1>9 DEF Y!Write, Y!Goto, Request
  <2>2. request[r].bundle \in Parses
    BY <1>9 DEF Y!Write, PolicyInv, RequestInv, PastTheParser
  <2> QED
    BY <1>2, <1>3, <1>5, <2>1, <2>2 DEF Request
<1> QED
  BY <1>6, <1>7, <1>8, <1>9

(* A commit makes its bundle active in one step with what it takes out. *)
LEMMA CommitKeeps ==
    ASSUME NamesDistinct, PolicyInv, NEW r \in Operations, Y!Commit(r)
    PROVE  PolicyInv'
<1>1. request[r].pc = "commit" /\ Y!Committed(r) /\ UNCHANGED <<inForce, call>>
  BY DEF Y!Commit
<1>2. /\ ActiveParses' /\ Y!TenantsKeepOne' /\ activated \subseteq activated'
      /\ request[r].kind # "create" => request[r].bundle \in activated'
  BY <1>1, CommitKeepsRows DEF PolicyInv
<1>3. request[r] \in Request /\ request \in [Operations -> Request] /\ request[r].bundle \in Parses
  BY <1>1 DEF PolicyInv, RequestInv, RequestsAreRecords, PastTheParser
<1>4. PICK new \in Request :
        /\ request' = [request EXCEPT ![r] = new]
        /\ new.bundle \in {request[r].bundle, None}
        /\ new.pc = "reload" => /\ request[r].kind # "create"
                                /\ new.bundle = request[r].bundle
        /\ new.pc \in {"idle", "reload"}
        /\ new.seen \subseteq request[r].seen /\ new.off = {}
        /\ new.seen # {} => new.bundle = request[r].bundle
  <2>1. CASE request[r].kind = "create"
    <3>1. request' = [request EXCEPT ![r] = Y!Idle]
      BY <2>1 DEF Y!Commit, Y!End
    <3>2. /\ Y!Idle \in Request /\ Y!Idle.bundle = None /\ Y!Idle.pc = "idle"
          /\ Y!Idle.seen = {} /\ Y!Idle.off = {}
      BY DEF Y!Idle, Request
    <3> QED
      BY <3>1, <3>2
  <2>2. CASE request[r].kind # "create"
    <3> DEFINE new == [request[r] EXCEPT !.pc = "reload", !.off = {}]
    <3>1. request' = [request EXCEPT ![r] = new]
      BY <1>3, <2>2 DEF Y!Commit
    <3>2. /\ new \in Request /\ new.bundle = request[r].bundle /\ new.pc = "reload"
          /\ new.seen = request[r].seen /\ new.off = {}
      BY <1>3 DEF Request
    <3> HIDE DEF new
    <3> QED
      BY <2>2, <3>1, <3>2
  <2> QED
    BY <2>1, <2>2
<1>5. \A q \in Operations : request'[q] = IF q = r THEN new ELSE request[q]
  BY <1>3, <1>4
<1>6. RequestsAreRecords'
  BY <1>3, <1>4 DEF RequestsAreRecords
<1>7. PastTheParser'
  BY <1>3, <1>4, <1>5 DEF PolicyInv, RequestInv, PastTheParser
<1>8. OwnTenantOnly'
  BY <1>4, <1>5 DEF PolicyInv, RequestInv, OwnTenantOnly
<1>9. ReloadsCommitted'
  BY <1>2, <1>4, <1>5 DEF PolicyInv, RequestInv, ReloadsCommitted
<1> QED
  BY <1>1, <1>2, <1>6, <1>7, <1>8, <1>9, InForceUntouched, CallUntouched
     DEF PolicyInv, RequestInv

(* The process that committed takes the source it committed. *)
LEMMA ReloadKeeps ==
    ASSUME NamesDistinct, PolicyInv, NEW r \in Operations, Y!Reload(r)
    PROVE  PolicyInv'
<1>1. UNCHANGED <<active, activated, call>> /\ Y!End(r) /\ request[r].pc = "reload"
  BY DEF Y!Reload
<1>2. RequestInv'
  BY <1>1, Ending DEF PolicyInv
<1>3. request[r].bundle \in activated /\ request[r].bundle \in Parses
  BY <1>1 DEF PolicyInv, RequestInv, ReloadsCommitted, PastTheParser
<1>4. InForceInv'
  BY <1>1, <1>3 DEF NamesDistinct, Y!Reload, PolicyInv, InForceInv, Y!OnlyActivatedRule
<1> QED
  BY <1>1, <1>2, <1>4, RowsUntouched, CallUntouched DEF PolicyInv

(* A failing statement leaves all as it was, or all of it was committed. *)
LEMMA FailKeeps ==
    ASSUME NamesDistinct, PolicyInv, NEW r \in Operations, Y!Fail(r)
    PROVE  PolicyInv'
<1>1. Y!End(r) /\ UNCHANGED <<inForce, call>>
  BY DEF Y!Fail
<1>2. CASE Y!Rollback(r)
  <2>1. UNCHANGED <<active, activated>>
    BY <1>2 DEF Y!Rollback
  <2> QED
    BY <1>1, <2>1, Ending, RowsUntouched, InForceUntouched, CallUntouched DEF PolicyInv
<1>3. CASE request[r].pc = "commit" /\ Y!Committed(r)
  <2>1. ActiveParses' /\ Y!TenantsKeepOne' /\ activated \subseteq activated'
    BY <1>3, CommitKeepsRows DEF PolicyInv
  <2>2. \A q \in Operations : request'[q] = IF q = r THEN Y!Idle ELSE request[q]
    BY <1>1 DEF Y!End, PolicyInv, RequestInv, RequestsAreRecords
  <2>3. Y!Idle \in Request /\ Y!Idle.pc = "idle" /\ Y!Idle.seen = {} /\ Y!Idle.off = {}
    BY DEF Y!Idle, Request
  <2>4. RequestsAreRecords'
    BY <1>1, <2>3 DEF Y!End, PolicyInv, RequestInv, RequestsAreRecords
  <2>5. PastTheParser' /\ OwnTenantOnly' /\ ReloadsCommitted'
    BY <2>1, <2>2, <2>3 DEF PolicyInv, RequestInv, PastTheParser, OwnTenantOnly, ReloadsCommitted
  <2> QED
    BY <1>1, <2>1, <2>4, <2>5, InForceUntouched, CallUntouched DEF PolicyInv, RequestInv
<1> QED
  BY <1>2, <1>3 DEF Y!Fail

(* A process that starts takes an active bundle or none. *)
LEMMA RestartKeeps ==
    ASSUME NamesDistinct, PolicyInv, NEW s \in Servers, Y!Restart(s)
    PROVE  PolicyInv'
<1>1. UNCHANGED <<active, activated>>
  BY DEF Y!Restart
<1>2. Y!Idle \in Request /\ Y!Idle.pc = "idle" /\ Y!Idle.seen = {} /\ Y!Idle.off = {}
  BY DEF Y!Idle, Request
<1>3. \A r \in Operations : request'[r] = IF request[r].server = s THEN Y!Idle ELSE request[r]
  BY DEF Y!Restart
<1>4. RequestsAreRecords'
  BY <1>2 DEF Y!Restart, PolicyInv, RequestInv, RequestsAreRecords
<1>5. PastTheParser' /\ OwnTenantOnly' /\ ReloadsCommitted'
  BY <1>1, <1>2, <1>3 DEF PolicyInv, RequestInv, PastTheParser, OwnTenantOnly, ReloadsCommitted
<1>6. ActiveParses'
  BY <1>1 DEF PolicyInv, RequestInv, ActiveParses
<1>7. PICK loaded \in {None} \cup Y!Newest : inForce' = [inForce EXCEPT ![s] = loaded]
  BY DEF Y!Restart
<1>8. loaded # None => loaded \in Bundles /\ loaded \in activated /\ loaded \in Parses \cup {Seeded}
  BY DEF Y!Newest, PolicyInv, RequestInv, ActiveParses
<1>9. InForceInv'
  BY <1>1, <1>7, <1>8 DEF PolicyInv, InForceInv, Y!OnlyActivatedRule
<1>10. CallInv'
  <2>1. \A c \in Calls : call'[c] = IF call[c].server = s THEN Y!Quiet ELSE call[c]
    BY DEF Y!Restart
  <2>2. Y!Quiet \in Call /\ Y!Quiet.answer = None
    BY DEF Y!Quiet, Call
  <2>3. call' \in [Calls -> Call]
    BY <2>2 DEF Y!Restart, PolicyInv, CallInv
  <2> QED
    BY <2>1, <2>2, <2>3 DEF NamesDistinct, PolicyInv, CallInv, Y!AnswersFollow
<1> QED
  BY <1>1, <1>4, <1>5, <1>6, <1>9, <1>10, RowsUntouched DEF PolicyInv, RequestInv

-----------------------------------------------------------------------------
(* Nothing the program prints is taken for the verdict it did not give. *)
LEMMA DecidedFollows ==
    ASSUME NEW source, NEW o \in Y!Outputs(source), Y!Decided(o) # None
    PROVE  Y!Decided(o) = Y!Verdict(source)
BY DEF Y!Outputs, Y!Decided

LEMMA VerdictIsOne == ASSUME NEW source PROVE Y!Verdict(source) \in {"permit", "forbid"}
BY DEF Y!Verdict

(* An evaluation begins with one source, and keeps it. *)
LEMMA EvaluateKeeps ==
    ASSUME NamesDistinct, PolicyInv, NEW c \in Calls, NEW s \in Servers, Y!Evaluate(c, s)
    PROVE  PolicyInv'
<1> DEFINE source == IF inForce[s] = None THEN File ELSE inForce[s]
<1>1. UNCHANGED <<active, activated, inForce, request>>
  BY DEF Y!Evaluate
<1>2. source \in Y!Sources
  BY DEF PolicyInv, InForceInv, Y!Sources
<1>3. PICK new \in Call :
        /\ call' = [call EXCEPT ![c] = new]
        /\ new.answer \in {"permit", "forbid"} => new.answer = Y!Verdict(new.source)
  <2>1. CASE source \in BuiltIn
    <3> DEFINE new == [pc |-> "idle", server |-> None, source |-> source, attempt |-> 0,
                       answer |-> Y!Verdict(source)]
    <3>1. call' = [call EXCEPT ![c] = new]
      BY <2>1 DEF Y!Evaluate
    <3>2. new \in Call
      BY <1>2, VerdictIsOne DEF Call
    <3> QED
      BY <3>1, <3>2
  <2>2. CASE source \notin BuiltIn
    <3> DEFINE new == [pc |-> "run", server |-> s, source |-> source, attempt |-> 1,
                       answer |-> None]
    <3>1. call' = [call EXCEPT ![c] = new]
      BY <2>2 DEF Y!Evaluate
    <3>2. new \in Call
      BY <1>2 DEF Call
    <3> QED
      BY <3>1, <3>2 DEF NamesDistinct
  <2> QED
    BY <2>1, <2>2
<1>4. CallInv'
  BY <1>3 DEF PolicyInv, CallInv, Y!AnswersFollow
<1> QED
  BY <1>1, <1>4, RequestUntouched, RowsUntouched, InForceUntouched DEF PolicyInv

(* What comes of the program is its verdict, another attempt, or an error. *)
LEMMA AuthorizeKeeps ==
    ASSUME NamesDistinct, PolicyInv, NEW c \in Calls, Y!Authorize(c)
    PROVE  PolicyInv'
<1>1. UNCHANGED <<active, activated, inForce, request>>
  BY DEF Y!Authorize
<1>2. call \in [Calls -> Call] /\ call[c] \in Call /\ Y!AnswersFollow
  BY DEF PolicyInv, CallInv
<1>3. ASSUME NEW answer \in {"permit", "forbid", "rejected"}, Y!Answered(c, answer),
             answer # "rejected" => answer = Y!Verdict(call[c].source)
      PROVE  CallInv'
  <2> DEFINE new == [call[c] EXCEPT !.pc = "idle", !.server = None, !.answer = answer]
  <2>1. new \in Call /\ call' = [call EXCEPT ![c] = new]
    BY <1>2, <1>3 DEF Y!Answered, Call
  <2>2. new.answer = answer /\ new.source = call[c].source
    BY <1>2 DEF Call
  <2> HIDE DEF new
  <2> QED
    BY <1>2, <1>3, <2>1, <2>2 DEF CallInv, Y!AnswersFollow
<1>4. ASSUME call' = [call EXCEPT ![c].attempt = @ + 1] PROVE CallInv'
  <2> DEFINE new == [call[c] EXCEPT !.attempt = @ + 1]
  <2>1. new \in Call /\ call' = [call EXCEPT ![c] = new]
    BY <1>2, <1>4 DEF Call
  <2>2. new.answer = call[c].answer /\ new.source = call[c].source
    BY <1>2 DEF Call
  <2> HIDE DEF new
  <2> QED
    BY <1>2, <2>1, <2>2 DEF CallInv, Y!AnswersFollow
<1>5. ASSUME NEW o \in Y!Outputs(call[c].source), Y!Decided(o) # None, Y!Answered(c, Y!Decided(o))
      PROVE  CallInv'
  BY <1>3, <1>5, DecidedFollows, VerdictIsOne
<1>6. ASSUME Y!Answered(c, "rejected") PROVE CallInv'
  BY <1>3, <1>6
<1>7. CallInv'
  BY <1>4, <1>5, <1>6 DEF Y!Authorize
<1> QED
  BY <1>1, <1>7, RequestUntouched, RowsUntouched, InForceUntouched DEF PolicyInv

(* Every step keeps the invariant. *)
LEMMA PolicyStep == ASSUME NamesDistinct, PolicyInv, [Y!Next]_(Y!vars) PROVE PolicyInv'
<1>1. ASSUME NEW r \in Operations, NEW s \in Operators, NEW b \in Bundles,
             NEW kind \in {"create", "promote"}, Y!Create(r, s, b, kind)
      PROVE  PolicyInv'
  BY <1>1, BeginKeeps
<1>2. ASSUME NEW r \in Operations, NEW s \in Operators, NEW b \in Bundles, Y!Activate(r, s, b)
      PROVE  PolicyInv'
  <2>1. "create" \in {"create", "promote"}
    OBVIOUS
  <2> QED
    BY <1>2, <2>1, BeginKeeps
<1>3. ASSUME NEW r \in Operations, Y!LookUp(r) \/ Y!See(r) \/ Y!Deactivate(r) \/ Y!Write(r)
      PROVE  PolicyInv'
  BY <1>3, StatementKeeps
<1>4. ASSUME NEW r \in Operations, Y!Commit(r) PROVE PolicyInv'
  BY <1>4, CommitKeeps
<1>5. ASSUME NEW r \in Operations, Y!Reload(r) PROVE PolicyInv'
  BY <1>5, ReloadKeeps
<1>6. ASSUME NEW r \in Operations, Y!Fail(r) PROVE PolicyInv'
  BY <1>6, FailKeeps
<1>7. ASSUME NEW s \in Servers, Y!Restart(s) PROVE PolicyInv'
  BY <1>7, RestartKeeps
<1>8. ASSUME NEW c \in Calls, Y!Authorize(c) PROVE PolicyInv'
  BY <1>8, AuthorizeKeeps
<1>9. ASSUME NEW c \in Calls, NEW s \in Servers, Y!Evaluate(c, s) PROVE PolicyInv'
  BY <1>9, EvaluateKeeps
<1>10. CASE UNCHANGED Y!vars
  BY <1>10, RequestUntouched, RowsUntouched, InForceUntouched, CallUntouched
     DEF Y!vars, PolicyInv
<1> QED
  BY <1>1, <1>2, <1>3, <1>4, <1>5, <1>6, <1>7, <1>8, <1>9, <1>10 DEF Y!Next

(* The policy in force, the rows and the answers agree in every behaviour  *)
(* of the routes, restarts and the Cedar program.                          *)
THEOREM PoliciesAreSound ==
    ASSUME NamesDistinct
    PROVE  Y!Spec => []Y!PoliciesHold
<1>1. PolicyInv => Y!PoliciesHold
  BY DEF PolicyInv, InForceInv, CallInv, Y!PoliciesHold
<1>2. PolicyInv /\ [Y!Next]_(Y!vars) => PolicyInv'
  BY PolicyStep
<1>3. Y!Init => PolicyInv
  BY InitPolicy
<1> QED
  BY <1>1, <1>2, <1>3, PTL DEF Y!Spec

-----------------------------------------------------------------------------
(* Types: every id that was ever active is a row, and no evaluation runs   *)
(* the program more often than its attempts allow.                         *)

(* The rows there are hold the seeded one, and the bounds of the model are *)
(* numbers.                                                                *)
RowsWellFormed ==
    /\ Stored \in Seq(Bundles) /\ Seeded \in Y!Range(Stored)
    /\ MaxAttempts \in Nat \ {0}
    /\ MaxRequests \in Nat /\ MaxFaults \in Nat /\ MaxPolicyRestarts \in Nat

RowsStored ==
    /\ created \in Seq(Bundles)
    /\ active \subseteq Y!Range(created) /\ activated \subseteq Y!Range(created)

AttemptsCount ==
    /\ requests \in 0..MaxRequests /\ faults \in 0..MaxFaults
    /\ policyRestarts \in 0..MaxPolicyRestarts
    /\ \A c \in Calls : call[c].attempt \in 0..MaxAttempts

LEMMA CommitStores ==
    ASSUME NamesDistinct, RowsWellFormed, PolicyInv, RowsStored, NEW r \in Operations,
           request[r].pc = "commit", Y!Committed(r)
    PROVE  RowsStored'
<1> DEFINE b == request[r].bundle
<1>1. b \in Bundles
  BY DEF NamesDistinct, PolicyInv, RequestInv, PastTheParser
<1>2. created' \in Seq(Bundles) /\ Y!Range(created) \cup {b} \subseteq Y!Range(created')
  <2>1. CASE Y!Known(b)
    BY <2>1 DEF Y!Committed, RowsStored, Y!Known
  <2>2. CASE ~Y!Known(b)
    <3>1. /\ Len(Stored) \in Nat /\ Len(created) \in Nat
          /\ created \in [1..Len(created) -> Bundles] /\ created \in Seq(Bundles)
      BY DEF RowsStored, RowsWellFormed
    <3>2. PICK i \in (Len(Stored) + 1)..(Len(created) + 1) : created' = Y!Placed(b, i)
      BY <2>2 DEF Y!Committed
    <3>3. i \in 1..(Len(created) + 1)
      BY <3>1, <3>2
    <3>4. /\ created' \in [1..(Len(created) + 1) -> Bundles] /\ created'[i] = b
          /\ \A j \in 1..Len(created) : j < i => created'[j] = created[j]
          /\ \A j \in 1..Len(created) : j >= i => created'[j + 1] = created[j]
      BY <1>1, <3>1, <3>2, <3>3 DEF Y!Placed
    <3>5. created' \in Seq(Bundles)
      BY <3>1, <3>4
    <3>6. \A j \in 1..Len(created) : \E k \in DOMAIN created' : created'[k] = created[j]
      BY <3>1, <3>3, <3>4
    <3> QED
      BY <3>1, <3>3, <3>4, <3>5, <3>6 DEF Y!Range
  <2> QED
    BY <2>1, <2>2
<1>3. active' \subseteq active \cup {b} /\ activated' = activated \cup active'
  BY DEF Y!Committed
<1> QED
  BY <1>2, <1>3 DEF RowsStored

LEMMA PolicyTypesStep ==
    ASSUME NamesDistinct, RowsWellFormed, PolicyInv, RowsStored, AttemptsCount, [Y!Next]_(Y!vars)
    PROVE  RowsStored' /\ AttemptsCount'
<1>1. ASSUME UNCHANGED <<created, active, activated>> PROVE RowsStored'
  BY <1>1 DEF RowsStored
<1>2. ASSUME UNCHANGED call, requests' \in 0..MaxRequests, faults' \in 0..MaxFaults,
             policyRestarts' \in 0..MaxPolicyRestarts
      PROVE  AttemptsCount'
  BY <1>2 DEF AttemptsCount
<1>3. requests \in 0..MaxRequests /\ faults \in 0..MaxFaults
      /\ policyRestarts \in 0..MaxPolicyRestarts
  BY DEF AttemptsCount
<1> USE DEF RowsWellFormed
<1>4. ASSUME NEW r \in Operations, NEW s \in Operators, NEW b \in Bundles,
             \/ \E kind \in {"create", "promote"} : Y!Create(r, s, b, kind)
             \/ Y!Activate(r, s, b)
      PROVE  RowsStored' /\ AttemptsCount'
  <2>1. /\ UNCHANGED <<created, active, activated, call, faults, policyRestarts>>
        /\ requests < MaxRequests /\ requests' = requests + 1
    BY <1>4 DEF Y!Create, Y!Activate
  <2> QED
    BY <1>1, <1>2, <1>3, <2>1
<1>5. ASSUME NEW r \in Operations,
             Y!LookUp(r) \/ Y!See(r) \/ Y!Deactivate(r) \/ Y!Write(r) \/ Y!Reload(r)
      PROVE  RowsStored' /\ AttemptsCount'
  <2>1. UNCHANGED <<created, active, activated, call, requests, faults, policyRestarts>>
    BY <1>5 DEF Y!LookUp, Y!See, Y!Deactivate, Y!Write, Y!Reload
  <2> QED
    BY <1>1, <1>2, <1>3, <2>1
<1>6. ASSUME NEW r \in Operations, Y!Commit(r) PROVE RowsStored' /\ AttemptsCount'
  <2>1. UNCHANGED <<call, requests, faults, policyRestarts>>
        /\ request[r].pc = "commit" /\ Y!Committed(r)
    BY <1>6 DEF Y!Commit
  <2> QED
    BY <1>2, <1>3, <2>1, CommitStores
<1>7. ASSUME NEW r \in Operations, Y!Fail(r) PROVE RowsStored' /\ AttemptsCount'
  <2>1. /\ UNCHANGED <<call, requests, policyRestarts>>
        /\ faults < MaxFaults /\ faults' = faults + 1
        /\ \/ Y!Rollback(r)
           \/ request[r].pc = "commit" /\ Y!Committed(r)
    BY <1>7 DEF Y!Fail
  <2> QED
    BY <1>1, <1>2, <1>3, <2>1, CommitStores DEF Y!Rollback
<1>8. ASSUME NEW s \in Servers, Y!Restart(s) PROVE RowsStored' /\ AttemptsCount'
  <2>1. /\ UNCHANGED <<created, active, activated, requests, faults>>
        /\ policyRestarts < MaxPolicyRestarts /\ policyRestarts' = policyRestarts + 1
        /\ \A c \in Calls : call'[c] \in {Y!Quiet, call[c]}
    BY <1>8 DEF Y!Restart
  <2>2. Y!Quiet.attempt \in 0..MaxAttempts
    BY DEF Y!Quiet
  <2>3. \A c \in Calls : call'[c].attempt \in 0..MaxAttempts
    BY <2>1, <2>2 DEF AttemptsCount
  <2> QED
    BY <1>1, <1>3, <2>1, <2>3 DEF AttemptsCount
<1>9. ASSUME NEW c \in Calls, NEW s \in Servers, Y!Evaluate(c, s)
      PROVE  RowsStored' /\ AttemptsCount'
  <2>1. UNCHANGED <<created, active, activated, requests, faults, policyRestarts>>
    BY <1>9 DEF Y!Evaluate
  <2>2. call'[c].attempt \in {0, 1} /\ \A d \in Calls \ {c} : call'[d] = call[d]
    BY <1>9 DEF Y!Evaluate, PolicyInv, CallInv
  <2> QED
    BY <1>1, <1>3, <2>1, <2>2 DEF AttemptsCount
<1>10. ASSUME NEW c \in Calls, Y!Authorize(c) PROVE RowsStored' /\ AttemptsCount'
  <2>1. UNCHANGED <<created, active, activated, requests, faults, policyRestarts>>
    BY <1>10 DEF Y!Authorize
  <2>2. call[c] \in Call /\ call \in [Calls -> Call]
    BY DEF PolicyInv, CallInv
  <2>3. ASSUME NEW answer, Y!Answered(c, answer)
        PROVE  call'[c].attempt = call[c].attempt /\ \A d \in Calls \ {c} : call'[d] = call[d]
    BY <2>2, <2>3 DEF Y!Answered, Call
  <2>4. ASSUME call[c].attempt < MaxAttempts, call' = [call EXCEPT ![c].attempt = @ + 1]
        PROVE  /\ call'[c].attempt = call[c].attempt + 1
               /\ \A d \in Calls \ {c} : call'[d] = call[d]
    BY <2>2, <2>4 DEF Call
  <2>5. /\ call'[c].attempt \in 0..MaxAttempts
        /\ \A d \in Calls \ {c} : call'[d] = call[d]
    <3>1. call[c].attempt \in 0..MaxAttempts
      BY DEF AttemptsCount
    <3>2. CASE \E answer : Y!Answered(c, answer)
      BY <2>3, <3>1, <3>2
    <3>3. CASE call[c].attempt < MaxAttempts /\ call' = [call EXCEPT ![c].attempt = @ + 1]
      BY <2>4, <3>1, <3>3
    <3> QED
      BY <1>10, <3>2, <3>3 DEF Y!Authorize
  <2> QED
    BY <1>1, <1>3, <2>1, <2>5 DEF AttemptsCount
<1>11. CASE UNCHANGED Y!vars
  BY <1>1, <1>2, <1>3, <1>11 DEF Y!vars
<1> QED
  BY <1>4, <1>5, <1>6, <1>7, <1>8, <1>9, <1>10, <1>11 DEF Y!Next

THEOREM PolicyTyped == ASSUME NamesDistinct, RowsWellFormed PROVE Y!Spec => []Y!PolicyTypeOK
<1>1. Y!Init => PolicyInv /\ RowsStored /\ AttemptsCount
  <2> SUFFICES ASSUME Y!Init PROVE RowsStored /\ AttemptsCount
    BY InitPolicy
  <2>1. RowsStored
    BY DEF Y!Init, RowsStored, RowsWellFormed
  <2>2. AttemptsCount
    BY DEF Y!Init, AttemptsCount, RowsWellFormed, Y!Quiet
  <2> QED
    BY <2>1, <2>2
<1>2. PolicyInv /\ RowsStored /\ AttemptsCount /\ [Y!Next]_(Y!vars) =>
         PolicyInv' /\ RowsStored' /\ AttemptsCount'
  BY PolicyStep, PolicyTypesStep
<1>3. PolicyInv /\ RowsStored /\ AttemptsCount => Y!PolicyTypeOK
  <2> SUFFICES ASSUME PolicyInv, RowsStored, AttemptsCount PROVE Y!PolicyTypeOK
    OBVIOUS
  <2>1. inForce \in [Servers -> Bundles \cup {None}]
    BY DEF PolicyInv, InForceInv
  <2>2. request \in [Operations -> Request]
    BY DEF PolicyInv, RequestInv, RequestsAreRecords
  <2>3. call \in [Calls ->
          [pc : {"idle", "run"}, server : Servers \cup {None},
           source : Y!Sources \cup {None}, attempt : 0..MaxAttempts,
           answer : {None, "permit", "forbid", "rejected"}]]
    BY DEF PolicyInv, CallInv, Call, AttemptsCount
  <2> QED
    BY <2>1, <2>2, <2>3 DEF RowsStored, AttemptsCount, Request, Y!PolicyTypeOK
<1> QED
  BY <1>1, <1>2, <1>3, PTL DEF Y!Spec
=============================================================================
