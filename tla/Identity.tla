------------------------------- MODULE Identity -------------------------------
(***************************************************************************)
(* Workload identities: minted by the daemon's own key or fetched from the *)
(* SPIFFE Workload API, and verified again where they are enforced, with   *)
(* keys and revocations that move meanwhile.                               *)
(*                                                                         *)
(*   v2/workload-identity.ts           mint, verifyWorkloadIdentity        *)
(*   v2/workload-identity-provider.ts  verifyJwtSvid, verifyIdentityToken, *)
(*                                     requestSvid, createSpireIdentity-   *)
(*                                     Provider                            *)
(*   v2/spiffe-workload-api.ts         fetchJwtSvid                        *)
(*                                                                         *)
(* The SPIRE agent is external: it hands out whatever SVIDs the calling    *)
(* process is entitled to, fresh ones or ones it has cached.               *)
(***************************************************************************)
EXTENDS Naturals, Sequences, FiniteSets

CONSTANTS
    Workloads,      \* agents that ask for an identity
    Tenant, Domain, Audience,   \* what the verifier expects
    Kids,           \* signing keys the trust domain may publish, in order
    LocalKey,       \* the issuer key of minted identities
    Entitled,       \* subjects the SPIRE agent hands to each workload
    Algorithms,     \* VERIFY_ALGORITHMS
    NoJti,          \* an SVID without a jti
    NoToken,
    TimeToLive, MaxTime, MaxRevocations     \* bounds of the model

VARIABLES
    now,
    published,  \* the JWKS of the trust domain
    known,      \* the sidecar's copy of it
    fetch,      \* each workload: the await its request is at, its token
    revoked     \* nonces the sidecar refuses

vars == <<now, published, known, fetch, revoked>>

Subject(tenant, agent) == [domain |-> Domain, tenant |-> tenant, agent |-> agent]
Own(w) == Subject(Tenant, w)

(* The nonce comes from inside the signature: the jti, or subject and iat. *)
NonceOf(token) ==
    IF token.jti # NoJti THEN <<token.jti>> ELSE <<token.iat, token.sub>>

IsToken(t) ==
    /\ t.form \in {"svid", "minted"}
    /\ t.sub.agent \in Workloads
    /\ t.iat \in 0..MaxTime /\ t.exp \in 0..(MaxTime + TimeToLive)

IdentityTypeOK ==
    /\ now \in 0..MaxTime
    /\ published \subseteq Kids /\ known \subseteq Kids
    /\ \A w \in Workloads :
          /\ fetch[w].stage \in {"idle", "svid", "jwks", "held", "failed"}
          /\ fetch[w].token = NoToken \/ IsToken(fetch[w].token)
    /\ Cardinality(revoked) <= MaxRevocations

First == CHOOSE k \in Kids : \A j \in Kids : k <= j

Init ==
    /\ now = 0
    /\ published = {First} /\ known = {First}
    /\ fetch = [w \in Workloads |-> [stage |-> "idle", token |-> NoToken]]
    /\ revoked = {}

-----------------------------------------------------------------------------
(* Verification *)

(* verifyJwtSvid, in the order of its checks; SPIRE's SVIDs have no nbf. *)
SvidObjection(t, keys) ==
    IF t.alg \notin Algorithms THEN "unsupported_algorithm"
    ELSE IF t.key \notin keys THEN "untrusted_issuer"
    ELSE IF ~t.genuine THEN "invalid_signature"
    ELSE IF t.exp <= now THEN "expired"
    ELSE IF t.sub.domain # Domain THEN "untrusted_issuer"
    ELSE IF Audience \notin t.aud THEN "invalid_signature"
    ELSE "none"

EnvelopeObjection(t) ==
    IF t.key # LocalKey THEN "untrusted_issuer"
    ELSE IF ~t.genuine THEN "invalid_signature"
    ELSE IF t.sub.domain # Domain THEN "spiffe_mismatch"
    ELSE IF t.sub.tenant # Tenant THEN "tenant_mismatch"
    ELSE IF t.exp <= t.iat THEN "malformed_identity"
    ELSE IF now < t.iat THEN "not_yet_valid"
    ELSE IF now >= t.exp THEN "expired"
    ELSE "none"

(* verifyIdentityToken: the form of the token picks the verifier. *)
Verdict(t) ==
    LET objection == IF t.form = "svid" THEN SvidObjection(t, known)
                     ELSE EnvelopeObjection(t)
    IN  IF objection # "none" THEN objection
        ELSE IF t.sub.tenant # Tenant THEN "spiffe_mismatch"
        ELSE IF NonceOf(t) \in revoked THEN "revoked"
        ELSE "accepted"

-----------------------------------------------------------------------------
(* Obtaining an identity *)

Goto(w, stage, token) == fetch' = [fetch EXCEPT ![w] = [stage |-> stage, token |-> token]]

(* Local key: one synchronous step, a nonce of its own. *)
Minted(w) ==
    [form |-> "minted", sub |-> Own(w), iat |-> now, exp |-> now + TimeToLive,
     jti |-> <<w, now>>, key |-> LocalKey, alg |-> "Ed25519", aud |-> {}, genuine |-> TRUE]

Mint(w) ==
    /\ fetch[w].stage = "idle"
    /\ Goto(w, "held", Minted(w))
    /\ UNCHANGED <<now, published, known, revoked>>

Request(w) ==
    /\ fetch[w].stage = "idle"
    /\ Goto(w, "svid", NoToken)
    /\ UNCHANGED <<now, published, known, revoked>>

Svid(sub, key, iat) ==
    [form |-> "svid", sub |-> sub, iat |-> iat, exp |-> iat + TimeToLive, jti |-> NoJti,
     key |-> key, alg |-> "ES256", aud |-> {Audience}, genuine |-> TRUE]

(* The agent answers with one usable SVID first, whoever that names: a     *)
(* fresh one or a cached one, signed by any key it ever had.               *)
Offered(w) ==
    /\ fetch[w].stage = "svid"
    /\ \E sub \in Entitled[w], key \in Kids, iat \in 0..now :
          /\ now < iat + TimeToLive
          /\ Goto(w, "jwks", Svid(sub, key, iat))
    /\ UNCHANGED <<now, published, known, revoked>>

Fails(w) == Goto(w, "failed", NoToken)

(* Refused, timed out, oversized or garbled: no partial answer is used. *)
NotOffered(w) ==
    /\ fetch[w].stage = "svid"
    /\ Fails(w)
    /\ UNCHANGED <<now, published, known, revoked>>

(* Faulty: any verified SVID will do. *)
JwksAnyone(w) ==
    /\ fetch[w].stage = "jwks"
    /\ IF SvidObjection(fetch[w].token, published) = "none"
       THEN Goto(w, "held", fetch[w].token) ELSE Fails(w)
    /\ UNCHANGED <<now, published, known, revoked>>

(* The keys are fetched after the SVID, and the SVID is judged by them. *)
Jwks(w) ==
    /\ fetch[w].stage = "jwks"
    /\ IF /\ SvidObjection(fetch[w].token, published) = "none"
          /\ fetch[w].token.sub = Own(w)
       THEN Goto(w, "held", fetch[w].token) ELSE Fails(w)
    /\ UNCHANGED <<now, published, known, revoked>>

JwksFails(w) ==
    /\ fetch[w].stage = "jwks"
    /\ Fails(w)
    /\ UNCHANGED <<now, published, known, revoked>>

(* The next call of the same workload. *)
Again(w) ==
    /\ fetch[w].stage \in {"held", "failed"}
    /\ Goto(w, "idle", NoToken)
    /\ UNCHANGED <<now, published, known, revoked>>

-----------------------------------------------------------------------------
(* Meanwhile *)

Rotate(keys) ==
    /\ keys # {} /\ keys # published
    /\ published' = keys
    /\ UNCHANGED <<now, known, fetch, revoked>>

Reload ==
    /\ known # published
    /\ known' = published
    /\ UNCHANGED <<now, published, fetch, revoked>>

RevokeNonce(w) ==
    /\ fetch[w].stage = "held"
    /\ Cardinality(revoked) < MaxRevocations
    /\ revoked' = revoked \cup {NonceOf(fetch[w].token)}
    /\ UNCHANGED <<now, published, known, fetch>>

Tick ==
    /\ now < MaxTime
    /\ now' = now + 1
    /\ UNCHANGED <<published, known, fetch, revoked>>

Next ==
    \/ \E w \in Workloads :
          \/ Mint(w) \/ Request(w) \/ Offered(w) \/ NotOffered(w)
          \/ Jwks(w) \/ JwksFails(w) \/ Again(w) \/ RevokeNonce(w)
    \/ \E keys \in SUBSET Kids : Rotate(keys)
    \/ Reload \/ Tick

Spec == Init /\ [][Next]_vars

-----------------------------------------------------------------------------
(* Properties *)

Holding == {w \in Workloads : fetch[w].stage = "held"}
Token(w) == fetch[w].token

(* "The thing that was verified here" is "the thing that is enforced there" *)
(* (createSpireIdentityProvider): what a workload was given names that      *)
(* workload and nobody else, and the sidecar, which verifies it afresh,     *)
(* refuses it only because time passed, its keys changed or it was revoked; *)
(* and no two workloads share the nonce that revocations name (S4).         *)
HeldIsHonoured ==
    \A w \in Holding :
        /\ Token(w).sub = Own(w)
        /\ Verdict(Token(w)) \in {"accepted", "expired", "revoked", "untrusted_issuer"}
        /\ Verdict(Token(w)) = "untrusted_issuer" => known # published \/ Token(w).key \notin published
        /\ Verdict(Token(w)) = "accepted" => now < Token(w).exp
        /\ \A v \in Holding \ {w} : NonceOf(Token(v)) # NonceOf(Token(w))
=============================================================================
