----------------------------- MODULE Capability -----------------------------
(***************************************************************************)
(* The capability broker and the Vault client behind it: an agent's        *)
(* operation is performed with a credential the agent never sees, leased   *)
(* for the one call and given back at its end.                             *)
(*                                                                         *)
(*   v2/capability-broker.ts    CapabilityBroker.grant                     *)
(*   v2/providers.ts            createVaultCredentialProvider              *)
(*   v2/production-providers.ts createVaultAppRoleClient                   *)
(*                                                                         *)
(* Several calls run at once.  Each talks to Vault through one client that *)
(* caches its token for all of them; an operator may revoke that token.    *)
(***************************************************************************)
EXTENDS Authority, FiniteSets

CONSTANTS
    Calls,          \* calls of grant
    AgentOf,        \* the calling agent of each, as its token says
    Authentic,      \* calls whose identity token verifies
    GrantOf,        \* the grant each call asks for
    Supported,      \* grants some provider supports
    AuthorityOf,    \* the authority in force for each agent
    Credentialed,   \* calls whose provider requires a credential
    Leases,         \* leases Vault may grant, a bound of the model
    VaultTokens,    \* client tokens Vault may issue, a bound of the model
    Nil,
    MaxRevocations, MaxFaults   \* bounds of the model

VARIABLES
    call,       \* each call: its await, its Vault token, its lease, its answer
    client,     \* clientToken: the cached token, and whether it is fresh
    valid,      \* at Vault: the client tokens in force
    lease,      \* at Vault: each lease
    handles,    \* leaseIdByHandle
    performed,  \* calls whose provider performed the operation
    failed,     \* leases nobody will revoke: the attempt failed, or the answer was lost
    revocations, faults

vars == <<call, client, valid, lease, handles, performed, failed, revocations, faults>>

Answers == {"granted", "identity_denied", "unknown_grant", "grant_not_in_scope",
            "credential_unavailable", "provider_failed", "credential_leak"}

(* authenticatedFetch: choose a token, perhaps log in, ask, perhaps again. *)
Stages == {"choose", "login", "send", "relogin", "resend"}

CapabilityTypeOK ==
    /\ call \in [Calls -> [op : {"idle", "read", "execute", "revoke", "done"},
                           stage : Stages, token : VaultTokens \cup {Nil},
                           lease : Leases \cup {Nil},
                           answer : Answers \cup {"none", "rejected"}]]
    /\ \A c \in Calls : call[c].op \in {"revoke", "done"} <=> call[c].answer # "none"
    /\ client \in [token : VaultTokens \cup {Nil}, fresh : BOOLEAN]
    /\ valid \in [VaultTokens -> {"unissued", "valid", "revoked"}]
    /\ lease \in [Leases -> {"free", "live", "expired", "revoked"}]
    /\ \A h \in DOMAIN handles : handles[h] \in Leases
    /\ performed \subseteq Calls
    /\ failed \subseteq Leases
    /\ revocations \in 0..MaxRevocations /\ faults \in 0..MaxFaults

Init ==
    /\ call = [c \in Calls |-> [op |-> "idle", stage |-> "choose", token |-> Nil,
                                lease |-> Nil, answer |-> "none"]]
    /\ client = [token |-> Nil, fresh |-> FALSE]
    /\ valid = [t \in VaultTokens |-> "unissued"]
    /\ lease = [l \in Leases |-> "free"]
    /\ handles = <<>>
    /\ performed = {} /\ failed = {}
    /\ revocations = 0 /\ faults = 0

-----------------------------------------------------------------------------
(* grant, up to the credential *)

Goto(c, op, stage) == call' = [call EXCEPT ![c].op = op, ![c].stage = stage]
Answer(c, answer)  == call' = [call EXCEPT ![c].op = "done", ![c].answer = answer]

Verdict(c) ==
    IF c \notin Authentic THEN "identity_denied"
    ELSE IF GrantOf[c] \notin Supported THEN "unknown_grant"
    ELSE IF ~ScopeIsNarrowerThan({GrantOf[c]}, AuthorityOf[AgentOf[c]])
        THEN "grant_not_in_scope"
    ELSE "authorized"

Begin(c) ==
    /\ call[c].op = "idle"
    /\ IF Verdict(c) # "authorized" THEN Answer(c, Verdict(c))
       ELSE Goto(c, IF c \in Credentialed THEN "read" ELSE "execute", "choose")
    /\ UNCHANGED <<client, valid, lease, handles, performed, failed, revocations, faults>>

(* The evidence sink throws out of grant before anything happened. *)
BeginUnrecorded(c) ==
    /\ call[c].op = "idle"
    /\ faults < MaxFaults /\ faults' = faults + 1
    /\ Answer(c, "rejected")
    /\ UNCHANGED <<client, valid, lease, handles, performed, failed, revocations>>

-----------------------------------------------------------------------------
(* authenticatedFetch, for readDynamicSecret and for revokeLease *)

AtVault(c, stage) == call[c].op \in {"read", "revoke"} /\ call[c].stage = stage

Choose(c) ==
    /\ AtVault(c, "choose")
    /\ IF client.token # Nil /\ client.fresh
       THEN call' = [call EXCEPT ![c].stage = "send", ![c].token = client.token]
       ELSE Goto(c, call[c].op, "login")
    /\ UNCHANGED <<client, valid, lease, handles, performed, failed, revocations, faults>>

(* Vault numbers its tokens and leases as it likes. *)
UnissuedTokens == {t \in VaultTokens : valid[t] = "unissued"}
FreeLeases == {l \in Leases : lease[l] = "free"}

Login(c) ==
    /\ AtVault(c, "login") \/ AtVault(c, "relogin")
    /\ UnissuedTokens # {}
    /\ LET t == CHOOSE u \in UnissuedTokens : TRUE
       IN /\ valid' = [valid EXCEPT ![t] = "valid"]
          /\ client' = [token |-> t, fresh |-> TRUE]
          /\ call' = [call EXCEPT ![c].token = t,
                         ![c].stage = IF @ = "login" THEN "send" ELSE "resend"]
    /\ UNCHANGED <<lease, handles, performed, failed, revocations, faults>>

(* What an error of either request turns into: obtain's catch answers, an  *)
(* error of destroy rejects grant.                                         *)
Fails(c) ==
    IF call[c].op = "read"
    THEN Answer(c, "credential_unavailable") /\ UNCHANGED <<handles, failed>>
    ELSE /\ Answer(c, "rejected")
         /\ failed' = failed \cup {call[c].lease}
         /\ UNCHANGED handles

(* Vault answers 403.  The first time, and only while a token is cached,   *)
(* the client logs in and asks again.                                      *)
Forbidden(c) ==
    /\ AtVault(c, "send") \/ AtVault(c, "resend")
    /\ valid[call[c].token] = "revoked"
    /\ IF call[c].stage = "send" /\ client.token # Nil
       THEN /\ client' = [token |-> Nil, fresh |-> FALSE]
            /\ Goto(c, call[c].op, "relogin")
            /\ UNCHANGED <<handles, failed>>
       ELSE Fails(c) /\ UNCHANGED client
    /\ UNCHANGED <<valid, lease, performed, revocations, faults>>

Sent(c) == (AtVault(c, "send") \/ AtVault(c, "resend")) /\ valid[call[c].token] = "valid"

(* Faulty: one slot for all the leases of an agent. *)
HandleOfAgent(c, l) == <<AgentOf[c], Nil>>

HandleOf(c, l) == <<AgentOf[c], l>>

WithHandle(h, l) ==
    [k \in DOMAIN handles \cup {h} |-> IF k = h THEN l ELSE handles[k]]
WithoutHandle(h) == [k \in DOMAIN handles \ {h} |-> handles[k]]

(* Faulty: what grant was about to answer is lost in the finally block. *)
ReleaseForgetting(c, answer) ==
    /\ handles' = WithoutHandle(HandleOf(c, call[c].lease))
    /\ Goto(c, "revoke", "choose")

(* destroy takes the entry out of the map before it asks Vault. *)
Release(c, answer) ==
    LET h == HandleOf(c, call[c].lease)
    IN  /\ handles' = WithoutHandle(h)
        /\ call' = IF h \in DOMAIN handles
                   THEN [call EXCEPT ![c].op = "revoke", ![c].stage = "choose",
                                     ![c].lease = handles[h], ![c].answer = answer]
                   ELSE [call EXCEPT ![c].op = "done", ![c].answer = answer]

(* A lease is granted; one already past its end goes straight back. *)
Read(c) ==
    /\ Sent(c) /\ call[c].op = "read"
    /\ FreeLeases # {}
    /\ LET l == CHOOSE m \in FreeLeases : TRUE
       IN \/ /\ lease' = [lease EXCEPT ![l] = "live"]
             /\ call' = [call EXCEPT ![c].op = "execute", ![c].lease = l]
             /\ handles' = WithHandle(HandleOf(c, l), l)
          \/ /\ lease' = [lease EXCEPT ![l] = "expired"]
             /\ call' = [call EXCEPT ![c].op = "revoke", ![c].stage = "choose",
                            ![c].lease = l, ![c].answer = "credential_unavailable"]
             /\ UNCHANGED handles
    /\ UNCHANGED <<client, valid, performed, failed, revocations, faults>>

Revoke(c) ==
    /\ Sent(c) /\ call[c].op = "revoke"
    /\ lease' = [lease EXCEPT ![call[c].lease] = "revoked"]
    /\ call' = [call EXCEPT ![c].op = "done"]
    /\ UNCHANGED <<client, valid, handles, performed, failed, revocations, faults>>

(* The network or Vault fails before anything was done there. *)
Fault(c) ==
    /\ call[c].op \in {"read", "revoke"} /\ call[c].stage # "choose"
    /\ faults < MaxFaults /\ faults' = faults + 1
    /\ Fails(c)
    /\ UNCHANGED <<client, valid, lease, performed, revocations>>

(* Vault did as it was asked, and the answer is lost or makes no sense. *)
LoseAnswer(c) ==
    /\ Sent(c)
    /\ faults < MaxFaults /\ faults' = faults + 1
    /\ IF call[c].op = "read"
       THEN \E l \in FreeLeases :
               /\ lease' = [lease EXCEPT ![l] = "live"]
               /\ Answer(c, "credential_unavailable")
               /\ failed' = failed \cup {l}
       ELSE /\ lease' = [lease EXCEPT ![call[c].lease] = "revoked"]
            /\ Answer(c, "rejected")
            /\ UNCHANGED failed
    /\ UNCHANGED <<client, valid, handles, performed, revocations>>

-----------------------------------------------------------------------------
(* The operation, and finally the release *)

(* A result that holds a credential, or anything cut from one, is kept.    *)
Judged == {"granted", "credential_leak"}

(* The provider may fail before or after the effect; whatever the outcome, *)
(* finally gives the credential back.                                      *)
Execute(c) ==
    /\ call[c].op = "execute"
    /\ \E answer \in Judged \cup {"provider_failed"} :
          /\ \/ performed' = performed \cup {c}
             \/ answer = "provider_failed" /\ UNCHANGED performed
          /\ IF call[c].lease = Nil THEN Answer(c, answer) /\ UNCHANGED handles
             ELSE Release(c, answer)
    /\ UNCHANGED <<client, valid, lease, failed, revocations, faults>>

(* An operator revokes the client's token; the cache lives half its time;  *)
(* Vault ends leases that run out.                                         *)
RevokeToken(t) ==
    /\ valid[t] = "valid"
    /\ revocations < MaxRevocations /\ revocations' = revocations + 1
    /\ valid' = [valid EXCEPT ![t] = "revoked"]
    /\ UNCHANGED <<call, client, lease, handles, performed, failed, faults>>

Lapse ==
    /\ client.fresh
    /\ client' = [client EXCEPT !.fresh = FALSE]
    /\ UNCHANGED <<call, valid, lease, handles, performed, failed, revocations, faults>>

Expire(l) ==
    /\ lease[l] = "live"
    /\ lease' = [lease EXCEPT ![l] = "expired"]
    /\ UNCHANGED <<call, client, valid, handles, performed, failed, revocations, faults>>

Next ==
    \/ \E c \in Calls :
          \/ Begin(c) \/ BeginUnrecorded(c) \/ Choose(c) \/ Login(c) \/ Forbidden(c)
          \/ Read(c) \/ Revoke(c) \/ Fault(c) \/ LoseAnswer(c) \/ Execute(c)
    \/ \E t \in VaultTokens : RevokeToken(t)
    \/ Lapse
    \/ \E l \in Leases : Expire(l)

Spec == Init /\ [][Next]_vars

-----------------------------------------------------------------------------
(* Properties *)

Holds(c, l) == call[c].op \in {"execute", "revoke"} /\ call[c].lease = l

(* capability-broker.ts "Always release": on every path out of grant, with *)
(* other calls of the same agent under way, a lease is either still held,  *)
(* or ended, or its revocation was asked for and refused; no call has its  *)
(* lease revoked by another; and an agent told "granted" is told so only   *)
(* when the credential behind the result is gone.                          *)
LeasesReleased ==
    /\ \A l \in Leases : lease[l] = "live" => l \in failed \/ \E c \in Calls : Holds(c, l)
    /\ \A c \in Calls : call[c].op = "execute" /\ call[c].lease # Nil
                           => lease[call[c].lease] \in {"live", "expired"}
    /\ \A c \in Calls : call[c].op = "done" /\ call[c].answer = "granted"
                           => c \in performed /\ \A l \in Leases :
                                 call[c].lease = l => lease[l] = "revoked"

=============================================================================
