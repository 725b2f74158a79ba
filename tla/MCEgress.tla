------------------------------ MODULE MCEgress ------------------------------
(***************************************************************************)
(* One instance of the theorems about the egress proxy and the capability  *)
(* broker, so that what they assume is evaluated here too.                 *)
(***************************************************************************)
EXTENDS MCBase

VARIABLES
    enow, head, peer, verdict, spent, unanswered,          \* Egress
    brokered, vault, valid, secret, handles, performed, failed, revocations, faults  \* Capability

(* Egress: two connections with one ticket between them, to a host that    *)
(* resolves to public and private addresses, and to private ones inside    *)
(* IPv6 addresses in a form the check reads and in one it does not; heads  *)
(* in one chunk or in two, and a chunk more than the head may take.        *)

CONSTANT HasReplayStore

Api == [host |-> <<"api", "com">>, port |-> 443]
Ssh == [host |-> <<"api", "com">>, port |-> 22]
Apex == [host |-> <<"com">>, port |-> 443]

EgressTicket(nonce, expires, genuine) ==
    [nonce |-> nonce, expires |-> expires, genuine |-> genuine, destinations |-> {Api, Ssh, Apex}]

Connect(target, ticket, at) ==
    [method |-> "CONNECT", target |-> target, ticket |-> ticket, headAt |-> at]

Fresh == EgressTicket("n1", 1, TRUE)

TheHeads ==
    {Connect(Api, Fresh, 1), Connect(Api, Fresh, 2), Connect(Apex, Fresh, 1),
     Connect(Ssh, Fresh, 1),
     Connect(Api, EgressTicket("n1", 1, FALSE), 1), Connect(None, Fresh, 1),
     Connect(Api, None, 1), [Connect(Api, Fresh, 1) EXCEPT !.method = "GET"]}

Address(family, range, unwraps, reaches) ==
    [family |-> family, range |-> range, unwraps |-> unwraps, reaches |-> reaches]
Public   == Address(4, "public", None, "public")
Private  == Address(4, "private", None, "private")
Embedded == Address(6, "public", "private", "private")
Unread   == Address(6, "public", None, "private")

TheHosts == {<<"*", "com">>}
TheAnswers == [h \in {<<"api", "com">>, <<"com">>} |->
                  {{}, {Public}, {Public, Private}, {Embedded}, {Unread}}]

(* Capability: two calls of one agent for one secret and a third out of    *)
(* scope; one revoked client token, one fault.                             *)

Secret(name) == [provider |-> "vault", segments |-> <<"db", name>>]

BrokerCalls == {one, two, "c3"}
TheAgents == [c \in BrokerCalls |-> IF c = "c3" THEN "c" ELSE "b"]
TheGrants == [c \in BrokerCalls |-> IF c = "c3" THEN Secret("w") ELSE Secret("r")]
TheAuthorities == [b |-> {Secret("*")}, c |-> {Secret("r")}]
Vaulted == {Secret("r"), Secret("w")}

X == INSTANCE Egress_proofs WITH
        now <- enow, request <- head, client <- peer, decision <- verdict, used <- spent, outages <- unanswered,
        Clients <- {one, two}, Requests <- TheHeads, MaxHead <- 2, NoTicket <- None,
        Malformed <- None, AllowHosts <- TheHosts, AllowedPorts <- {443},
        AnswersFor <- TheAnswers,
        NoAddress <- None, Denied <- {"private"}, Replay <- HasReplayStore,
        MaxChunks <- 3, MaxTime <- 1, MaxOutages <- 1,
        call <- brokered, lease <- secret,
        Calls <- BrokerCalls, AgentOf <- TheAgents, Authentic <- BrokerCalls,
        GrantOf <- TheGrants, Supported <- Vaulted, AuthorityOf <- TheAuthorities,
        Credentialed <- {one, two}, Leases <- {"l1", "l2"},
        VaultTokens <- {"t1", "t2", "t3"}, Nil <- "nil",
        MaxRevocations <- 1, MaxFaults <- 1

egressVars == <<enow, head, peer, verdict, spent, unanswered>>
capabilityVars == <<brokered, vault, valid, secret, handles, performed, failed, revocations, faults>>

(* Another module is the subject. *)
egressRests ==
    /\ enow = None /\ head = None /\ peer = None /\ verdict = None
    /\ spent = None /\ unanswered = None
capabilityRests ==
    /\ brokered = None /\ vault = None /\ valid = None /\ secret = None
    /\ handles = None /\ performed = None /\ failed = None /\ revocations = None
    /\ faults = None

(* What the theorems about the two modules assume. *)
EgressHypotheses ==
    /\ X!AddressesWellFormed /\ X!HostsResolve /\ X!HostsAreNames
    /\ X!EgressBounds /\ X!LeasesAreNamed /\ X!VaultBounds
=============================================================================
