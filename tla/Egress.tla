-------------------------------- MODULE Egress --------------------------------
(***************************************************************************)
(* The egress proxy of the network cell: tickets that open one connection  *)
(* each, to a destination the proxy resolves and judges itself.            *)
(*                                                                         *)
(*   v2/egress-proxy.ts  startEgressProxy, HeadReader                      *)
(*   v2/egress-cell.ts   checkDestinationAddress, checkDestinationHost     *)
(*   v2/network-target-guard.ts  hostMatchesRule                           *)
(*                                                                         *)
(* The listener that reads a client's request head stays on the socket.    *)
(* Whatever arrives after the head is therefore taken for the head again   *)
(* and starts another decision, also when a tunnel is up already.  A       *)
(* decision awaits four times; decisions of one client and of several run  *)
(* interleaved.                                                            *)
(***************************************************************************)
EXTENDS Authority, FiniteSets

CONSTANTS
    Clients,        \* connections from workloads
    Requests,       \* heads: method, target, ticket, and the chunk that ends them
    MaxHead,        \* MAX_HEAD_BYTES, in chunks
    NoTicket, Malformed,
    AllowHosts, AllowedPorts,
    AnswersFor,     \* what each host may resolve to: sets of addresses
    NoAddress,
    Denied,         \* address ranges no cell may reach
    Replay,         \* options.replayStore is configured
    MaxChunks, MaxTime, MaxOutages      \* bounds of the model

VARIABLES
    now,
    request,    \* what each client's head asks for
    client,     \* each client: chunks sent, its socket, what it was refused for
    decision,   \* each client and chunk: the await its decision is at
    used,       \* the replay store: nonces consumed
    outages

vars == <<now, request, client, decision, used, outages>>

Decisions == Clients \X (1..MaxChunks)
Stages == {"none", "verify", "consume", "resolve", "dial", "dialled", "denied"}
Reasons == {"head_too_large", "malformed_request", "unsupported_method", "missing",
            "signature_invalid", "expired", "destination_not_in_ticket",
            "host_not_allowlisted", "port_not_permitted", "replayed",
            "replay_store_unavailable", "resolver_failed",
            "address_not_routable_from_the_cell", "upstream_unreachable"}

Tickets == {r.ticket : r \in Requests} \ {NoTicket}
Addresses == UNION UNION {AnswersFor[h] : h \in DOMAIN AnswersFor}

EgressTypeOK ==
    /\ now \in 0..MaxTime
    /\ request \in [Clients -> Requests]
    /\ client \in [Clients -> [chunks : 0..MaxChunks, state : {"open", "tunnel", "ended", "gone"},
                               refused : SUBSET Reasons]]
    /\ decision \in [Decisions -> [stage : Stages, address : Addresses \cup {NoAddress}]]
    /\ used \subseteq {t.nonce : t \in Tickets}
    /\ outages \in 0..MaxOutages

Init ==
    /\ now = 0
    /\ request \in [Clients -> Requests]
    /\ client = [c \in Clients |-> [chunks |-> 0, state |-> "open", refused |-> {}]]
    /\ decision = [d \in Decisions |-> [stage |-> "none", address |-> NoAddress]]
    /\ used = {}
    /\ outages = 0

-----------------------------------------------------------------------------
(* What is judged *)

HostAllowed(host) == \E rule \in AllowHosts : HostMatchesRule(host, rule)

(* An address is a spelling: `family` and `range` are what isIP and the     *)
(* family's own deny list say of it, `unwraps` the range of the IPv4       *)
(* address embeddedIpv4 finds in it.                                       *)
AddressAllowed(a) ==
    /\ a.family # 0
    /\ a.range \notin Denied
    /\ a.family = 6 /\ a.unwraps # NoAddress => a.unwraps \notin Denied

(* `reaches` is where the kernel sends what is sent there.  embeddedIpv4   *)
(* reads four of the forms an IPv4 address takes inside an IPv6 one; one   *)
(* in another form leads elsewhere than the check reads.                   *)
ReadAsWritten(a) == a.reaches = IF a.unwraps # NoAddress THEN a.unwraps ELSE a.range

Ticket(d) == request[d[1]].ticket
Target(d) == request[d[1]].target

(* The checks between the verification and the replay store. *)
Objection(d) ==
    IF Ticket(d).expires <= now THEN "expired"
    ELSE IF Target(d) \notin Ticket(d).destinations THEN "destination_not_in_ticket"
    ELSE IF ~HostAllowed(Target(d).host) THEN "host_not_allowlisted"
    ELSE IF Target(d).port \notin AllowedPorts THEN "port_not_permitted"
    ELSE "none"

-----------------------------------------------------------------------------
(* A chunk arrives *)

(* reject ends the client's socket, whatever it carries by then. *)
Refused(c, reason) ==
    [client[c] EXCEPT !.state = IF @ = "gone" THEN @ ELSE "ended", !.refused = @ \cup {reason}]

Rejected(c) ==
    IF client[c].chunks >= MaxHead THEN "head_too_large"
    ELSE IF request[c].method # "CONNECT" THEN "unsupported_method"
    ELSE IF request[c].target = Malformed THEN "malformed_request"
    ELSE IF request[c].ticket = NoTicket THEN "missing"
    ELSE "none"

Chunk(c) ==
    /\ client[c].state # "gone" /\ client[c].chunks < MaxChunks
    /\ LET n == client[c].chunks + 1
           r == IF n < request[c].headAt /\ n <= MaxHead THEN "incomplete" ELSE Rejected(c)
       IN  /\ client' = [client EXCEPT
                ![c] = [(IF r \in {"incomplete", "none"} THEN @ ELSE Refused(c, r))
                            EXCEPT !.chunks = n]]
           /\ decision' = IF r = "none" THEN [decision EXCEPT ![<<c, n>>].stage = "verify"]
                          ELSE decision
    /\ UNCHANGED <<now, request, used, outages>>

-----------------------------------------------------------------------------
(* authorise *)

Deny(d, reason) ==
    /\ decision' = [decision EXCEPT ![d].stage = "denied"]
    /\ client' = [client EXCEPT ![d[1]] = Refused(d[1], reason)]

Advance(d, stage) ==
    /\ decision' = [decision EXCEPT ![d].stage = stage]
    /\ UNCHANGED client

Verify(d) ==
    /\ decision[d].stage = "verify"
    /\ IF ~Ticket(d).genuine THEN Deny(d, "signature_invalid")
       ELSE IF Objection(d) # "none" THEN Deny(d, Objection(d))
       ELSE Advance(d, IF Replay THEN "consume" ELSE "resolve")
    /\ UNCHANGED <<now, request, used, outages>>

Consume(d) ==
    /\ decision[d].stage = "consume"
    /\ IF Ticket(d).nonce \in used THEN Deny(d, "replayed") /\ UNCHANGED used
       ELSE Advance(d, "resolve") /\ used' = used \cup {Ticket(d).nonce}
    /\ UNCHANGED <<now, request, outages>>

(* Faulty: no answer from the store is taken for a fresh nonce. *)
ConsumeOutageOpen(d) ==
    /\ decision[d].stage = "consume"
    /\ outages < MaxOutages /\ outages' = outages + 1
    /\ Advance(d, "resolve")
    /\ UNCHANGED <<now, request, used>>

(* The store fails, before or after it took the nonce. *)
ConsumeOutage(d) ==
    /\ decision[d].stage = "consume"
    /\ outages < MaxOutages /\ outages' = outages + 1
    /\ Deny(d, "replay_store_unavailable")
    /\ used' \in {used, used \cup {Ticket(d).nonce}}
    /\ UNCHANGED <<now, request>>

(* Every answer is judged, and the first one is dialled. *)
Resolve(d) ==
    /\ decision[d].stage = "resolve"
    /\ \E answer \in AnswersFor[Target(d).host] :
          IF answer = {} THEN Deny(d, "resolver_failed")
          ELSE IF \E a \in answer : ~AddressAllowed(a)
               THEN Deny(d, "address_not_routable_from_the_cell")
          ELSE \E a \in answer :
                  /\ decision' = [decision EXCEPT ![d] = [stage |-> "dial", address |-> a]]
                  /\ UNCHANGED client
    /\ UNCHANGED <<now, request, used, outages>>

Unreachable(d) ==
    /\ decision[d].stage = "dial"
    /\ Deny(d, "upstream_unreachable")
    /\ UNCHANGED <<now, request, used, outages>>

(* 200, and both sides piped into each other. *)
Dialled(d) ==
    /\ decision[d].stage = "dial"
    /\ decision' = [decision EXCEPT ![d].stage = "dialled"]
    /\ client' = [client EXCEPT ![d[1]].state = IF @ = "open" THEN "tunnel" ELSE @]
    /\ UNCHANGED <<now, request, used, outages>>

Leave(c) ==
    /\ client[c].state # "gone"
    /\ client' = [client EXCEPT ![c].state = "gone"]
    /\ UNCHANGED <<now, request, decision, used, outages>>

Tick ==
    /\ now < MaxTime
    /\ now' = now + 1
    /\ UNCHANGED <<request, client, decision, used, outages>>

Next ==
    \/ \E c \in Clients : Chunk(c) \/ Leave(c)
    \/ \E d \in Decisions :
          \/ Verify(d) \/ Consume(d) \/ ConsumeOutage(d)
          \/ Resolve(d) \/ Unreachable(d) \/ Dialled(d)
    \/ Tick

Spec == Init /\ [][Next]_vars

-----------------------------------------------------------------------------
(* Properties *)

Opened == {d \in Decisions : decision[d].stage = "dialled"}

(* egress-proxy.ts "a signed, single-use, expiring grant naming this exact *)
(* destination": with a replay store a ticket opens at most one connection *)
(* however often its head is judged, on however many sockets, and whatever *)
(* the store's outages leave behind; a connection is opened for a genuine  *)
(* ticket to a destination it names, and reaches no denied range by an     *)
(* address in a form embeddedIpv4 reads.                                   *)
TicketsOpenOnce ==
    /\ Replay => \A d, e \in Opened : Ticket(d).nonce = Ticket(e).nonce => d = e
    /\ \A d \in Opened :
          /\ Ticket(d).genuine /\ Target(d) \in Ticket(d).destinations
          /\ ReadAsWritten(decision[d].address) => decision[d].address.reaches \notin Denied

(* egress-cell.ts "An IPv4 address dressed as IPv6 is judged by the IPv4   *)
(* rules it is actually wearing": whatever form an address came in, the    *)
(* connection opened to it reaches no denied range.  embeddedIpv4 reads    *)
(* fewer forms than there are, which makes this false.                     *)
DressedAreJudged == \A d \in Opened : decision[d].address.reaches \notin Denied

(* egress-proxy.ts "Bytes already read past the head belong to the         *)
(* tunnelled stream, not to the request": a client whose tunnel is up is   *)
(* refused nothing on account of what it sends through it.  The listener   *)
(* that stays on the socket makes this false.                              *)
TunnelsCarry ==
    \A c \in Clients : client[c].state = "ended" => \A d \in Opened : d[1] # c
=============================================================================
