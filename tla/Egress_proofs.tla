---------------------------- MODULE Egress_proofs -----------------------------
(***************************************************************************)
(* For every set of clients, heads, tickets and addresses, and without the *)
(* bounds of the model: a ticket opens one connection, to a destination it *)
(* names and to no denied range by an address in a form the check reads.   *)
(*                                                                         *)
(* At the end, for any calls and leases: the broker gives every credential *)
(* back (Capability).                                                      *)
(***************************************************************************)
EXTENDS Egress, SequenceTheorems, TLAPS

(* Only an IPv6 address has an IPv4 one inside (v2/egress-cell.ts).        *)
AddressesWellFormed ==
    \A h \in DOMAIN AnswersFor : \A answer \in AnswersFor[h] : \A a \in answer :
        a.family \in {0, 4, 6} /\ (a.family # 6 => a.unwraps = NoAddress)

(* The hosts tickets name are those the resolver is asked about.           *)
HostsResolve ==
    \A r \in Requests :
        r.ticket # NoTicket /\ r.target \in r.ticket.destinations
            => r.target.host \in DOMAIN AnswersFor

-----------------------------------------------------------------------------
(* The stages of a decision that found the ticket good, and those of one   *)
(* that consumed its nonce.                                                *)
Approved == {"consume", "resolve", "dial", "dialled"}
Admitted == {"resolve", "dial", "dialled"}

DecisionsAreRecords ==
    decision \in [Decisions -> [stage : Stages, address : Addresses \cup {NoAddress}]]

TicketsPresented ==
    /\ request \in [Clients -> Requests]
    /\ \A d \in Decisions : decision[d].stage # "none" => Ticket(d) # NoTicket

ApprovedAreGood ==
    \A d \in Decisions : decision[d].stage \in Approved =>
        /\ Ticket(d).genuine /\ Target(d) \in Ticket(d).destinations
        /\ HostAllowed(Target(d).host) /\ Target(d).port \in AllowedPorts

AdmittedConsumed ==
    Replay => \A d \in Decisions : decision[d].stage \in Admitted => Ticket(d).nonce \in used

AdmittedOnce ==
    Replay => \A d, e \in Decisions :
        decision[d].stage \in Admitted /\ decision[e].stage \in Admitted
            /\ Ticket(d).nonce = Ticket(e).nonce => d = e

DialledAllowed ==
    \A d \in Decisions :
        decision[d].stage \in {"dial", "dialled"} /\ ReadAsWritten(decision[d].address)
            => decision[d].address.reaches \notin Denied

EgressInv ==
    /\ DecisionsAreRecords /\ TicketsPresented /\ ApprovedAreGood
    /\ AdmittedConsumed /\ AdmittedOnce /\ DialledAllowed

(* An address the proxy lets pass, in a form it reads, leads nowhere it     *)
(* should not.                                                             *)
LEMMA AllowedReaches ==
    ASSUME NEW a, a.family \in {0, 4, 6}, a.family # 6 => a.unwraps = NoAddress,
           AddressAllowed(a), ReadAsWritten(a)
    PROVE  a.reaches \notin Denied
BY DEF AddressAllowed, ReadAsWritten

(* Whatever changes nothing the invariant is about, or only takes one      *)
(* decision back from what it had reached, keeps it.                       *)
LEMMA Withdrawn ==
    ASSUME EgressInv, NEW d \in Decisions, NEW stage \in Stages \ Approved,
           decision[d].stage # "none" \/ Ticket(d) # NoTicket,
           decision' = [decision EXCEPT ![d].stage = stage],
           request' = request, used \subseteq used'
    PROVE  EgressInv'
<1>1. DecisionsAreRecords'
  BY DEF EgressInv, DecisionsAreRecords
<1>2. \A e \in Decisions : decision'[e].stage \in Approved => decision'[e] = decision[e]
  BY DEF EgressInv, DecisionsAreRecords
<1>3. \A e \in Decisions : Ticket(e)' = Ticket(e) /\ Target(e)' = Target(e)
  BY DEF Ticket, Target
<1>8. TicketsPresented'
  BY <1>3 DEF EgressInv, DecisionsAreRecords, TicketsPresented
<1>4. ApprovedAreGood'
  BY <1>2, <1>3 DEF EgressInv, ApprovedAreGood
<1>5. AdmittedConsumed'
  BY <1>2, <1>3 DEF EgressInv, AdmittedConsumed, Admitted, Approved
<1>6. AdmittedOnce'
  BY <1>2, <1>3 DEF EgressInv, AdmittedOnce, Admitted, Approved
<1>7. DialledAllowed'
  BY <1>2 DEF EgressInv, DialledAllowed, Approved, ReadAsWritten
<1> QED
  BY <1>1, <1>4, <1>5, <1>6, <1>7, <1>8 DEF EgressInv

(* A denial takes the decision back and admits nothing. *)
LEMMA DenyKeeps ==
    ASSUME EgressInv, NEW d \in Decisions, decision[d].stage # "none",
           NEW reason, Deny(d, reason),
           request' = request, used \subseteq used'
    PROVE  EgressInv'
<1>1. "denied" \in Stages \ Approved
  BY DEF Stages, Approved
<1> QED
  BY <1>1, Withdrawn DEF Deny

(* At the start nothing is presented, consumed or dialled. *)
LEMMA InitEstablishes == Init => EgressInv
BY DEF Init, EgressInv, DecisionsAreRecords, TicketsPresented, ApprovedAreGood,
   AdmittedConsumed, AdmittedOnce,
       DialledAllowed, Approved, Admitted, Stages

(* Steps of the clock and of the sidecar leave the proxy as it was. *)
LEMMA Untouched ==
    ASSUME EgressInv, UNCHANGED <<decision, request, used>>
    PROVE  EgressInv'
BY DEF EgressInv, DecisionsAreRecords, TicketsPresented, ApprovedAreGood, AdmittedConsumed,
       AdmittedOnce, DialledAllowed, Ticket, Target, ReadAsWritten

(* Only a ticket that names the destination presented passes verification. *)
LEMMA VerifyKeeps ==
    ASSUME EgressInv, NEW d \in Decisions, Verify(d)
    PROVE  EgressInv'
<1>1. CASE ~Ticket(d).genuine \/ Objection(d) # "none"
  BY <1>1, DenyKeeps DEF Verify
<1>2. CASE Ticket(d).genuine /\ Objection(d) = "none"
  <2> DEFINE next == IF Replay THEN "consume" ELSE "resolve"
  <2>1. decision' = [decision EXCEPT ![d].stage = next] /\ request' = request /\ used' = used
    BY <1>2 DEF Verify, Advance
  <2>2. /\ Target(d) \in Ticket(d).destinations
        /\ HostAllowed(Target(d).host) /\ Target(d).port \in AllowedPorts
    BY <1>2 DEF Objection
  <2>3. \A e \in Decisions : Ticket(e)' = Ticket(e) /\ Target(e)' = Target(e)
    BY <2>1 DEF Ticket, Target
  <2>4. DecisionsAreRecords'
    BY <2>1 DEF EgressInv, DecisionsAreRecords, Stages
  <2>5. \A e \in Decisions : /\ decision'[e].stage = (IF e = d THEN next ELSE decision[e].stage)
                             /\ decision'[e].address = decision[e].address
    BY <2>1 DEF EgressInv, DecisionsAreRecords
  <2>6. ApprovedAreGood'
    BY <1>2, <2>2, <2>3, <2>5 DEF EgressInv, ApprovedAreGood
  <2>7. AdmittedConsumed' /\ AdmittedOnce'
    BY <2>1, <2>3, <2>5 DEF EgressInv, AdmittedConsumed, AdmittedOnce, Admitted
  <2>8. DialledAllowed'
    BY <2>5 DEF EgressInv, DialledAllowed, ReadAsWritten
  <2>9. TicketsPresented'
    BY <2>1, <2>3 DEF EgressInv, DecisionsAreRecords, TicketsPresented, Verify
  <2> QED
    BY <2>4, <2>6, <2>7, <2>8, <2>9 DEF EgressInv
<1> QED
  BY <1>1, <1>2 DEF Verify

(* A decision goes on only with a nonce nobody had consumed before it. *)
LEMMA ConsumeKeeps ==
    ASSUME EgressInv, NEW d \in Decisions, Consume(d)
    PROVE  EgressInv'
<1>1. CASE Ticket(d).nonce \in used
  BY <1>1, DenyKeeps DEF Consume
<1>2. CASE Ticket(d).nonce \notin used
  <2>1. /\ decision' = [decision EXCEPT ![d].stage = "resolve"]
        /\ request' = request /\ used' = used \cup {Ticket(d).nonce}
    BY <1>2 DEF Consume, Advance
  <2>2. \A e \in Decisions : Ticket(e)' = Ticket(e) /\ Target(e)' = Target(e)
    BY <2>1 DEF Ticket, Target
  <2>3. DecisionsAreRecords'
    BY <2>1 DEF EgressInv, DecisionsAreRecords, Stages
  <2>4. \A e \in Decisions :
          /\ decision'[e].stage = (IF e = d THEN "resolve" ELSE decision[e].stage)
          /\ decision'[e].address = decision[e].address
    BY <2>1 DEF EgressInv, DecisionsAreRecords
  <2>5. ApprovedAreGood'
    BY <2>2, <2>4 DEF EgressInv, ApprovedAreGood, Consume, Approved
  <2>6. AdmittedConsumed'
    BY <2>1, <2>2, <2>4 DEF EgressInv, AdmittedConsumed, Admitted
  <2>7. AdmittedOnce'
    BY <1>2, <2>2, <2>4 DEF EgressInv, AdmittedOnce, AdmittedConsumed, Admitted
  <2>8. DialledAllowed'
    BY <2>4 DEF EgressInv, DialledAllowed, ReadAsWritten
  <2>9. TicketsPresented'
    BY <2>1, <2>2 DEF EgressInv, DecisionsAreRecords, TicketsPresented, Consume
  <2> QED
    BY <2>3, <2>5, <2>6, <2>7, <2>8, <2>9 DEF EgressInv
<1> QED
  BY <1>1, <1>2

(* Resolution admits a decision only for addresses that are not denied. *)
LEMMA ResolveKeeps ==
    ASSUME AddressesWellFormed, HostsResolve, EgressInv, NEW d \in Decisions, Resolve(d)
    PROVE  EgressInv'
<1>5. Target(d).host \in DOMAIN AnswersFor
  <2>1. decision[d].stage = "resolve" /\ d[1] \in Clients
    BY DEF Resolve, Decisions
  <2>2. Ticket(d) # NoTicket /\ Target(d) \in Ticket(d).destinations
    BY <2>1 DEF EgressInv, TicketsPresented, ApprovedAreGood, Approved
  <2> QED
    BY <2>1, <2>2 DEF EgressInv, TicketsPresented, HostsResolve, Ticket, Target
<1>1. PICK answer \in AnswersFor[Target(d).host] :
          IF answer = {} THEN Deny(d, "resolver_failed")
          ELSE IF \E a \in answer : ~AddressAllowed(a)
               THEN Deny(d, "address_not_routable_from_the_cell")
          ELSE \E a \in answer :
                  /\ decision' = [decision EXCEPT ![d] = [stage |-> "dial", address |-> a]]
                  /\ UNCHANGED client
  BY DEF Resolve
<1>2. request' = request /\ used' = used
  BY DEF Resolve
<1>3. CASE answer = {} \/ \E a \in answer : ~AddressAllowed(a)
  BY <1>1, <1>2, <1>3, DenyKeeps DEF Resolve
<1>4. CASE answer # {} /\ \A a \in answer : AddressAllowed(a)
  <2>1. PICK a \in answer : decision' = [decision EXCEPT ![d] = [stage |-> "dial", address |-> a]]
    BY <1>1, <1>4
  <2>2. ReadAsWritten(a) => a.reaches \notin Denied
    BY <1>4, <1>5, AllowedReaches DEF AddressesWellFormed
  <2>3. a \in Addresses
    BY <1>5 DEF Addresses
  <2>4. \A e \in Decisions : Ticket(e)' = Ticket(e) /\ Target(e)' = Target(e)
    BY <1>2 DEF Ticket, Target
  <2>5. DecisionsAreRecords'
    BY <2>1, <2>3 DEF EgressInv, DecisionsAreRecords, Stages
  <2>6. decision'[d] = [stage |-> "dial", address |-> a]
        /\ \A e \in Decisions \ {d} : decision'[e] = decision[e]
    BY <2>1 DEF EgressInv, DecisionsAreRecords
  <2>7. decision[d].stage = "resolve"
    BY DEF Resolve
  <2>8. ApprovedAreGood'
    BY <2>4, <2>6, <2>7 DEF EgressInv, ApprovedAreGood, Approved
  <2>9. AdmittedConsumed' /\ AdmittedOnce'
    BY <1>2, <2>4, <2>6, <2>7 DEF EgressInv, AdmittedConsumed, AdmittedOnce, Admitted
  <2>10. DialledAllowed'
    BY <2>2, <2>6 DEF EgressInv, DialledAllowed, ReadAsWritten
  <2>11. TicketsPresented'
    BY <1>2, <2>4, <2>6, <2>7 DEF EgressInv, TicketsPresented
  <2> QED
    BY <2>5, <2>8, <2>9, <2>10, <2>11 DEF EgressInv
<1> QED
  BY <1>3, <1>4

(* Dialling an address already chosen, or failing to, admits no one else. *)
LEMMA DialledKeeps ==
    ASSUME EgressInv, NEW d \in Decisions, Dialled(d)
    PROVE  EgressInv'
<1>1. /\ decision[d].stage = "dial" /\ decision' = [decision EXCEPT ![d].stage = "dialled"]
      /\ request' = request /\ used' = used
  BY DEF Dialled
<1>2. \A e \in Decisions : Ticket(e)' = Ticket(e) /\ Target(e)' = Target(e)
  BY <1>1 DEF Ticket, Target
<1>3. DecisionsAreRecords'
  BY <1>1 DEF EgressInv, DecisionsAreRecords, Stages
<1>4. \A e \in Decisions :
        /\ decision'[e].stage = (IF e = d THEN "dialled" ELSE decision[e].stage)
        /\ decision'[e].address = decision[e].address
  BY <1>1 DEF EgressInv, DecisionsAreRecords
<1>5. TicketsPresented' /\ ApprovedAreGood'
  BY <1>1, <1>2, <1>4 DEF EgressInv, TicketsPresented, ApprovedAreGood, Approved
<1>6. AdmittedConsumed' /\ AdmittedOnce'
  BY <1>1, <1>2, <1>4 DEF EgressInv, AdmittedConsumed, AdmittedOnce, Admitted
<1>7. DialledAllowed'
  BY <1>1, <1>4 DEF EgressInv, DialledAllowed, ReadAsWritten
<1> QED
  BY <1>3, <1>5, <1>6, <1>7 DEF EgressInv

(* A head judged again starts its decision over; what had come of it is    *)
(* withdrawn, and the nonce stays consumed.                                *)
LEMMA ChunkKeeps ==
    ASSUME EgressInv, NEW c \in Clients, Chunk(c)
    PROVE  EgressInv'
<1>1. request' = request /\ used' = used
  BY DEF Chunk
<1>2. CASE decision' = decision
  BY <1>1, <1>2, Untouched
<1>3. CASE decision' # decision
  <2> DEFINE d == <<c, client[c].chunks + 1>>
  <2>1. decision' = [decision EXCEPT ![d].stage = "verify"] /\ Rejected(c) = "none"
    BY <1>3 DEF Chunk
  <2>2. request[c].ticket # NoTicket
    BY <2>1 DEF Rejected
  <2>3. CASE d \in Decisions
    <3>1. "verify" \in Stages \ Approved
      BY DEF Stages, Approved
    <3>2. Ticket(d) # NoTicket
      BY <2>2 DEF Ticket
    <3> QED
      BY <1>1, <2>1, <2>3, <3>1, <3>2, Withdrawn
  <2>4. CASE d \notin Decisions
    <3>1. decision' = decision
      BY <2>1, <2>4 DEF EgressInv, DecisionsAreRecords
    <3> QED
      BY <1>3, <3>1
  <2> QED
    BY <2>3, <2>4
<1> QED
  BY <1>2, <1>3

(* Every step keeps the invariant. *)
LEMMA NextKeeps ==
    ASSUME AddressesWellFormed, HostsResolve, EgressInv, [Next]_vars
    PROVE  EgressInv'
<1>1. ASSUME NEW c \in Clients, Chunk(c) PROVE EgressInv'
  BY <1>1, ChunkKeeps
<1>2. ASSUME NEW c \in Clients, Leave(c) PROVE EgressInv'
  BY <1>2, Untouched DEF Leave
<1>3. ASSUME NEW d \in Decisions, Verify(d) PROVE EgressInv'
  BY <1>3, VerifyKeeps
<1>4. ASSUME NEW d \in Decisions, Consume(d) PROVE EgressInv'
  BY <1>4, ConsumeKeeps
<1>5. ASSUME NEW d \in Decisions, ConsumeOutage(d) PROVE EgressInv'
  BY <1>5, DenyKeeps DEF ConsumeOutage
<1>6. ASSUME NEW d \in Decisions, Resolve(d) PROVE EgressInv'
  BY <1>6, ResolveKeeps
<1>7. ASSUME NEW d \in Decisions, Unreachable(d) PROVE EgressInv'
  BY <1>7, DenyKeeps DEF Unreachable
<1>8. ASSUME NEW d \in Decisions, Dialled(d) PROVE EgressInv'
  BY <1>8, DialledKeeps
<1>9. CASE Tick
  BY <1>9, Untouched DEF Tick
<1>10. CASE UNCHANGED vars
  BY <1>10, Untouched DEF vars
<1> QED
  BY <1>1, <1>2, <1>3, <1>4, <1>5, <1>6, <1>7, <1>8, <1>9, <1>10 DEF Next

(* startEgressProxy: a ticket opens at most one connection, only to a      *)
(* destination it names, and to no denied range by an address in a form    *)
(* the check reads.                                                        *)
THEOREM TicketsAreSpentOnce ==
    ASSUME AddressesWellFormed, HostsResolve
    PROVE  Spec => []TicketsOpenOnce
<1>1. EgressInv => TicketsOpenOnce
  BY DEF EgressInv, AdmittedOnce, ApprovedAreGood, DialledAllowed, TicketsOpenOnce, Opened,
         Approved, Admitted
<1>2. EgressInv /\ [Next]_vars => EgressInv'
  BY NextKeeps
<1> QED
  BY <1>1, <1>2, InitEstablishes, PTL DEF Spec

-----------------------------------------------------------------------------
(* The rules that name hosts *)

(* v2/network-target-guard.ts: `*.` before a name stands for one label at   *)
(* least, and any other rule for itself alone.                             *)
THEOREM RulesAreSuffixes ==
    ASSUME NEW host \in Seq(STRING), NEW rule \in Seq(STRING), rule # <<>>
    PROVE  HostMatchesRule(host, rule) <=>
             \/ rule[1] # "*" /\ host = rule
             \/ rule[1] = "*" /\ \E labels \in Seq(STRING) \ {<<>>} : host = labels \o Tail(rule)
<1>1. Len(rule) \in Nat \ {0} /\ Len(host) \in Nat
  BY EmptySeq
<1>2. Tail(rule) \in Seq(STRING) /\ Len(Tail(rule)) = Len(rule) - 1
      /\ \A i \in 1..(Len(rule) - 1) : Tail(rule)[i] = rule[i + 1]
  BY HeadTailProperties
<1>3. ASSUME rule[1] = "*", HostMatchesRule(host, rule)
      PROVE  \E labels \in Seq(STRING) \ {<<>>} : host = labels \o Tail(rule)
  <2> DEFINE n == Len(host) - Len(rule) + 1
             labels == SubSeq(host, 1, n)
  <2>1. n \in 1..Len(host)
    BY <1>1, <1>3 DEF HostMatchesRule
  <2>2. labels \in Seq(STRING) /\ Len(labels) = n /\ \A i \in 1..n : labels[i] = host[i]
    BY <2>1, SubSeqProperties
  <2>3. \A i \in 0..(Len(rule) - 2) : host[Len(host) - i] = rule[Len(rule) - i]
    BY <1>3 DEF HostMatchesRule
  <2>4. ASSUME NEW i \in 1..(Len(rule) - 1) PROVE host[n + i] = rule[i + 1]
    <3>1. Len(rule) - 1 - i \in 0..(Len(rule) - 2)
      BY <1>1
    <3>2. Len(host) - (Len(rule) - 1 - i) = n + i /\ Len(rule) - (Len(rule) - 1 - i) = i + 1
      BY <1>1
    <3> QED
      BY <2>3, <3>1, <3>2
  <2> HIDE DEF labels
  <2>5. /\ labels \o Tail(rule) \in Seq(STRING) /\ Len(labels \o Tail(rule)) = Len(host)
    BY <1>1, <1>2, <2>2, ConcatProperties
  <2>6. ASSUME NEW i \in 1..Len(host) PROVE host[i] = (labels \o Tail(rule))[i]
    <3>1. CASE i <= n
      BY <1>2, <2>1, <2>2, <3>1, ConcatProperties
    <3>2. CASE i > n
      <4>1. i - n \in 1..(Len(rule) - 1) /\ n + (i - n) = i
        BY <1>1, <2>1, <3>2
      <4>2. (labels \o Tail(rule))[i] = Tail(rule)[i - n]
        BY <1>2, <2>1, <2>2, <3>2, <4>1, ConcatProperties
      <4> QED
        BY <1>2, <2>4, <4>1, <4>2
    <3>3. i <= n \/ i > n
      BY <1>1
    <3> QED
      BY <3>1, <3>2, <3>3
  <2>7. host = labels \o Tail(rule)
    BY <2>5, <2>6, SeqEqual
  <2>8. labels # <<>>
    BY <2>1, <2>2
  <2> QED
    BY <2>2, <2>7, <2>8
<1>4. ASSUME rule[1] = "*", NEW labels \in Seq(STRING) \ {<<>>}, host = labels \o Tail(rule)
      PROVE  HostMatchesRule(host, rule)
  <2>1. Len(labels) \in Nat \ {0} /\ Len(host) = Len(labels) + Len(rule) - 1
    BY <1>1, <1>2, <1>4, ConcatProperties, EmptySeq
  <2>2. ASSUME NEW i \in 0..(Len(rule) - 2) PROVE host[Len(host) - i] = rule[Len(rule) - i]
    <3>1. Len(host) - i \in (Len(labels) + 1)..(Len(labels) + Len(Tail(rule)))
      BY <1>1, <1>2, <2>1
    <3>2. host[Len(host) - i] = Tail(rule)[Len(host) - i - Len(labels)]
      BY <1>2, <1>4, <2>1, <3>1, ConcatProperties
    <3>3. Len(host) - i - Len(labels) = Len(rule) - 1 - i /\ Len(rule) - 1 - i \in 1..(Len(rule) - 1)
      BY <1>1, <2>1
    <3>4. Tail(rule)[Len(rule) - 1 - i] = rule[Len(rule) - i]
      BY <1>1, <1>2, <3>3
    <3> QED
      BY <3>2, <3>3, <3>4
  <2> QED
    BY <1>1, <1>4, <2>1, <2>2 DEF HostMatchesRule
<1> QED
  BY <1>3, <1>4 DEF HostMatchesRule

(* Rules and the hosts tickets name are names. *)
HostsAreNames ==
    /\ \A rule \in AllowHosts : rule \in Seq(STRING) /\ rule # <<>>
    /\ \A r \in Requests :
          r.ticket # NoTicket /\ r.target \in r.ticket.destinations
              => r.target.host \in Seq(STRING)

(* A host is on the list itself, or under a name whose hosts are. *)
Listed(host) ==
    \E rule \in AllowHosts :
        \/ rule[1] # "*" /\ host = rule
        \/ rule[1] = "*" /\ \E labels \in Seq(STRING) \ {<<>>} : host = labels \o Tail(rule)

TunnelsListed ==
    \A d \in Opened : Listed(Target(d).host) /\ Target(d).port \in AllowedPorts

(* startEgressProxy: every connection opened goes to a port that is allowed *)
(* and to a host that is on the list or under a name on it, whatever a     *)
(* ticket names.                                                           *)
THEOREM TunnelsStayOnTheList ==
    ASSUME AddressesWellFormed, HostsResolve, HostsAreNames
    PROVE  Spec => []TunnelsListed
<1>1. ASSUME EgressInv PROVE TunnelsListed
  <2>1. SUFFICES ASSUME NEW d \in Opened
                 PROVE  Listed(Target(d).host) /\ Target(d).port \in AllowedPorts
    BY DEF TunnelsListed
  <2>2. /\ d \in Decisions /\ d[1] \in Clients /\ decision[d].stage \in Approved
        /\ decision[d].stage # "none"
    BY DEF Opened, Approved, Decisions
  <2>3. /\ Target(d) \in Ticket(d).destinations
        /\ HostAllowed(Target(d).host) /\ Target(d).port \in AllowedPorts
    BY <1>1, <2>2 DEF EgressInv, ApprovedAreGood
  <2>4. Target(d).host \in Seq(STRING)
    <3>1. request[d[1]] \in Requests /\ Ticket(d) # NoTicket
      BY <1>1, <2>2 DEF EgressInv, TicketsPresented
    <3> QED
      BY <2>3, <3>1 DEF HostsAreNames, Ticket, Target
  <2>5. PICK rule \in AllowHosts : HostMatchesRule(Target(d).host, rule)
    BY <2>3 DEF HostAllowed
  <2>6. rule \in Seq(STRING) /\ rule # <<>>
    BY DEF HostsAreNames
  <2> QED
    BY <2>3, <2>4, <2>5, <2>6, RulesAreSuffixes DEF Listed
<1>2. EgressInv /\ [Next]_vars => EgressInv'
  BY NextKeeps
<1> QED
  BY <1>1, <1>2, InitEstablishes, PTL DEF Spec

-----------------------------------------------------------------------------
(* The bounds of the model are numbers. *)
EgressBounds == MaxTime \in Nat /\ MaxChunks \in Nat /\ MaxOutages \in Nat

AClient == [chunks : 0..MaxChunks, state : {"open", "tunnel", "ended", "gone"},
            refused : SUBSET Reasons]
ADecision == [stage : Stages, address : Addresses \cup {NoAddress}]

(* Whatever a client is refused for, it stays a client. *)
LEMMA RefusedTyped ==
    ASSUME EgressTypeOK, NEW c \in Clients, NEW reason \in Reasons
    PROVE  Refused(c, reason) \in AClient
<1>1. client[c] \in AClient
  BY DEF EgressTypeOK, AClient
<1> QED
  BY <1>1 DEF Refused, AClient

LEMMA DenyTyped ==
    ASSUME EgressTypeOK, NEW d \in Decisions, NEW reason \in Reasons, Deny(d, reason),
           UNCHANGED <<now, request>>, used' \subseteq {t.nonce : t \in Tickets},
           outages' \in 0..MaxOutages
    PROVE  EgressTypeOK'
<1>1. d[1] \in Clients
  BY DEF Decisions
<1>2. client' \in [Clients -> AClient]
  BY <1>1, RefusedTyped DEF Deny, EgressTypeOK, AClient
<1>3. decision' \in [Decisions -> ADecision]
  BY DEF Deny, EgressTypeOK, ADecision, Stages
<1> QED
  BY <1>2, <1>3 DEF EgressTypeOK, AClient, ADecision

(* A ticket in hand was presented, so its nonce is one the store may take. *)
LEMMA NonceTyped ==
    ASSUME EgressInv, NEW d \in Decisions, decision[d].stage # "none"
    PROVE  Ticket(d).nonce \in {t.nonce : t \in Tickets}
<1>1. request[d[1]] \in Requests
  BY DEF EgressInv, TicketsPresented, Decisions
<1>2. Ticket(d) # NoTicket
  BY DEF EgressInv, TicketsPresented
<1> QED
  BY <1>1, <1>2 DEF Ticket, Tickets

LEMMA AdvanceTyped ==
    ASSUME EgressTypeOK, NEW d \in Decisions, NEW stage \in Stages, Advance(d, stage),
           UNCHANGED <<now, request>>, used' \subseteq {t.nonce : t \in Tickets},
           outages' \in 0..MaxOutages
    PROVE  EgressTypeOK'
BY DEF Advance, EgressTypeOK

LEMMA ChunkTyped ==
    ASSUME EgressBounds, EgressTypeOK, NEW c \in Clients, Chunk(c)
    PROVE  EgressTypeOK'
<1> DEFINE n == client[c].chunks + 1
           r == IF n < request[c].headAt /\ n <= MaxHead THEN "incomplete" ELSE Rejected(c)
           base == IF r \in {"incomplete", "none"} THEN client[c] ELSE Refused(c, r)
<1>1. r \in {"incomplete", "none"} \cup Reasons
  BY DEF Rejected, Reasons
<1>2. client[c] \in AClient /\ n \in 1..MaxChunks
  BY DEF EgressTypeOK, AClient, Chunk, EgressBounds
<1>3. base \in AClient
  BY <1>1, <1>2, RefusedTyped
<1>4. client' = [client EXCEPT ![c] = [base EXCEPT !.chunks = n]]
  BY DEF Chunk
<1>5. [base EXCEPT !.chunks = n] \in AClient
  BY <1>2, <1>3 DEF AClient
<1>6. client' \in [Clients -> AClient]
  BY <1>4, <1>5 DEF EgressTypeOK, AClient
<1>7. decision' = decision \/ decision' = [decision EXCEPT ![<<c, n>>].stage = "verify"]
  BY DEF Chunk
<1>8. decision' \in [Decisions -> ADecision]
  <2> HIDE DEF n
  <2>1. <<c, n>> \in Decisions
    BY <1>2 DEF Decisions
  <2> QED
    BY <1>7, <2>1 DEF EgressTypeOK, ADecision, Stages
<1> QED
  BY <1>6, <1>8 DEF Chunk, EgressTypeOK, AClient, ADecision

LEMMA DecisionTyped ==
    ASSUME EgressBounds, HostsResolve, EgressInv, EgressTypeOK, NEW d \in Decisions,
           \/ Verify(d) \/ Consume(d) \/ ConsumeOutage(d)
           \/ Resolve(d) \/ Unreachable(d) \/ Dialled(d)
    PROVE  EgressTypeOK'
<1> USE DEF Reasons
<1>1. CASE Verify(d)
  <2>1. Objection(d) \in Reasons \cup {"none"}
    BY DEF Objection
  <2>2. used \subseteq {t.nonce : t \in Tickets} /\ outages \in 0..MaxOutages
    BY DEF EgressTypeOK
  <2>3. {"consume", "resolve"} \subseteq Stages /\ "signature_invalid" \in Reasons
    BY DEF Stages
  <2> HIDE DEF Reasons
  <2> QED
    BY <1>1, <2>1, <2>2, <2>3, DenyTyped, AdvanceTyped DEF Verify
<1>2. CASE Consume(d) \/ ConsumeOutage(d)
  <2>1. used' \subseteq {t.nonce : t \in Tickets}
    BY <1>2, NonceTyped DEF Consume, ConsumeOutage, EgressTypeOK
  <2>2. outages' \in 0..MaxOutages
    BY <1>2 DEF Consume, ConsumeOutage, EgressTypeOK, EgressBounds
  <2>3. UNCHANGED <<now, request>>
    BY <1>2 DEF Consume, ConsumeOutage
  <2>4. {"resolve"} \subseteq Stages /\ {"replayed", "replay_store_unavailable"} \subseteq Reasons
    BY DEF Stages
  <2>5. Deny(d, "replayed") \/ Deny(d, "replay_store_unavailable") \/ Advance(d, "resolve")
    BY <1>2 DEF Consume, ConsumeOutage
  <2> HIDE DEF Reasons
  <2> QED
    BY <2>1, <2>2, <2>3, <2>4, <2>5, DenyTyped, AdvanceTyped
<1>3. CASE Resolve(d)
  <2>0. decision[d].stage = "resolve"
    BY <1>3 DEF Resolve
  <2>1. request[d[1]] \in Requests /\ Ticket(d) # NoTicket /\ Target(d) \in Ticket(d).destinations
    BY <2>0 DEF EgressInv, TicketsPresented, ApprovedAreGood, Decisions, Approved
  <2>2. Target(d).host \in DOMAIN AnswersFor
    BY <2>1 DEF HostsResolve, Ticket, Target
  <2>3. PICK answer \in AnswersFor[Target(d).host] :
           \/ Deny(d, "resolver_failed")
           \/ Deny(d, "address_not_routable_from_the_cell")
           \/ \E a \in answer :
                 /\ decision' = [decision EXCEPT ![d] = [stage |-> "dial", address |-> a]]
                 /\ UNCHANGED client
    BY <1>3 DEF Resolve
  <2>4. answer \subseteq Addresses
    BY <2>2 DEF Addresses
  <2>5. UNCHANGED <<now, request, used, outages>>
    BY <1>3 DEF Resolve
  <2>6. used' \subseteq {t.nonce : t \in Tickets} /\ outages' \in 0..MaxOutages
    BY <2>5 DEF EgressTypeOK
  <2>7. CASE Deny(d, "resolver_failed") \/ Deny(d, "address_not_routable_from_the_cell")
    BY <2>5, <2>6, <2>7, DenyTyped
  <2>8. ASSUME NEW a \in answer,
               decision' = [decision EXCEPT ![d] = [stage |-> "dial", address |-> a]],
               UNCHANGED client
        PROVE  EgressTypeOK'
    BY <2>4, <2>5, <2>8 DEF EgressTypeOK, Stages
  <2> QED
    BY <2>3, <2>7, <2>8
<1>4. CASE Unreachable(d)
  BY <1>4, DenyTyped DEF Unreachable, EgressTypeOK
<1>5. CASE Dialled(d)
  <2>1. d[1] \in Clients
    BY DEF Decisions
  <2>2. PICK s \in {"open", "tunnel", "ended", "gone"} :
           client' = [client EXCEPT ![d[1]] = [client[d[1]] EXCEPT !.state = s]]
    BY <1>5, <2>1 DEF Dialled, EgressTypeOK
  <2>3. client' \in [Clients -> AClient]
    BY <2>1, <2>2 DEF EgressTypeOK, AClient
  <2>4. decision' \in [Decisions -> ADecision]
    BY <1>5 DEF Dialled, EgressTypeOK, ADecision, Stages
  <2> QED
    BY <1>5, <2>3, <2>4 DEF Dialled, EgressTypeOK, AClient, ADecision
<1> QED
  BY <1>1, <1>2, <1>3, <1>4, <1>5

(* Every variable of the proxy keeps its type, whatever clients send. *)
THEOREM EgressTyped ==
    ASSUME EgressBounds, AddressesWellFormed, HostsResolve
    PROVE  Spec => []EgressTypeOK
<1>1. Init => EgressTypeOK
  BY DEF Init, EgressTypeOK, EgressBounds, Stages, Reasons
<1>2. EgressInv /\ EgressTypeOK /\ [Next]_vars => EgressTypeOK'
  <2> SUFFICES ASSUME EgressInv, EgressTypeOK, [Next]_vars PROVE EgressTypeOK'
    OBVIOUS
  <2>1. ASSUME NEW c \in Clients, Chunk(c) PROVE EgressTypeOK'
    BY <2>1, ChunkTyped
  <2>2. ASSUME NEW c \in Clients, Leave(c) PROVE EgressTypeOK'
    BY <2>2 DEF Leave, EgressTypeOK
  <2>3. CASE Tick
    BY <2>3 DEF Tick, EgressTypeOK, EgressBounds
  <2>4. CASE UNCHANGED vars
    BY <2>4 DEF vars, EgressTypeOK
  <2> QED
    BY <2>1, <2>2, <2>3, <2>4, DecisionTyped DEF Next
<1>3. EgressInv /\ [Next]_vars => EgressInv'
  BY NextKeeps
<1> QED
  BY <1>1, <1>2, <1>3, InitEstablishes, PTL DEF Spec

-----------------------------------------------------------------------------
(***************************************************************************)
(* The credentials behind what leaves (Capability): a lease is given back on *)
(* every path out of grant.                                                *)
(***************************************************************************)
CONSTANTS Calls, AgentOf, Authentic, GrantOf, Supported, AuthorityOf, Credentialed, Leases,
          VaultTokens, Nil, MaxRevocations, MaxFaults
VARIABLES call, vault, valid, lease, handles, performed, failed, revocations, faults

V == INSTANCE Capability WITH client <- vault

-----------------------------------------------------------------------------
(* What a call may carry, and what is true of its lease, at each await. *)
CallRecords ==
    [op : {"idle", "read", "execute", "revoke", "done"}, stage : V!Stages,
     token : VaultTokens \cup {Nil}, lease : Leases \cup {Nil},
     answer : V!Answers \cup {"none", "rejected"}]

(* No lease is Nil. *)
LeasesAreNamed == Nil \notin Leases

(* A call that executes has its lease under its own handle, one that gives *)
(* it back has it still, and "granted" is kept for what was performed.     *)
CallHolds(c) ==
    /\ call[c].op \in {"idle", "read"} => call[c].lease = Nil
    /\ call[c].op = "execute" /\ call[c].lease # Nil =>
          /\ V!HandleOf(c, call[c].lease) \in DOMAIN handles
          /\ handles[V!HandleOf(c, call[c].lease)] = call[c].lease
    /\ call[c].op = "revoke" => call[c].lease # Nil
    /\ call[c].op \in {"idle", "read", "execute"} => call[c].answer = "none"
    /\ V!Holds(c, call[c].lease) /\ call[c].lease # Nil => lease[call[c].lease] \in {"live", "expired"}
    /\ call[c].answer = "granted" => c \in performed
    /\ call[c].op = "done" /\ call[c].answer = "granted" /\ call[c].lease # Nil
          => lease[call[c].lease] = "revoked"

(* No lease is held twice, and one in force is held or was given up on. *)
HeldOnce ==
    \A c, d \in Calls : call[c].lease = call[d].lease /\ call[c].lease # Nil
        /\ V!Holds(c, call[c].lease) /\ V!Holds(d, call[d].lease) => c = d
NoneForgotten ==
    \A l \in Leases : lease[l] = "live" => l \in failed \/ \E c \in Calls : V!Holds(c, l)

LeaseInv ==
    /\ call \in [Calls -> CallRecords]
    /\ lease \in [Leases -> {"free", "live", "expired", "revoked"}]
    /\ \A c \in Calls : CallHolds(c)
    /\ HeldOnce
    /\ NoneForgotten

LEMMA Released == LeasesAreNamed /\ LeaseInv => V!LeasesReleased
<1> SUFFICES ASSUME LeasesAreNamed, LeaseInv PROVE V!LeasesReleased
  OBVIOUS
<1>1. \A l \in Leases : lease[l] = "live" => l \in failed \/ \E c \in Calls : V!Holds(c, l)
  BY DEF LeaseInv, NoneForgotten
<1>2. ASSUME NEW c \in Calls
      PROVE  /\ call[c].op = "execute" /\ call[c].lease # Nil => lease[call[c].lease] \in {"live", "expired"}
             /\ call[c].op = "done" /\ call[c].answer = "granted"
                   => c \in performed /\ \A l \in Leases : call[c].lease = l => lease[l] = "revoked"
  BY DEF LeaseInv, CallHolds, V!Holds, LeasesAreNamed
<1> QED
  BY <1>1, <1>2 DEF V!LeasesReleased

LEMMA InitLeases == V!Init => LeaseInv
BY DEF V!Init, LeaseInv, CallRecords, CallHolds, HeldOnce, NoneForgotten, V!Holds,
   V!Stages, V!Answers

(* Only this call changes, and it keeps its lease. *)
OnlyMoves(c) ==
    /\ call' \in [Calls -> CallRecords]
    /\ \A d \in Calls : d # c => call'[d] = call[d]
    /\ call'[c].lease = call[c].lease

(* A call moves on and Vault's leases stay as they are: it holds its lease *)
(* still, or gave up on it.                                                *)
LEMMA CallMoves ==
    ASSUME LeasesAreNamed, LeaseInv, NEW c \in Calls, OnlyMoves(c),
           UNCHANGED <<lease, handles, performed>>, failed \subseteq failed',
           \/ call'[c].op = call[c].op /\ call'[c].answer = call[c].answer
           \/ /\ call'[c].op \in {"read", "execute"} /\ call[c].op = "idle"
              /\ call'[c].answer = call[c].answer
           \/ /\ call'[c].op = "done" /\ call'[c].answer \notin {"none", "granted"}
              /\ call[c].lease \in failed' \cup {Nil}
    PROVE  LeaseInv'
<1>1. /\ call'[c].op \in {"execute", "revoke"} => call[c].op \in {"execute", "revoke"} \/ call[c].lease = Nil
      /\ call[c].op \in {"execute", "revoke"} /\ call'[c].op \notin {"execute", "revoke"}
             => call[c].lease \in failed' \/ call[c].lease = Nil
  BY DEF LeaseInv, CallHolds
<1>2. CallHolds(c)'
  <2>1. CallHolds(c) /\ call'[c].lease = call[c].lease
    BY DEF LeaseInv, OnlyMoves
  <2> QED
    BY <2>1 DEF CallHolds, V!Holds, V!HandleOf
<1>3. ASSUME NEW d \in Calls PROVE CallHolds(d)'
  <2>1. CASE d # c
    <3>1. CallHolds(d) /\ call'[d] = call[d]
      BY <2>1 DEF LeaseInv, OnlyMoves
    <3> QED
      BY <3>1 DEF CallHolds, V!Holds, V!HandleOf
  <2> QED
    BY <1>2, <2>1
<1>4. HeldOnce'
  <2> SUFFICES ASSUME NEW a \in Calls, NEW b \in Calls,
                      call'[a].lease = call'[b].lease, call'[a].lease # Nil,
                      call'[a].op \in {"execute", "revoke"}, call'[b].op \in {"execute", "revoke"}
               PROVE  a = b
    BY DEF HeldOnce, V!Holds
  <2> QED
    BY <1>1 DEF LeaseInv, HeldOnce, V!Holds, OnlyMoves
<1>5. NoneForgotten'
  <2> SUFFICES ASSUME NEW l \in Leases, lease[l] = "live", l \notin failed'
               PROVE  \E d \in Calls : call'[d].op \in {"execute", "revoke"} /\ call'[d].lease = l
    BY DEF NoneForgotten, V!Holds
  <2>1. PICK d \in Calls : call[d].op \in {"execute", "revoke"} /\ call[d].lease = l
    BY DEF LeaseInv, NoneForgotten, V!Holds
  <2>2. l # Nil
    BY DEF LeasesAreNamed
  <2> QED
    BY <1>1, <2>1, <2>2 DEF OnlyMoves
<1> QED
  BY <1>3, <1>4, <1>5 DEF LeaseInv, OnlyMoves

LEMMA AnswerMoves ==
    ASSUME LeasesAreNamed, LeaseInv, NEW c \in Calls,
           NEW answer \in V!Answers \cup {"rejected"}, V!Answer(c, answer)
    PROVE  OnlyMoves(c) /\ call'[c].op = "done" /\ call'[c].answer = answer
<1>1. call \in [Calls -> CallRecords]
  BY DEF LeaseInv
<1> QED
  BY <1>1 DEF V!Answer, OnlyMoves, CallRecords

LEMMA GotoMoves ==
    ASSUME LeasesAreNamed, LeaseInv, NEW c \in Calls,
           NEW op \in {"read", "execute", "revoke"}, NEW stage \in V!Stages,
           V!Goto(c, op, stage)
    PROVE  OnlyMoves(c) /\ call'[c].op = op /\ call'[c].answer = call[c].answer
<1>1. call \in [Calls -> CallRecords]
  BY DEF LeaseInv
<1> QED
  BY <1>1 DEF V!Goto, OnlyMoves, CallRecords

LEMMA BeginHolds ==
    ASSUME LeasesAreNamed, LeaseInv, NEW c \in Calls, V!Begin(c) \/ V!BeginUnrecorded(c)
    PROVE  LeaseInv'
<1>1. call[c].op = "idle" /\ call[c].lease = Nil
  BY DEF V!Begin, V!BeginUnrecorded, LeaseInv, CallHolds
<1>2. UNCHANGED <<lease, handles, performed, failed>>
  BY DEF V!Begin, V!BeginUnrecorded
<1>3. ASSUME NEW answer \in (V!Answers \cup {"rejected"}) \ {"granted"}, V!Answer(c, answer)
      PROVE  LeaseInv'
  BY <1>1, <1>2, <1>3, AnswerMoves, CallMoves DEF V!Answers
<1>4. ASSUME NEW op \in {"read", "execute"}, V!Goto(c, op, "choose") PROVE LeaseInv'
  BY <1>1, <1>2, <1>4, GotoMoves, CallMoves DEF V!Stages
<1>5. V!Verdict(c) \in {"identity_denied", "unknown_grant", "grant_not_in_scope", "authorized"}
  BY DEF V!Verdict
<1> QED
  BY <1>3, <1>4, <1>5 DEF V!Begin, V!BeginUnrecorded, V!Answers
(* What the client caches is a token, or nothing. *)
VaultTyped == vault \in [token : VaultTokens \cup {Nil}, fresh : BOOLEAN]

LEMMA ChooseHolds ==
    ASSUME LeasesAreNamed, LeaseInv, VaultTyped, NEW c \in Calls, V!Choose(c)
    PROVE  LeaseInv'
<1>1. /\ call[c].op \in {"read", "revoke"} /\ call \in [Calls -> CallRecords]
      /\ UNCHANGED <<lease, handles, performed, failed>>
  BY DEF V!Choose, V!AtVault, LeaseInv
<1>2. CASE vault.token # Nil /\ vault.fresh
  <2>1. call' = [call EXCEPT ![c].stage = "send", ![c].token = vault.token]
    BY <1>2 DEF V!Choose
  <2>2. OnlyMoves(c) /\ call'[c].op = call[c].op /\ call'[c].answer = call[c].answer
    <3>1. vault.token \in VaultTokens \cup {Nil}
      BY DEF VaultTyped
    <3>2. PICK t \in VaultTokens \cup {Nil} :
             call' = [call EXCEPT ![c] = [call[c] EXCEPT !.stage = "send", !.token = t]]
      <4>1. call' = [call EXCEPT ![c] = [call[c] EXCEPT !.stage = "send", !.token = vault.token]]
        BY <1>1, <2>1 DEF CallRecords
      <4> QED
        BY <3>1, <4>1
    <3> QED
      BY <1>1, <3>2 DEF OnlyMoves, CallRecords, V!Stages
  <2> QED
    BY <1>1, <2>2, CallMoves
<1>3. CASE ~(vault.token # Nil /\ vault.fresh)
  BY <1>1, <1>3, GotoMoves, CallMoves DEF V!Choose, V!Stages
<1> QED
  BY <1>2, <1>3

LEMMA LoginHolds ==
    ASSUME LeasesAreNamed, LeaseInv, NEW c \in Calls, V!Login(c)
    PROVE  LeaseInv'
<1>1. /\ call[c].op \in {"read", "revoke"} /\ call \in [Calls -> CallRecords]
      /\ UNCHANGED <<lease, handles, performed, failed>>
  BY DEF V!Login, V!AtVault, LeaseInv
<1>2. PICK t \in VaultTokens :
         call' = [call EXCEPT ![c].token = t,
                              ![c].stage = IF @ = "login" THEN "send" ELSE "resend"]
  BY DEF V!Login, V!UnissuedTokens
<1>3. PICK stage \in V!Stages : call' = [call EXCEPT ![c] = [call[c] EXCEPT !.token = t, !.stage = stage]]
  <2>1. (IF call[c].stage = "login" THEN "send" ELSE "resend") \in V!Stages
    BY DEF V!Stages
  <2>2. call' = [call EXCEPT ![c] = [call[c] EXCEPT !.token = t,
                                !.stage = IF call[c].stage = "login" THEN "send" ELSE "resend"]]
    BY <1>1, <1>2 DEF CallRecords
  <2> QED
    BY <2>1, <2>2
<1>4. OnlyMoves(c) /\ call'[c].op = call[c].op /\ call'[c].answer = call[c].answer
  BY <1>1, <1>3 DEF OnlyMoves, CallRecords
<1> QED
  BY <1>1, <1>4, CallMoves

LEMMA FailureHolds ==
    ASSUME LeasesAreNamed, LeaseInv, NEW c \in Calls,
           V!Fails(c), call[c].op \in {"read", "revoke"},
           UNCHANGED <<lease, performed>>
    PROVE  LeaseInv'
<1>1. UNCHANGED handles /\ failed \subseteq failed'
  BY DEF V!Fails
<1>2. call[c].lease \in failed' \cup {Nil}
  BY DEF V!Fails, LeaseInv, CallHolds
<1>3. PICK answer \in {"credential_unavailable", "rejected"} : V!Answer(c, answer)
  BY DEF V!Fails
<1> QED
  BY <1>1, <1>2, <1>3, AnswerMoves, CallMoves DEF V!Answers

LEMMA ForbiddenHolds ==
    ASSUME LeasesAreNamed, LeaseInv, NEW c \in Calls, V!Forbidden(c) \/ V!Fault(c)
    PROVE  LeaseInv'
<1>1. call[c].op \in {"read", "revoke"} /\ UNCHANGED <<lease, performed>>
  BY DEF V!Forbidden, V!Fault, V!AtVault
<1>2. ASSUME V!Goto(c, call[c].op, "relogin"), UNCHANGED <<handles, failed>> PROVE LeaseInv'
  BY <1>1, <1>2, GotoMoves, CallMoves DEF V!Stages
<1> QED
  BY <1>1, <1>2, FailureHolds DEF V!Forbidden, V!Fault
-----------------------------------------------------------------------------
(* Leases change hands one at a time, and nobody else holds that one.      *)
LEMMA OthersHold ==
    ASSUME LeaseInv, NEW c \in Calls, NEW d \in Calls, d # c, call'[d] = call[d],
           performed \subseteq performed', NEW l \in Leases \cup {Nil},
           ~V!Holds(d, l) \/ l = Nil,
           \A m \in Leases : m # l => lease'[m] = lease[m],
           l \in Leases /\ lease[l] = "revoked" => lease'[l] = "revoked",
           \A h \in DOMAIN handles : h # V!HandleOf(c, l)
               => h \in DOMAIN handles' /\ handles'[h] = handles[h]
    PROVE  CallHolds(d)'
<1>1. CallHolds(d) /\ call[d] \in CallRecords
  BY DEF LeaseInv
<1>2. call[d].lease \in Leases \cup {Nil}
  BY <1>1 DEF CallRecords
<1>3. ASSUME call[d].op = "execute", call[d].lease # Nil
      PROVE  /\ V!HandleOf(d, call[d].lease) \in DOMAIN handles'
             /\ handles'[V!HandleOf(d, call[d].lease)] = call[d].lease
  <2>1. call[d].lease # l
    BY <1>3 DEF V!Holds
  <2>2. V!HandleOf(d, call[d].lease) # V!HandleOf(c, l)
    BY <2>1 DEF V!HandleOf
  <2> QED
    BY <1>1, <1>3, <2>2 DEF CallHolds
<1>4. ASSUME call[d].op \in {"execute", "revoke"}, call[d].lease # Nil
      PROVE  lease'[call[d].lease] \in {"live", "expired"}
  <2>1. call[d].lease # l
    BY <1>4 DEF V!Holds
  <2> QED
    BY <1>1, <1>2, <1>4, <2>1 DEF CallHolds, V!Holds
<1>5. ASSUME call[d].op = "done", call[d].answer = "granted", call[d].lease # Nil
      PROVE  lease'[call[d].lease] = "revoked"
  BY <1>1, <1>2, <1>5 DEF CallHolds
<1> QED
  BY <1>1, <1>3, <1>4, <1>5 DEF CallHolds, V!Holds, V!HandleOf

LEMMA FreeIsUnheld ==
    ASSUME LeasesAreNamed, LeaseInv, NEW c \in Calls, NEW l \in Leases, lease[l] = "free"
    PROVE  ~V!Holds(c, l)
BY DEF LeasesAreNamed, LeaseInv, CallHolds, V!Holds

(* A free lease is granted to a call that had none. *)
LEMMA LeaseGranted ==
    ASSUME LeasesAreNamed, LeaseInv, NEW c \in Calls, NEW l \in Leases, lease[l] = "free",
           NEW state \in {"live", "expired"}, lease' = [lease EXCEPT ![l] = state],
           call' \in [Calls -> CallRecords], \A d \in Calls : d # c => call'[d] = call[d],
           UNCHANGED <<performed, failed>>, call[c].op = "read",
           call'[c].op \in {"execute", "revoke"}, call'[c].lease = l,
           \A h \in DOMAIN handles : h # V!HandleOf(c, l)
               => h \in DOMAIN handles' /\ handles'[h] = handles[h],
           CallHolds(c)'
    PROVE  LeaseInv'
<1>1. l # Nil /\ \A d \in Calls : ~V!Holds(d, l)
  BY FreeIsUnheld DEF LeasesAreNamed
<1>2. /\ lease' \in [Leases -> {"free", "live", "expired", "revoked"}]
      /\ lease'[l] = state /\ \A m \in Leases : m # l => lease'[m] = lease[m]
  BY DEF LeaseInv
<1>3. ASSUME NEW d \in Calls, d # c PROVE CallHolds(d)'
  BY <1>1, <1>2, <1>3, OthersHold
<1>4. HeldOnce'
  <2> SUFFICES ASSUME NEW a \in Calls, NEW b \in Calls, a # c,
                      call'[a].lease = call'[b].lease, call'[a].lease # Nil,
                      call'[a].op \in {"execute", "revoke"}, call'[b].op \in {"execute", "revoke"}
               PROVE  a = b
    BY DEF HeldOnce, V!Holds
  <2>1. V!Holds(a, call[a].lease) /\ call'[a] = call[a] /\ call[a].lease # l
    BY <1>1 DEF V!Holds
  <2>2. b # c /\ call'[b] = call[b]
    BY <2>1
  <2> QED
    BY <2>1, <2>2 DEF LeaseInv, HeldOnce, V!Holds
<1>5. NoneForgotten'
  <2> SUFFICES ASSUME NEW m \in Leases, lease'[m] = "live", m \notin failed
               PROVE  \E d \in Calls : call'[d].op \in {"execute", "revoke"} /\ call'[d].lease = m
    BY DEF NoneForgotten, V!Holds
  <2>1. CASE m # l
    <3>1. PICK d \in Calls : call[d].op \in {"execute", "revoke"} /\ call[d].lease = m
      BY <1>2, <2>1 DEF LeaseInv, NoneForgotten, V!Holds
    <3> QED
      BY <3>1
  <2> QED
    BY <2>1
<1> QED
  BY <1>2, <1>3, <1>4, <1>5 DEF LeaseInv

LEMMA ReadHolds ==
    ASSUME LeasesAreNamed, LeaseInv, NEW c \in Calls, V!Read(c)
    PROVE  LeaseInv'
<1>1. /\ call[c].op = "read" /\ call[c].answer = "none" /\ CallHolds(c)
      /\ call \in [Calls -> CallRecords] /\ UNCHANGED <<performed, failed>>
  BY DEF V!Read, LeaseInv, CallHolds
<1>2. PICK l \in Leases :
         /\ lease[l] = "free"
         /\ \/ /\ lease' = [lease EXCEPT ![l] = "live"]
               /\ call' = [call EXCEPT ![c].op = "execute", ![c].lease = l]
               /\ handles' = V!WithHandle(V!HandleOf(c, l), l)
            \/ /\ lease' = [lease EXCEPT ![l] = "expired"]
               /\ call' = [call EXCEPT ![c].op = "revoke", ![c].stage = "choose",
                                     ![c].lease = l, ![c].answer = "credential_unavailable"]
               /\ UNCHANGED handles
  BY DEF V!Read, V!FreeLeases
<1>3. ASSUME lease' = [lease EXCEPT ![l] = "live"],
             call' = [call EXCEPT ![c].op = "execute", ![c].lease = l],
             handles' = V!WithHandle(V!HandleOf(c, l), l)
      PROVE  LeaseInv'
  <2>1. /\ call' \in [Calls -> CallRecords] /\ \A d \in Calls : d # c => call'[d] = call[d]
        /\ call'[c].op = "execute" /\ call'[c].lease = l /\ call'[c].answer = "none"
    BY <1>1, <1>3 DEF CallRecords
  <2>2. /\ V!HandleOf(c, l) \in DOMAIN handles' /\ handles'[V!HandleOf(c, l)] = l
        /\ \A h \in DOMAIN handles : h # V!HandleOf(c, l)
               => h \in DOMAIN handles' /\ handles'[h] = handles[h]
    BY <1>3 DEF V!WithHandle
  <2>3. lease'[l] = "live"
    BY <1>3 DEF LeaseInv
  <2>4. CallHolds(c)'
    BY <2>1, <2>2, <2>3 DEF CallHolds, V!Holds, V!HandleOf
  <2> QED
    BY <1>1, <1>2, <1>3, <2>1, <2>2, <2>4, LeaseGranted
<1>4. ASSUME lease' = [lease EXCEPT ![l] = "expired"], UNCHANGED handles,
             call' = [call EXCEPT ![c].op = "revoke", ![c].stage = "choose",
                                  ![c].lease = l, ![c].answer = "credential_unavailable"]
      PROVE  LeaseInv'
  <2>1. /\ call' \in [Calls -> CallRecords] /\ \A d \in Calls : d # c => call'[d] = call[d]
        /\ call'[c].op = "revoke" /\ call'[c].lease = l
        /\ call'[c].answer = "credential_unavailable"
    BY <1>1, <1>4 DEF CallRecords, V!Stages, V!Answers
  <2>2. lease'[l] = "expired" /\ l # Nil
    BY <1>4 DEF LeaseInv, LeasesAreNamed
  <2>3. CallHolds(c)'
    BY <2>1, <2>2 DEF CallHolds, V!Holds, V!HandleOf
  <2> QED
    BY <1>1, <1>2, <1>4, <2>1, <2>3, LeaseGranted
<1> QED
  BY <1>2, <1>3, <1>4

(* A lease comes to an end and the call that held it is done. *)
LEMMA LeaseReturned ==
    ASSUME LeasesAreNamed, LeaseInv, NEW c \in Calls, call[c].op = "revoke",
           lease' = [lease EXCEPT ![call[c].lease] = "revoked"],
           OnlyMoves(c), call'[c].op = "done", call'[c].answer \in {call[c].answer, "rejected"},
           UNCHANGED <<handles, performed, failed>>
    PROVE  LeaseInv'
<1>1. CallHolds(c) /\ call[c] \in CallRecords /\ call[c].lease # Nil
  BY DEF LeaseInv, CallHolds
<1>2. PICK l \in Leases : call[c].lease = l
  BY <1>1 DEF CallRecords
<1>3. /\ lease' \in [Leases -> {"free", "live", "expired", "revoked"}]
      /\ lease'[l] = "revoked" /\ \A m \in Leases : m # l => lease'[m] = lease[m]
  BY <1>2 DEF LeaseInv
<1>4. \A d \in Calls : d # c => ~V!Holds(d, l)
  BY <1>1, <1>2 DEF LeaseInv, HeldOnce, V!Holds
<1>5. ASSUME NEW d \in Calls, d # c PROVE CallHolds(d)'
  BY <1>3, <1>4, <1>5, OthersHold DEF OnlyMoves
<1>6. CallHolds(c)'
  BY <1>1, <1>2, <1>3 DEF CallHolds, V!Holds, V!HandleOf, OnlyMoves
<1>7. HeldOnce'
  <2> SUFFICES ASSUME NEW a \in Calls, NEW b \in Calls,
                      call'[a].lease = call'[b].lease, call'[a].lease # Nil,
                      call'[a].op \in {"execute", "revoke"}, call'[b].op \in {"execute", "revoke"}
               PROVE  a = b
    BY DEF HeldOnce, V!Holds
  <2> QED
    BY DEF LeaseInv, HeldOnce, V!Holds, OnlyMoves
<1>8. NoneForgotten'
  <2> SUFFICES ASSUME NEW m \in Leases, lease'[m] = "live", m \notin failed
               PROVE  \E d \in Calls : call'[d].op \in {"execute", "revoke"} /\ call'[d].lease = m
    BY DEF NoneForgotten, V!Holds
  <2>1. PICK d \in Calls : call[d].op \in {"execute", "revoke"} /\ call[d].lease = m
    BY <1>3 DEF LeaseInv, NoneForgotten, V!Holds
  <2>2. d # c
    BY <1>2, <1>3, <2>1
  <2> QED
    BY <2>1, <2>2 DEF OnlyMoves
<1> QED
  BY <1>3, <1>5, <1>6, <1>7, <1>8 DEF LeaseInv, OnlyMoves

LEMMA RevokeHolds ==
    ASSUME LeasesAreNamed, LeaseInv, NEW c \in Calls, V!Revoke(c)
    PROVE  LeaseInv'
<1>1. /\ call[c].op = "revoke" /\ UNCHANGED <<handles, performed, failed>>
      /\ lease' = [lease EXCEPT ![call[c].lease] = "revoked"]
      /\ call' = [call EXCEPT ![c].op = "done"]
  BY DEF V!Revoke
<1>2. OnlyMoves(c) /\ call'[c].op = "done" /\ call'[c].answer = call[c].answer
  BY <1>1 DEF LeaseInv, OnlyMoves, CallRecords
<1> QED
  BY <1>1, <1>2, LeaseReturned

(* A lease nobody heard of is given up on at once. *)
LEMMA LoseAnswerHolds ==
    ASSUME LeasesAreNamed, LeaseInv, NEW c \in Calls, V!LoseAnswer(c)
    PROVE  LeaseInv'
<1>1. call[c].op \in {"read", "revoke"} /\ CallHolds(c) /\ UNCHANGED <<handles, performed>>
  BY DEF V!LoseAnswer, V!Sent, V!AtVault, LeaseInv
<1>2. CASE call[c].op = "revoke"
  <2>1. /\ lease' = [lease EXCEPT ![call[c].lease] = "revoked"] /\ UNCHANGED failed
        /\ V!Answer(c, "rejected")
    BY <1>2 DEF V!LoseAnswer
  <2>2. OnlyMoves(c) /\ call'[c].op = "done" /\ call'[c].answer = "rejected"
    BY <2>1, AnswerMoves
  <2> QED
    BY <1>1, <1>2, <2>1, <2>2, LeaseReturned
<1>3. CASE call[c].op = "read"
  <2>1. PICK l \in Leases :
           /\ lease[l] = "free" /\ lease' = [lease EXCEPT ![l] = "live"]
           /\ V!Answer(c, "credential_unavailable") /\ failed' = failed \cup {l}
    BY <1>3 DEF V!LoseAnswer, V!FreeLeases
  <2>2. OnlyMoves(c) /\ call'[c].op = "done" /\ call'[c].answer = "credential_unavailable"
    BY <2>1, AnswerMoves DEF V!Answers
  <2>3. /\ lease' \in [Leases -> {"free", "live", "expired", "revoked"}]
        /\ \A m \in Leases : m # l => lease'[m] = lease[m]
    BY <2>1 DEF LeaseInv
  <2>4. ASSUME NEW d \in Calls, d # c PROVE CallHolds(d)'
    BY <1>1, <2>1, <2>2, <2>3, <2>4, FreeIsUnheld, OthersHold DEF OnlyMoves
  <2>5. CallHolds(c)'
    BY <1>1, <1>3, <2>2 DEF CallHolds, V!Holds, V!HandleOf, OnlyMoves
  <2>6. HeldOnce'
    <3> SUFFICES ASSUME NEW a \in Calls, NEW b \in Calls,
                        call'[a].lease = call'[b].lease, call'[a].lease # Nil,
                        call'[a].op \in {"execute", "revoke"}, call'[b].op \in {"execute", "revoke"}
                 PROVE  a = b
      BY DEF HeldOnce, V!Holds
    <3> QED
      BY <2>2 DEF LeaseInv, HeldOnce, V!Holds, OnlyMoves
  <2>7. NoneForgotten'
    <3> SUFFICES ASSUME NEW m \in Leases, lease'[m] = "live", m \notin failed'
                 PROVE  \E d \in Calls : call'[d].op \in {"execute", "revoke"} /\ call'[d].lease = m
      BY DEF NoneForgotten, V!Holds
    <3>1. PICK d \in Calls : call[d].op \in {"execute", "revoke"} /\ call[d].lease = m
      BY <2>1, <2>3 DEF LeaseInv, NoneForgotten, V!Holds
    <3>2. d # c
      BY <1>3, <3>1
    <3> QED
      BY <2>2, <3>1, <3>2 DEF OnlyMoves
  <2> QED
    BY <2>2, <2>3, <2>4, <2>5, <2>6, <2>7 DEF LeaseInv, OnlyMoves
<1> QED
  BY <1>1, <1>2, <1>3

LEMMA ExecuteHolds ==
    ASSUME LeasesAreNamed, LeaseInv, NEW c \in Calls, V!Execute(c)
    PROVE  LeaseInv'
<1>1. /\ call[c].op = "execute" /\ call \in [Calls -> CallRecords] /\ CallHolds(c)
      /\ UNCHANGED <<lease, failed>>
  BY DEF V!Execute, LeaseInv
<1>2. PICK answer \in V!Judged \cup {"provider_failed"} :
         /\ \/ performed' = performed \cup {c}
            \/ answer = "provider_failed" /\ UNCHANGED performed
         /\ IF call[c].lease = Nil THEN V!Answer(c, answer) /\ UNCHANGED handles
            ELSE V!Release(c, answer)
  BY DEF V!Execute
<1>3. answer \in V!Answers /\ performed \subseteq performed' /\ (answer = "granted" => c \in performed')
  BY <1>2 DEF V!Judged, V!Answers
<1>4. /\ OnlyMoves(c) /\ call'[c].answer = answer
      /\ call'[c].op = IF call[c].lease = Nil THEN "done" ELSE "revoke"
      /\ \A h \in DOMAIN handles : h # V!HandleOf(c, call[c].lease)
             => h \in DOMAIN handles' /\ handles'[h] = handles[h]
  <2>1. CASE call[c].lease = Nil
    BY <1>2, <1>3, <2>1, AnswerMoves
  <2>2. CASE call[c].lease # Nil
    <3>1. V!Release(c, answer)
      BY <1>2, <2>2
    <3>2. call' = [call EXCEPT ![c].op = "revoke", ![c].stage = "choose",
                               ![c].lease = call[c].lease, ![c].answer = answer]
      BY <1>1, <2>2, <3>1 DEF V!Release, CallHolds
    <3>3. OnlyMoves(c) /\ call'[c].answer = answer /\ call'[c].op = "revoke"
      <4> DEFINE new == [call[c] EXCEPT !.op = "revoke", !.stage = "choose",
                                        !.lease = call[c].lease, !.answer = answer]
      <4>1. call' = [call EXCEPT ![c] = new]
        BY <1>1, <3>2 DEF CallRecords
      <4>2. /\ new \in CallRecords /\ new.lease = call[c].lease
            /\ new.answer = answer /\ new.op = "revoke"
        BY <1>1, <1>3 DEF CallRecords, V!Stages
      <4> HIDE DEF new
      <4> QED
        BY <1>1, <4>1, <4>2 DEF OnlyMoves
    <3>4. \A h \in DOMAIN handles : h # V!HandleOf(c, call[c].lease)
             => h \in DOMAIN handles' /\ handles'[h] = handles[h]
      BY <3>1 DEF V!Release, V!WithoutHandle
    <3> QED
      BY <2>2, <3>3, <3>4
  <2> QED
    BY <2>1, <2>2
<1>5. call[c].lease \in Leases \cup {Nil} /\ call'[c].lease = call[c].lease
  BY <1>1, <1>4 DEF CallRecords, OnlyMoves
<1>6. ASSUME NEW d \in Calls, d # c PROVE CallHolds(d)'
  <2>1. ~V!Holds(d, call[c].lease) \/ call[c].lease = Nil
    BY <1>1, <1>6 DEF LeaseInv, HeldOnce, V!Holds
  <2>2. call'[d] = call[d]
    BY <1>4, <1>6 DEF OnlyMoves
  <2> QED
    BY <1>1, <1>3, <1>4, <1>5, <1>6, <2>1, <2>2, OthersHold
<1>7. CallHolds(c)'
  BY <1>1, <1>3, <1>4, <1>5 DEF CallHolds, V!Holds, V!HandleOf
<1>8. HeldOnce'
  <2> SUFFICES ASSUME NEW a \in Calls, NEW b \in Calls,
                      call'[a].lease = call'[b].lease, call'[a].lease # Nil,
                      call'[a].op \in {"execute", "revoke"}, call'[b].op \in {"execute", "revoke"}
               PROVE  a = b
    BY DEF HeldOnce, V!Holds
  <2> QED
    BY <1>1, <1>4 DEF LeaseInv, HeldOnce, V!Holds, OnlyMoves
<1>9. NoneForgotten'
  <2> SUFFICES ASSUME NEW m \in Leases, lease[m] = "live", m \notin failed
               PROVE  \E d \in Calls : call'[d].op \in {"execute", "revoke"} /\ call'[d].lease = m
    BY <1>1 DEF NoneForgotten, V!Holds
  <2>1. PICK d \in Calls : call[d].op \in {"execute", "revoke"} /\ call[d].lease = m
    BY DEF LeaseInv, NoneForgotten, V!Holds
  <2>2. m # Nil
    BY DEF LeasesAreNamed
  <2> QED
    BY <1>4, <2>1, <2>2 DEF OnlyMoves
<1> QED
  BY <1>1, <1>4, <1>6, <1>7, <1>8, <1>9 DEF LeaseInv, OnlyMoves

LEMMA ExpiryHolds == ASSUME LeaseInv, NEW l \in Leases, V!Expire(l) PROVE LeaseInv'
<1>1. /\ lease[l] = "live" /\ lease' \in [Leases -> {"free", "live", "expired", "revoked"}]
      /\ lease'[l] = "expired" /\ \A m \in Leases : m # l => lease'[m] = lease[m]
      /\ UNCHANGED <<call, handles, performed, failed>>
  BY DEF V!Expire, LeaseInv
<1>2. ASSUME NEW c \in Calls PROVE CallHolds(c)'
  <2>1. CallHolds(c) /\ call[c].lease \in Leases \cup {Nil}
    BY DEF LeaseInv, CallRecords
  <2> QED
    BY <1>1, <2>1 DEF CallHolds, V!Holds, V!HandleOf
<1> QED
  BY <1>1, <1>2 DEF LeaseInv, HeldOnce, NoneForgotten, V!Holds

LEMMA VaultStep == VaultTyped /\ [V!Next]_(V!vars) => VaultTyped'
<1> SUFFICES ASSUME VaultTyped, [V!Next]_(V!vars) PROVE VaultTyped'
  OBVIOUS
<1>1. ASSUME UNCHANGED vault PROVE VaultTyped'
  BY <1>1 DEF VaultTyped
<1>2. ASSUME NEW c \in Calls, V!Login(c) \/ V!Forbidden(c) PROVE VaultTyped'
  <2>1. CASE V!Login(c)
    BY <2>1 DEF V!Login, V!UnissuedTokens, VaultTyped
  <2>2. CASE V!Forbidden(c)
    <3>1. UNCHANGED vault \/ vault' = [token |-> Nil, fresh |-> FALSE]
      BY <2>2 DEF V!Forbidden
    <3>2. [token |-> Nil, fresh |-> FALSE] \in [token : VaultTokens \cup {Nil}, fresh : BOOLEAN]
      OBVIOUS
    <3>3. CASE vault' = [token |-> Nil, fresh |-> FALSE]
      BY ONLY <3>2, <3>3, Zenon DEF VaultTyped
    <3> QED
      BY <1>1, <3>1, <3>3
  <2> QED
    BY <1>2, <2>1, <2>2
<1>3. ASSUME NEW c \in Calls,
             V!Begin(c) \/ V!BeginUnrecorded(c) \/ V!Choose(c) \/ V!Read(c) \/ V!Revoke(c)
             \/ V!Fault(c) \/ V!LoseAnswer(c) \/ V!Execute(c)
      PROVE  VaultTyped'
  BY <1>1, <1>3 DEF V!Begin, V!BeginUnrecorded, V!Choose, V!Read, V!Revoke, V!Fault,
                    V!LoseAnswer, V!Execute
<1>4. ASSUME V!Lapse PROVE VaultTyped'
  BY <1>4 DEF V!Lapse, VaultTyped
<1>5. ASSUME NEW t \in VaultTokens, V!RevokeToken(t) PROVE VaultTyped'
  BY <1>1, <1>5 DEF V!RevokeToken
<1>6. ASSUME NEW l \in Leases, V!Expire(l) PROVE VaultTyped'
  BY <1>1, <1>6 DEF V!Expire
<1>7. CASE UNCHANGED V!vars
  BY <1>1, <1>7 DEF V!vars
<1> QED
  BY <1>2, <1>3, <1>4, <1>5, <1>6, <1>7 DEF V!Next

LEMMA LeaseStep ==
    LeasesAreNamed /\ VaultTyped /\ LeaseInv /\ [V!Next]_(V!vars) => LeaseInv'
<1> SUFFICES ASSUME LeasesAreNamed, VaultTyped, LeaseInv, [V!Next]_(V!vars) PROVE LeaseInv'
  OBVIOUS
<1>1. ASSUME UNCHANGED <<call, lease, handles, performed, failed>> PROVE LeaseInv'
  BY <1>1 DEF LeaseInv, CallHolds, HeldOnce, NoneForgotten, V!Holds, V!HandleOf
<1>2. ASSUME NEW c \in Calls,
             V!Begin(c) \/ V!BeginUnrecorded(c) \/ V!Choose(c) \/ V!Login(c) \/ V!Forbidden(c)
             \/ V!Read(c) \/ V!Revoke(c) \/ V!Fault(c) \/ V!LoseAnswer(c) \/ V!Execute(c)
      PROVE  LeaseInv'
  BY <1>2, BeginHolds, ChooseHolds, LoginHolds, ForbiddenHolds, ReadHolds, RevokeHolds,
     LoseAnswerHolds, ExecuteHolds
<1>3. ASSUME NEW t \in VaultTokens, V!RevokeToken(t) PROVE LeaseInv'
  BY <1>1, <1>3 DEF V!RevokeToken
<1>4. ASSUME V!Lapse PROVE LeaseInv'
  BY <1>1, <1>4 DEF V!Lapse
<1>5. ASSUME NEW l \in Leases, V!Expire(l) PROVE LeaseInv'
  BY <1>5, ExpiryHolds
<1>6. CASE UNCHANGED V!vars
  BY <1>1, <1>6 DEF V!vars
<1> QED
  BY <1>2, <1>3, <1>4, <1>5, <1>6 DEF V!Next

(* "Always release": on every path out of grant, with other calls of the   *)
(* same agent under way, a lease is held, ended or was given up on, no     *)
(* call loses its lease to another, and "granted" is told when it is gone. *)
THEOREM LeasesAreReleased == ASSUME LeasesAreNamed PROVE V!Spec => []V!LeasesReleased
<1>1. V!Init => VaultTyped /\ LeaseInv
  BY InitLeases DEF V!Init, VaultTyped
<1>2. VaultTyped /\ LeaseInv /\ [V!Next]_(V!vars) => VaultTyped' /\ LeaseInv'
  BY VaultStep, LeaseStep
<1>3. LeaseInv => V!LeasesReleased
  BY Released
<1> QED
  BY <1>1, <1>2, <1>3, PTL DEF V!Spec

-----------------------------------------------------------------------------
(* The bounds of the model are numbers. *)
VaultBounds == MaxRevocations \in Nat /\ MaxFaults \in Nat

(* What CapabilityTypeOK says beyond LeaseInv and VaultTyped. *)
AnswersAtTheEnd ==
    \A c \in Calls : call[c].op \in {"revoke", "done"} => call[c].answer # "none"

CapabilityKept ==
    /\ AnswersAtTheEnd
    /\ valid \in [VaultTokens -> {"unissued", "valid", "revoked"}]
    /\ \A h \in DOMAIN handles : handles[h] \in Leases
    /\ performed \subseteq Calls /\ failed \subseteq Leases
    /\ revocations \in 0..MaxRevocations /\ faults \in 0..MaxFaults

LEMMA CapabilityTypes ==
    ASSUME LeaseInv, VaultTyped, CapabilityKept PROVE V!CapabilityTypeOK
<1>1. \A c \in Calls : call[c].op \in {"revoke", "done"} <=> call[c].answer # "none"
  BY DEF LeaseInv, CallHolds, CapabilityKept, AnswersAtTheEnd, CallRecords
<1> QED
  BY <1>1 DEF LeaseInv, VaultTyped, CapabilityKept, V!CapabilityTypeOK, CallRecords

LEMMA ReleaseTyped ==
    ASSUME LeasesAreNamed, LeaseInv, CapabilityKept, NEW c \in Calls, call[c].op = "execute",
           NEW answer \in V!Judged \cup {"provider_failed"}, V!Release(c, answer)
    PROVE  AnswersAtTheEnd' /\ \A h \in DOMAIN handles' : handles'[h] \in Leases
<1>1. handles' = [k \in DOMAIN handles \ {V!HandleOf(c, call[c].lease)} |-> handles[k]]
  BY DEF V!Release, V!WithoutHandle
<1>2. \A h \in DOMAIN handles' : handles'[h] \in Leases
  BY <1>1 DEF CapabilityKept
<1>3. call \in [Calls -> CallRecords] /\ answer # "none"
  BY DEF LeaseInv, V!Judged
<1>4. \A d \in Calls : d # c => call'[d] = call[d]
  BY <1>3 DEF V!Release
<1>5. call'[c].answer = answer
  BY <1>3 DEF V!Release, CallRecords
<1> QED
  BY <1>2, <1>3, <1>4, <1>5 DEF AnswersAtTheEnd, CapabilityKept

LEMMA CapabilityStep ==
    ASSUME LeasesAreNamed, VaultBounds, LeaseInv, VaultTyped, CapabilityKept,
           [V!Next]_(V!vars)
    PROVE  CapabilityKept'
<1> USE DEF VaultBounds
<1>0. call \in [Calls -> CallRecords]
  BY DEF LeaseInv
<1>1. ASSUME NEW c \in Calls, V!Begin(c) \/ V!BeginUnrecorded(c) PROVE CapabilityKept'
  <2>1. PICK answer \in V!Answers \cup {"rejected"} :
           V!Answer(c, answer) \/ V!Goto(c, "read", "choose") \/ V!Goto(c, "execute", "choose")
    BY <1>1 DEF V!Begin, V!BeginUnrecorded, V!Verdict, V!Answers
  <2>2. AnswersAtTheEnd'
    BY <1>0, <2>1 DEF V!Answer, V!Goto, V!Answers, AnswersAtTheEnd, CapabilityKept, CallRecords
  <2> QED
    BY <1>1, <2>2 DEF V!Begin, V!BeginUnrecorded, CapabilityKept
<1>2. ASSUME NEW c \in Calls, V!Choose(c) PROVE CapabilityKept'
  <2>1. AnswersAtTheEnd'
    BY <1>0, <1>2 DEF V!Choose, V!Goto, AnswersAtTheEnd, CapabilityKept, CallRecords
  <2> QED
    BY <1>2, <2>1 DEF V!Choose, CapabilityKept
<1>3. ASSUME NEW c \in Calls, V!Login(c) PROVE CapabilityKept'
  <2>1. AnswersAtTheEnd'
    BY <1>0, <1>3 DEF V!Login, AnswersAtTheEnd, CapabilityKept, CallRecords
  <2>2. valid' \in [VaultTokens -> {"unissued", "valid", "revoked"}]
    BY <1>3 DEF V!Login, V!UnissuedTokens, CapabilityKept
  <2> QED
    BY <1>3, <2>1, <2>2 DEF V!Login, CapabilityKept
<1>4. ASSUME NEW c \in Calls, call[c].op \in {"read", "revoke"}, V!Fails(c)
      PROVE  /\ AnswersAtTheEnd' /\ failed' \subseteq Leases
             /\ \A h \in DOMAIN handles' : handles'[h] \in Leases
  <2>1. call[c].op = "revoke" => call[c].lease \in Leases
    BY <1>0 DEF LeaseInv, CallHolds, CallRecords
  <2>2. AnswersAtTheEnd'
    BY <1>0, <1>4 DEF V!Fails, V!Answer, AnswersAtTheEnd, CapabilityKept, CallRecords
  <2> QED
    BY <1>4, <2>1, <2>2 DEF V!Fails, CapabilityKept
<1>5. ASSUME NEW c \in Calls, V!Forbidden(c) PROVE CapabilityKept'
  <2>1. call[c].op \in {"read", "revoke"}
    BY <1>5 DEF V!Forbidden, V!AtVault
  <2>2. CASE V!Fails(c)
    BY <1>4, <1>5, <2>1, <2>2 DEF V!Forbidden, CapabilityKept
  <2>3. CASE V!Goto(c, call[c].op, "relogin") /\ UNCHANGED <<handles, failed>>
    <3>1. AnswersAtTheEnd'
      BY <1>0, <2>3 DEF V!Goto, AnswersAtTheEnd, CapabilityKept, CallRecords
    <3> QED
      BY <1>5, <2>3, <3>1 DEF V!Forbidden, CapabilityKept
  <2> QED
    BY <1>5, <2>2, <2>3 DEF V!Forbidden
<1>6. ASSUME NEW c \in Calls, V!Read(c) PROVE CapabilityKept'
  <2>1. PICK l \in Leases :
           \/ /\ call' = [call EXCEPT ![c].op = "execute", ![c].lease = l]
              /\ handles' = V!WithHandle(V!HandleOf(c, l), l)
           \/ /\ call' = [call EXCEPT ![c].op = "revoke", ![c].stage = "choose",
                             ![c].lease = l, ![c].answer = "credential_unavailable"]
              /\ UNCHANGED handles
    BY <1>6 DEF V!Read, V!FreeLeases
  <2>2. AnswersAtTheEnd'
    BY <1>0, <2>1 DEF AnswersAtTheEnd, CapabilityKept, CallRecords
  <2>3. \A h \in DOMAIN handles' : handles'[h] \in Leases
    BY <2>1 DEF V!WithHandle, CapabilityKept
  <2> QED
    BY <1>6, <2>2, <2>3 DEF V!Read, CapabilityKept
<1>7. ASSUME NEW c \in Calls, V!Revoke(c) PROVE CapabilityKept'
  <2>1. AnswersAtTheEnd'
    BY <1>0, <1>7 DEF V!Revoke, V!Sent, V!AtVault, AnswersAtTheEnd, CapabilityKept, CallRecords
  <2> QED
    BY <1>7, <2>1 DEF V!Revoke, CapabilityKept
<1>8. ASSUME NEW c \in Calls, V!Fault(c) PROVE CapabilityKept'
  BY <1>4, <1>8 DEF V!Fault, CapabilityKept
<1>9. ASSUME NEW c \in Calls, V!LoseAnswer(c) PROVE CapabilityKept'
  <2>1. AnswersAtTheEnd'
    BY <1>0, <1>9 DEF V!LoseAnswer, V!Answer, AnswersAtTheEnd, CapabilityKept, CallRecords
  <2>2. failed' \subseteq Leases
    BY <1>9 DEF V!LoseAnswer, V!FreeLeases, CapabilityKept
  <2> QED
    BY <1>9, <2>1, <2>2 DEF V!LoseAnswer, CapabilityKept
<1>10. ASSUME NEW c \in Calls, V!Execute(c) PROVE CapabilityKept'
  <2>1. PICK answer \in V!Judged \cup {"provider_failed"} :
           \/ V!Answer(c, answer) /\ UNCHANGED handles
           \/ V!Release(c, answer)
    BY <1>10 DEF V!Execute
  <2>2. call[c].op = "execute" /\ performed' \subseteq Calls
    BY <1>10 DEF V!Execute, CapabilityKept
  <2>3. CASE V!Answer(c, answer) /\ UNCHANGED handles
    <3>1. AnswersAtTheEnd'
      BY <1>0, <2>3 DEF V!Answer, V!Judged, AnswersAtTheEnd, CapabilityKept, CallRecords
    <3> QED
      BY <1>10, <2>2, <2>3, <3>1 DEF V!Execute, CapabilityKept
  <2>4. CASE V!Release(c, answer)
    BY <1>10, <2>2, <2>4, ReleaseTyped DEF V!Execute, CapabilityKept
  <2> QED
    BY <2>1, <2>3, <2>4
<1>11. ASSUME NEW t \in VaultTokens, V!RevokeToken(t) PROVE CapabilityKept'
  BY <1>11 DEF V!RevokeToken, CapabilityKept, AnswersAtTheEnd
<1>12. ASSUME V!Lapse \/ \E l \in Leases : V!Expire(l) PROVE CapabilityKept'
  BY <1>12 DEF V!Lapse, V!Expire, CapabilityKept, AnswersAtTheEnd
<1>13. CASE UNCHANGED V!vars
  BY <1>13 DEF V!vars, CapabilityKept, AnswersAtTheEnd
<1> QED
  BY <1>1, <1>2, <1>3, <1>5, <1>6, <1>7, <1>8, <1>9, <1>10, <1>11, <1>12, <1>13 DEF V!Next

(* Every variable of the broker and of Vault keeps its type, and a call has *)
(* its answer exactly when it has nothing left to do but give back.        *)
THEOREM CapabilityTyped ==
    ASSUME LeasesAreNamed, VaultBounds PROVE V!Spec => []V!CapabilityTypeOK
<1>1. V!Init => LeaseInv /\ VaultTyped /\ CapabilityKept
  BY InitLeases DEF V!Init, VaultTyped, CapabilityKept, AnswersAtTheEnd, VaultBounds
<1>2. LeaseInv /\ VaultTyped /\ CapabilityKept /\ [V!Next]_(V!vars)
          => LeaseInv' /\ VaultTyped' /\ CapabilityKept'
  BY LeaseStep, VaultStep, CapabilityStep
<1>3. LeaseInv /\ VaultTyped /\ CapabilityKept => V!CapabilityTypeOK
  BY CapabilityTypes
<1> QED
  BY <1>1, <1>2, <1>3, PTL DEF V!Spec
=============================================================================
