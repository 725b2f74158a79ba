-------------------------- MODULE Intercept_proofs --------------------------
(***************************************************************************)
(* Proofs about Intercept, for any number of slots, requests, deciders,    *)
(* switches and limits, and any number of failures.                        *)
(***************************************************************************)
EXTENDS Intercept, FiniteSetTheorems, TLAPS

USE ConstantsAssumption

-----------------------------------------------------------------------------
(* Types *)

LEMMA BusyRequest ==
    ASSUME CallTypeOK, NEW s \in Slots, ~At(s, "idle")
    PROVE  Req(s) \in Requests /\ call[s] \in CallRecord
BY DEF CallTypeOK, CallRecord, At, Req

(* A busy call that moves on, or returns, is still a call. *)
LEMMA CallTypes ==
    ASSUME CallTypeOK, NEW s \in Slots
    PROVE  /\ \A pc \in PCs : ~At(s, "idle") /\ Goto(s, pc) => CallTypeOK'
           /\ Return(s) => CallTypeOK'
           /\ ~At(s, "idle") /\ Close(s) => CallTypeOK'
           /\ ~At(s, "idle") /\ Refuse(s) => CallTypeOK'
<1>1. ASSUME NEW c \in CallRecord, c.req = NoRequest => c.pc = "idle",
             call' = [call EXCEPT ![s] = c]
      PROVE  CallTypeOK'
  BY <1>1 DEF CallTypeOK
<1>2. ASSUME NEW pc \in PCs, ~At(s, "idle"), Goto(s, pc)
      PROVE  CallTypeOK'
  <2> DEFINE c == [call[s] EXCEPT !.pc = pc]
  <2>1. c \in CallRecord /\ c.req # NoRequest
    BY <1>2, BusyRequest DEF CallRecord, Req
  <2>2. call' = [call EXCEPT ![s] = c]
    BY <1>2 DEF Goto
  <2> QED BY <1>1, <2>1, <2>2
<1>3. ASSUME Return(s) PROVE CallTypeOK'
  <2>1. NoCall \in CallRecord /\ NoCall.pc = "idle"
    BY DEF NoCall, CallRecord, PCs, Verdicts
  <2> QED BY <1>1, <1>3, <2>1 DEF Return
<1>4. ASSUME ~At(s, "idle"), Close(s) PROVE CallTypeOK'
  <2> DEFINE c == [call[s] EXCEPT !.pc = "save", !.closed = TRUE]
  <2>1. c \in CallRecord /\ c.req # NoRequest
    BY <1>4, BusyRequest DEF CallRecord, Req, PCs
  <2>2. call' = [call EXCEPT ![s] = c]
    BY <1>4 DEF Close
  <2> QED BY <1>1, <2>1, <2>2
<1> QED BY <1>2, <1>3, <1>4 DEF Refuse, PCs

LEMMA FaultTypes ==
    ASSUME faults \in 0..MaxFaults, Fault \/ UNCHANGED faults
    PROVE  faults' \in 0..MaxFaults
BY DEF Fault

LEMMA MeterTypes ==
    ASSUME MeterTypeOK, NEW rows, NEW consume \in BOOLEAN,
           \/ \E allowed \in BOOLEAN : CheckAndConsume(rows, consume, allowed)
           \/ ChargeInDoubt(rows, consume)
           \/ UNCHANGED meter
    PROVE  MeterTypeOK'
<1>1. Charged(rows) \in [Meters -> [used : Nat, expired : BOOLEAN, windows : Nat]]
  <2>1. ASSUME NEW m \in Meters
        PROVE  Charged(rows)[m] \in [used : Nat, expired : BOOLEAN, windows : Nat]
    BY <2>1 DEF Charged, MeterTypeOK
  <2> QED BY <2>1 DEF Charged
<1> QED BY <1>1 DEF MeterTypeOK, CheckAndConsume, ChargeInDoubt

LEMMA InsertTypes ==
    ASSUME TypeOK, NEW r \in Requests, NEW v \in Verdicts, Insert(r, v)
    PROVE  /\ decision' \in [Requests -> Verdicts \cup {"none"}]
           /\ approval' \in [Requests -> ApprovalRow]
<1>1. [NoRow EXCEPT !.status = "pending"] \in ApprovalRow
  BY DEF NoRow, ApprovalRow
<1> QED BY <1>1 DEF Insert, TypeOK

LEMMA SpendTypes ==
    ASSUME TypeOK, NEW s \in Slots, ~At(s, "idle"), Valid(s), Spend(s)
    PROVE  approval' \in [Requests -> ApprovalRow]
<1> DEFINE q == Auth[Req(s)]
<1>1. Req(s) \in Requests
  BY BusyRequest DEF TypeOK
<1>2. CASE q \in Requests
  <2>1. [approval[q] EXCEPT !.used = Req(s)] \in ApprovalRow
    BY <1>1, <1>2 DEF TypeOK, ApprovalRow
  <2>2. [approval EXCEPT ![q].used = Req(s)] = [approval EXCEPT ![q] = [approval[q] EXCEPT !.used = Req(s)]]
    OBVIOUS
  <2> QED BY <1>2, <2>1, <2>2 DEF Spend, TypeOK
<1>3. CASE q \notin Requests
  BY <1>3 DEF Spend, TypeOK
<1> QED BY <1>2, <1>3

LEMMA ContinueTypes ==
    ASSUME TypeOK, NEW s \in Slots, Continue(s)
    PROVE  TypeOK'
<1>0. ~At(s, "idle") /\ Req(s) \in Requests /\ call[s].verdict \in Verdicts
  <2>1. ~At(s, "idle")
    BY DEF Continue, Lookup, KillSwitch, Budget, Guards, Approve, Policy,
           RateLimit, Save, At
  <2> QED BY <2>1, BusyRequest DEF TypeOK, CallRecord
<1>t. /\ \A pc \in PCs : Goto(s, pc) => CallTypeOK'
      /\ Return(s) => CallTypeOK'
      /\ Close(s) => CallTypeOK'
      /\ Refuse(s) => CallTypeOK'
  BY <1>0, CallTypes DEF TypeOK
<1>f. (Fault \/ UNCHANGED faults) => faults' \in 0..MaxFaults
  BY FaultTypes DEF TypeOK
<1> USE <1>0, <1>t, <1>f
<1>1. CASE Lookup(s)
  <2>1. CallTypeOK' /\ faults' \in 0..MaxFaults
    BY <1>1 DEF Lookup, PCs
  <2>2. answers' \subseteq Requests \X Verdicts \X BOOLEAN
    <3>1. decision[Req(s)] # "none" => Replayed(Req(s)) \in Verdicts
      BY DEF Replayed, TypeOK, Verdicts
    <3>2. answers' \in {answers, answers \cup {<<Req(s), Replayed(Req(s)), TRUE>>}}
          /\ (decision[Req(s)] = "none" => answers' = answers)
      BY <1>1 DEF Lookup, Answer
    <3>3. decision[Req(s)] # "none" =>
            <<Req(s), Replayed(Req(s)), TRUE>> \in Requests \X Verdicts \X BOOLEAN
      BY <3>1
    <3> QED BY <3>2, <3>3 DEF TypeOK
  <2> QED BY <1>1, <2>1, <2>2 DEF Lookup, TypeOK, DeciderTypeOK, MeterTypeOK
<1>2. CASE KillSwitch(s)
  BY <1>2 DEF KillSwitch, TypeOK, PCs, DeciderTypeOK, MeterTypeOK
<1>3. CASE Budget(s)
  <2>1. CallTypeOK' /\ faults' \in 0..MaxFaults
    BY <1>3 DEF Budget, PCs
  <2>2. MeterTypeOK'
    BY <1>3, MeterTypes DEF Budget, TypeOK, Enforced
  <2> QED BY <1>3, <2>1, <2>2 DEF Budget, TypeOK, DeciderTypeOK
<1>4. CASE Guards(s)
  BY <1>4 DEF Guards, TypeOK, PCs, DeciderTypeOK, MeterTypeOK
<1>5. CASE Approve(s)
  <2>1. CallTypeOK' /\ faults' \in 0..MaxFaults
    BY <1>5 DEF Approve, PCs
  <2>2. approval' \in [Requests -> ApprovalRow]
    BY <1>5, SpendTypes DEF Approve, TypeOK
  <2> QED BY <1>5, <2>1, <2>2 DEF Approve, TypeOK, DeciderTypeOK, MeterTypeOK
<1>6. CASE Policy(s)
  BY <1>6 DEF Policy, TypeOK, PCs, DeciderTypeOK, MeterTypeOK
<1>7. CASE RateLimit(s)
  <2> DEFINE granted(v) == [call[s] EXCEPT !.pc = "save", !.verdict = v]
  <2>1. \A v \in Verdicts : granted(v) \in CallRecord /\ granted(v).req # NoRequest
    <3>1. call[s] \in CallRecord /\ call[s].req # NoRequest
      BY BusyRequest DEF TypeOK, Req
    <3>2. ASSUME NEW v \in Verdicts
          PROVE  granted(v) \in CallRecord /\ granted(v).req # NoRequest
      BY <3>1 DEF CallRecord, PCs
    <3> QED BY <3>2
  <2>2. CallTypeOK' /\ faults' \in 0..MaxFaults
    <3>1. ASSUME NEW c \in CallRecord, c.req # NoRequest, call' = [call EXCEPT ![s] = c]
          PROVE  CallTypeOK'
      BY <3>1 DEF CallTypeOK, TypeOK
    <3>2. \/ \E v \in Verdicts : call' = [call EXCEPT ![s] = granted(v)]
          \/ Refuse(s) \/ Return(s) \/ Close(s)
      BY <1>7 DEF RateLimit, Verdicts
    <3>3. CallTypeOK'
      <4> HIDE DEF granted
      <4> QED BY <2>1, <3>1, <3>2
    <3> QED BY <1>7, <3>3 DEF RateLimit
  <2>3. MeterTypeOK'
    BY <1>7, MeterTypes DEF RateLimit, TypeOK, Enforced
  <2> QED BY <1>7, <2>2, <2>3 DEF RateLimit, TypeOK, DeciderTypeOK
<1>8. CASE Save(s)
  <2>1. CallTypeOK' /\ faults' \in 0..MaxFaults
    BY <1>8 DEF Save
  <2>2. answers' \subseteq Requests \X Verdicts \X BOOLEAN
    <3>1. \A b \in BOOLEAN : <<Req(s), call[s].verdict, b>> \in Requests \X Verdicts \X BOOLEAN
      OBVIOUS
    <3>2. \/ answers' = answers
          \/ \E b \in BOOLEAN : answers' = answers \cup {<<Req(s), call[s].verdict, b>>}
      BY <1>8 DEF Save, Answer
    <3> QED BY <3>1, <3>2 DEF TypeOK
  <2>3. /\ decision' \in [Requests -> Verdicts \cup {"none"}]
        /\ approval' \in [Requests -> ApprovalRow]
    BY <1>8, InsertTypes DEF Save, TypeOK
  <2> QED BY <1>8, <2>1, <2>2, <2>3 DEF Save, TypeOK, DeciderTypeOK, MeterTypeOK
<1> QED BY <1>1, <1>2, <1>3, <1>4, <1>5, <1>6, <1>7, <1>8 DEF Continue

LEMMA OperatorTypes ==
    ASSUME TypeOK,
           \/ \E d \in Deciders : DecideCheck(d) \/ DecideUpdate(d)
           \/ \E q \in Requests : ExpireApproval(q)
           \/ \E m \in Meters : ElapseWindow(m)
           \/ \E k \in Switches : SwitchOn(k) \/ SwitchOff(k)
    PROVE  TypeOK'
<1>1. ASSUME NEW d \in Deciders, DecideCheck(d) PROVE TypeOK'
  <2>1. PICK q \in Requests, says \in Decisions :
          decider' = [decider EXCEPT ![d] = [pc |-> "update", of |-> q, says |-> says]]
    BY <1>1 DEF DecideCheck
  <2>2. [pc |-> "update", of |-> q, says |-> says] \in Vote
    BY DEF Vote
  <2>3. DeciderTypeOK'
    BY <2>1, <2>2 DEF TypeOK, DeciderTypeOK
  <2> QED BY <1>1, <2>3 DEF DecideCheck, TypeOK, CallTypeOK, MeterTypeOK
<1>2. ASSUME NEW d \in Deciders, DecideUpdate(d) PROVE TypeOK'
  <2> DEFINE q == decider[d].of  says == decider[d].says
             row == [status |-> says, expired |-> FALSE, used |-> approval[q].used,
                     token |-> IF says = "approved" THEN d ELSE NoDecider]
  <2>1. q \in Requests /\ says \in Decisions /\ decider[d] \in Vote
    BY <1>2 DEF DecideUpdate, TypeOK, DeciderTypeOK, Vote
  <2>2. row \in ApprovalRow
    BY <2>1 DEF TypeOK, ApprovalRow
  <2>3. approval' \in [Requests -> ApprovalRow]
    BY <1>2, <2>1, <2>2 DEF DecideUpdate, TypeOK
  <2>4. votes' \subseteq Deciders \X Requests \X Decisions /\ told' \subseteq votes'
    BY <1>2, <2>1 DEF DecideUpdate, TypeOK
  <2>5. DeciderTypeOK'
    <3>1. [decider[d] EXCEPT !.pc = "done"] \in Vote
      BY <2>1 DEF Vote
    <3>2. decider' = [decider EXCEPT ![d] = [decider[d] EXCEPT !.pc = "done"]]
      BY <1>2 DEF DecideUpdate
    <3> QED BY <3>1, <3>2 DEF TypeOK, DeciderTypeOK
  <2>6. faults' \in 0..MaxFaults
    BY <1>2, FaultTypes DEF DecideUpdate, TypeOK
  <2> QED BY <1>2, <2>3, <2>4, <2>5, <2>6 DEF DecideUpdate, TypeOK, CallTypeOK, MeterTypeOK
<1>3. ASSUME NEW q \in Requests, ExpireApproval(q) PROVE TypeOK'
  <2>1. [approval[q] EXCEPT !.expired = TRUE] \in ApprovalRow
    <3>1. approval[q] \in ApprovalRow
      BY DEF TypeOK
    <3> QED BY <3>1 DEF ApprovalRow
  <2>2. approval' = [approval EXCEPT ![q] = [approval[q] EXCEPT !.expired = TRUE]]
    BY <1>3 DEF ExpireApproval
  <2>3. approval' \in [Requests -> ApprovalRow]
    BY <2>1, <2>2 DEF TypeOK
  <2> QED BY <1>3, <2>3 DEF ExpireApproval, TypeOK, CallTypeOK, DeciderTypeOK, MeterTypeOK
<1>4. ASSUME NEW m \in Meters, ElapseWindow(m) PROVE TypeOK'
  <2>1. MeterTypeOK'
    <3>1. [meter[m] EXCEPT !.expired = TRUE] \in [used : Nat, expired : BOOLEAN, windows : Nat]
      <4>1. meter[m] \in [used : Nat, expired : BOOLEAN, windows : Nat]
        BY DEF TypeOK, MeterTypeOK
      <4> QED BY <4>1
    <3>2. meter' = [meter EXCEPT ![m] = [meter[m] EXCEPT !.expired = TRUE]]
      BY <1>4 DEF ElapseWindow
    <3> QED BY <3>1, <3>2 DEF TypeOK, MeterTypeOK
  <2> QED BY <1>4, <2>1 DEF ElapseWindow, TypeOK, CallTypeOK, DeciderTypeOK
<1>5. ASSUME NEW k \in Switches, SwitchOn(k) \/ SwitchOff(k) PROVE TypeOK'
  <2>1. CallTypeOK'
    <3>1. CASE SwitchOn(k)
      BY <3>1 DEF SwitchOn, TypeOK, CallTypeOK
    <3>2. CASE SwitchOff(k)
      <4> DEFINE still(s) == call[s].exposed /\ \E j \in Switches \ {k} :
                               switch[j] = "on" /\ Req(s) \in Stops[j]
      <4>1. ASSUME NEW s \in Slots
            PROVE  /\ [call[s] EXCEPT !.exposed = still(s)] \in CallRecord
                   /\ [call[s] EXCEPT !.exposed = still(s)].req = call[s].req
                   /\ [call[s] EXCEPT !.exposed = still(s)].pc = call[s].pc
        <5>1. still(s) \in BOOLEAN
          OBVIOUS
        <5>2. call[s] \in CallRecord
          BY DEF TypeOK, CallTypeOK
        <5> HIDE DEF still
        <5>3. \A b \in BOOLEAN :
                /\ [call[s] EXCEPT !.exposed = b] \in CallRecord
                /\ [call[s] EXCEPT !.exposed = b].req = call[s].req
                /\ [call[s] EXCEPT !.exposed = b].pc = call[s].pc
          BY <5>2 DEF CallRecord
        <5> QED BY <5>1, <5>3
      <4>2. call' = [s \in Slots |-> [call[s] EXCEPT !.exposed = still(s)]]
        BY <3>2 DEF SwitchOff
      <4> HIDE DEF still
      <4> QED BY <4>1, <4>2 DEF TypeOK, CallTypeOK
    <3> QED BY <1>5, <3>1, <3>2
  <2>2. switch' \in [Switches -> {"absent", "on", "off"}]
    BY <1>5 DEF SwitchOn, SwitchOff, TypeOK
  <2> QED BY <1>5, <2>1, <2>2 DEF SwitchOn, SwitchOff, TypeOK, DeciderTypeOK, MeterTypeOK
<1> QED BY <1>1, <1>2, <1>3, <1>4, <1>5

(* Every reachable state is well typed: TypeOK of intercept-service.ts and the
   tables behind it. *)
THEOREM TypeCorrect == Spec => []TypeOK
<1>1. Init => TypeOK
  <2> SUFFICES ASSUME Init PROVE TypeOK
    OBVIOUS
  <2>1. NoCall \in CallRecord /\ NoCall.pc = "idle" /\ NoRow \in ApprovalRow
        /\ NoVote \in Vote /\ NoVote.pc = "idle"
    BY DEF NoCall, CallRecord, PCs, Verdicts, NoRow, ApprovalRow, NoVote, Vote, Decisions
  <2> QED BY <2>1 DEF Init, TypeOK, CallTypeOK, DeciderTypeOK, MeterTypeOK
<1>2. TypeOK /\ [Next]_vars => TypeOK'
  <2> SUFFICES ASSUME TypeOK, [Next]_vars PROVE TypeOK'
    OBVIOUS
  <2>1. ASSUME NEW s \in Slots, Begin(s) PROVE TypeOK'
    <3>1. PICK r \in Requests, t \in Deciders \cup {NoDecider} :
            call' = [call EXCEPT ![s] = [NoCall EXCEPT !.pc = "lookup", !.req = r,
                                           !.token = t, !.exposed = Killed(r)]]
      BY <2>1 DEF Begin
    <3> DEFINE c == [NoCall EXCEPT !.pc = "lookup", !.req = r, !.token = t,
                                   !.exposed = Killed(r)]
    <3>2. c \in CallRecord /\ c.req # NoRequest
      BY DEF NoCall, CallRecord, PCs, Verdicts, Killed
    <3>3. CallTypeOK'
      BY <3>1, <3>2 DEF TypeOK, CallTypeOK
    <3> QED BY <2>1, <3>3 DEF Begin, TypeOK, DeciderTypeOK, MeterTypeOK
  <2>2. ASSUME NEW s \in Slots, Die(s) PROVE TypeOK'
    <3>1. CallTypeOK' /\ faults' \in 0..MaxFaults
      BY <2>2, CallTypes, FaultTypes DEF Die, TypeOK
    <3> QED BY <2>2, <3>1 DEF Die, TypeOK, DeciderTypeOK, MeterTypeOK
  <2>3. CASE UNCHANGED vars
    BY <2>3 DEF vars, TypeOK, CallTypeOK, DeciderTypeOK, MeterTypeOK
  <2> QED BY <2>1, <2>2, <2>3, ContinueTypes, OperatorTypes DEF Next
<1> QED BY <1>1, <1>2, PTL DEF Spec

-----------------------------------------------------------------------------
(* Approvals *)

(* What nobody undoes: votes are never withdrawn, a spent approval stays spent
   on the same request, a decision taken is never taken back. *)
Lasting ==
    /\ votes \subseteq votes'
    /\ \A q \in Requests :
         approval[q].used # NoRequest => approval'[q].used = approval[q].used

(* A move changes where the call stands and nothing it carries. *)
LEMMA MovesKeepRequest ==
    ASSUME CallTypeOK, NEW s \in Slots
    PROVE  /\ \A pc \in PCs : Goto(s, pc) =>
                /\ call'[s].pc = pc /\ call'[s].req = call[s].req
                /\ call'[s].verdict = call[s].verdict
           /\ Refuse(s) \/ Close(s) =>
                /\ call'[s].pc = "save" /\ call'[s].req = call[s].req
                /\ call'[s].verdict = call[s].verdict
<1>1. call[s] \in CallRecord /\ s \in DOMAIN call
  BY DEF CallTypeOK
<1>2. ASSUME NEW pc \in PCs, Goto(s, pc)
      PROVE  /\ call'[s].pc = pc /\ call'[s].req = call[s].req
             /\ call'[s].verdict = call[s].verdict
  <2>1. call'[s] = [call[s] EXCEPT !.pc = pc]
    BY <1>1, <1>2 DEF Goto
  <2> QED BY <1>1, <2>1 DEF CallRecord
<1>3. ASSUME Close(s)
      PROVE  /\ call'[s].pc = "save" /\ call'[s].req = call[s].req
             /\ call'[s].verdict = call[s].verdict
  <2>1. call'[s] = [call[s] EXCEPT !.pc = "save", !.closed = TRUE]
    BY <1>1, <1>3 DEF Close
  <2> QED BY <1>1, <2>1 DEF CallRecord
<1> QED BY <1>2, <1>3 DEF Refuse, PCs

LEMMA BackedStays ==
    ASSUME Lasting, NEW r \in Requests, Backed(r)
    PROVE  Backed(r)'
<1>1. Auth[r] \in Requests /\ r # NoRequest
  BY DEF Backed
<1> QED BY <1>1 DEF Backed, Lasting

(* A slot that does not move stays backed. *)
LEMMA CallStaysBacked ==
    ASSUME TypeOK, Lasting, NEW t \in Slots, CallBacked(t), call'[t] = call[t]
    PROVE  CallBacked(t)'
<1>1. CASE call[t].pc = "idle"
  BY <1>1 DEF CallBacked, At, Req, Enforced, TypeOK
<1>2. CASE call[t].pc # "idle"
  <2>1. Req(t) \in Requests
    BY <1>2, BusyRequest DEF At, TypeOK
  <2> DEFINE r == call[t].req
  <2>2. Backed(r) => (Backed(r))'
    <3> SUFFICES ASSUME NEW p \in Requests, Backed(p) PROVE Backed(p)'
      BY <2>1, call'[t] = call[t] DEF Req, Backed
    <3> QED BY BackedStays
  <2>3. Req(t)' = Req(t) /\ Enforced(t)' = Enforced(t)
        /\ \A pc \in PCs : At(t, pc)' = At(t, pc)
    BY DEF Req, Enforced, At
  <2> QED BY <1>2, <2>2, <2>3 DEF CallBacked, At, Enforced, Req, PCs, Backed
<1> QED BY <1>1, <1>2

(* A step of one slot that leaves the tables of decisions and approvals alone
   keeps the invariant if it keeps that slot backed. *)
LEMMA QuietStep ==
    ASSUME TypeOK, ApprovalInv, NEW s \in Slots,
           UNCHANGED <<decision, approval, decider, votes>>,
           \A t \in Slots \ {s} : call'[t] = call[t],
           CallBacked(s)'
    PROVE  ApprovalInv'
<1>1. Lasting
  BY DEF Lasting
<1>2. CallsBacked'
  BY <1>1, CallStaysBacked DEF ApprovalInv, CallsBacked
<1>3. AllowNeedsApproval'
  BY DEF ApprovalInv, AllowNeedsApproval, Granted, Backed
<1>4. RowsFollowDecisions' /\ VotersHaveRows'
  BY DEF ApprovalInv, RowsFollowDecisions, VotersHaveRows
<1> QED BY <1>2, <1>3, <1>4 DEF ApprovalInv

(* Where a call goes when it is not granted anything. *)
LEMMA PlainMoves ==
    ASSUME TypeOK, NEW s \in Slots, CallBacked(s), ~At(s, "idle")
    PROVE  /\ Return(s) => CallBacked(s)'
           /\ ~At(s, "save") /\ (Refuse(s) \/ Close(s)) => CallBacked(s)'
           /\ ~At(s, "save") /\ (\E pc \in {"kill", "budget", "guards"} : Goto(s, pc))
                => CallBacked(s)'
<1>1. ASSUME Return(s) PROVE CallBacked(s)'
  BY <1>1 DEF Return, NoCall, CallBacked, At, Req, Enforced, TypeOK, CallTypeOK
<1>2. ASSUME ~At(s, "save"), NEW pc \in {"kill", "budget", "guards", "save"},
             call'[s].pc = pc, call'[s].verdict = call[s].verdict
      PROVE  CallBacked(s)'
  BY <1>2 DEF CallBacked, At
<1>3. Refuse(s) \/ Close(s) => call'[s].pc = "save" /\ call'[s].verdict = call[s].verdict
  BY MovesKeepRequest DEF TypeOK
<1>4. \A pc \in {"kill", "budget", "guards"} :
        Goto(s, pc) => call'[s].pc = pc /\ call'[s].verdict = call[s].verdict
  BY MovesKeepRequest DEF TypeOK, PCs
<1> QED BY <1>1, <1>2, <1>3, <1>4

(* Every step of a call moves its own slot alone. *)
LEMMA OneSlotMoves ==
    ASSUME CallTypeOK, NEW s \in Slots,
           Continue(s) \/ Begin(s) \/ Die(s)
    PROVE  \A t \in Slots \ {s} : call'[t] = call[t]
BY DEF Continue, Begin, Die, Lookup, KillSwitch, Budget, Guards, Approve, Policy,
       RateLimit, Save, Goto, Return, Refuse, Close, CallTypeOK

LEMMA ApproveStep ==
    ASSUME TypeOK, ApprovalInv, NEW s \in Slots, Approve(s)
    PROVE  ApprovalInv'
<1> DEFINE q == Auth[Req(s)]
<1>0. /\ Req(s) \in Requests /\ q \in Requests /\ CallBacked(s)
      /\ ~At(s, "idle") /\ ~At(s, "save") /\ Req(s) # NoRequest
      /\ call[s].verdict = "deny"
  BY BusyRequest DEF Approve, At, TypeOK, ApprovalInv, CallsBacked, CallBacked
<1>1. \A t \in Slots \ {s} : call'[t] = call[t]
  BY OneSlotMoves DEF Continue, TypeOK
<1>2. CASE Valid(s) /\ Spend(s)
  <2>1. Lasting
    BY <1>2, <1>0 DEF Lasting, Approve, Valid, Spend, TypeOK, ApprovalRow
  <2>2. ASSUME Enforced(s) PROVE Backed(Req(s))'
    <3>1. Req(s)' = Req(s)
      BY MovesKeepRequest DEF Approve, Req, TypeOK, PCs
    <3>2. approval'[q].used = Req(s)
      BY <1>2, <1>0, <2>2 DEF Spend, TypeOK, ApprovalRow
    <3>3. Scope[q] = Scope[Req(s)] /\ \E d \in Deciders : <<d, q, "approved">> \in votes'
      BY <1>2, <1>0, <2>1 DEF Valid, ApprovalInv, RowsFollowDecisions, Lasting
    <3> QED BY <3>1, <3>2, <3>3, <1>0 DEF Backed
  <2>3. CallBacked(s)'
    <3>1. CASE Goto(s, "rate")
      <4>1. /\ call'[s].pc = "rate" /\ call'[s].req = call[s].req
            /\ call'[s].verdict = "deny"
        BY <3>1, <1>0 DEF Goto, TypeOK, CallTypeOK, CallRecord
      <4> QED BY <4>1, <2>2 DEF CallBacked, At, Req, Enforced
    <3>2. CASE Close(s) \/ Refuse(s)
      BY <3>2, <1>0, PlainMoves
    <3> QED BY <3>1, <3>2 DEF Approve
  <2>4. CallsBacked'
    BY <1>1, <2>1, <2>3, CallStaysBacked DEF ApprovalInv, CallsBacked
  <2>5. AllowNeedsApproval'
    <3>1. \A r \in Requests : Backed(r) => Backed(r)'
      BY <2>1, BackedStays
    <3> QED BY <3>1 DEF ApprovalInv, AllowNeedsApproval, Granted, Approve
  <2>6. RowsFollowDecisions'
    <3>1. decision[q] # "none"
      BY <1>0, <1>2 DEF Valid, ApprovalInv, RowsFollowDecisions, NoRow
    <3>2. \A p \in Requests : approval'[p].status = approval[p].status
      BY <1>0, <1>2 DEF Spend, TypeOK, ApprovalRow
    <3>3. \A p \in Requests \ {q} : approval'[p] = approval[p]
      BY <1>0, <1>2 DEF Spend, TypeOK
    <3> QED BY <3>1, <3>2, <3>3 DEF Approve, ApprovalInv, RowsFollowDecisions
  <2>7. VotersHaveRows'
    BY DEF Approve, ApprovalInv, VotersHaveRows
  <2> QED BY <2>4, <2>5, <2>6, <2>7 DEF ApprovalInv
<1>3. CASE UNCHANGED approval /\ (Refuse(s) \/ Close(s))
  BY <1>0, <1>1, <1>3, PlainMoves, QuietStep DEF Approve
<1> QED BY <1>2, <1>3 DEF Approve

LEMMA SaveStep ==
    ASSUME TypeOK, ApprovalInv, NEW s \in Slots, Save(s)
    PROVE  ApprovalInv'
<1> DEFINE r == Req(s)  v == call[s].verdict
<1>0. /\ r \in Requests /\ v \in Verdicts /\ CallBacked(s) /\ ~At(s, "idle")
      /\ At(s, "save")
  BY BusyRequest DEF Save, At, TypeOK, ApprovalInv, CallsBacked, CallRecord
<1>1. \A t \in Slots \ {s} : call'[t] = call[t]
  BY OneSlotMoves DEF Continue, TypeOK
<1>2. CallBacked(s)'
  BY <1>0, PlainMoves DEF Save
<1>3. CASE decision[r] = "none" /\ Insert(r, v)
  <2>0. approval[r] = NoRow
    BY <1>0, <1>3 DEF ApprovalInv, RowsFollowDecisions
  <2>1. /\ \A p \in Requests \ {r} : approval'[p] = approval[p] /\ decision'[p] = decision[p]
        /\ decision'[r] = v /\ v # "none"
        /\ approval'[r].used = NoRequest /\ approval'[r].status # "approved"
    BY <1>0, <1>3, <2>0 DEF Insert, TypeOK, NoRow, Verdicts
  <2>2. Lasting
    BY <2>0, <2>1 DEF Lasting, Save, NoRow
  <2>3. CallsBacked'
    BY <1>1, <1>2, <2>2, CallStaysBacked DEF ApprovalInv, CallsBacked
  <2>4. AllowNeedsApproval'
    <3> SUFFICES ASSUME NEW p \in Requests, Granted(p)'
                 PROVE  Backed(p)' \/ (Auth[p] = NoRequest /\ RiskOf[p] # "approval")
      BY DEF AllowNeedsApproval
    <3>1. CASE p = r
      <4>1. v = "allow" /\ Enforced(s)
        BY <3>1, <2>1 DEF Granted, Enforced
      <4>2. Backed(r) \/ (Auth[r] = NoRequest /\ RiskOf[r] # "approval")
        BY <4>1, <1>0 DEF CallBacked
      <4> QED BY <3>1, <4>2, <2>2, <1>0, BackedStays
    <3>2. CASE p # r
      BY <3>2, <2>1, <2>2, BackedStays DEF ApprovalInv, AllowNeedsApproval, Granted
    <3> QED BY <3>1, <3>2
  <2>5. RowsFollowDecisions' /\ VotersHaveRows'
    BY <2>1, <2>2 DEF ApprovalInv, RowsFollowDecisions, VotersHaveRows, Save, Lasting,
       TypeOK, DeciderTypeOK
  <2> QED BY <2>3, <2>4, <2>5 DEF ApprovalInv
<1>4. CASE UNCHANGED <<decision, approval>>
  BY <1>1, <1>2, <1>4, QuietStep DEF Save
<1> QED BY <1>3, <1>4 DEF Save

LEMMA ContinueKeepsApprovals ==
    ASSUME TypeOK, ApprovalInv, NEW s \in Slots, Continue(s)
    PROVE  ApprovalInv'
<1>1. /\ ~At(s, "idle") /\ CallBacked(s)
      /\ \A t \in Slots \ {s} : call'[t] = call[t]
  BY OneSlotMoves DEF Continue, Lookup, KillSwitch, Budget, Guards, Approve, Policy,
     RateLimit, Save, At, ApprovalInv, CallsBacked, TypeOK
<1>q. UNCHANGED <<decision, approval, decider, votes>> /\ CallBacked(s)' => ApprovalInv'
  BY <1>1, QuietStep
<1>2. CASE Lookup(s)
  BY <1>1, <1>2, <1>q, PlainMoves DEF Lookup, At
<1>3. CASE KillSwitch(s)
  BY <1>1, <1>3, <1>q, PlainMoves DEF KillSwitch, At
<1>4. CASE Budget(s)
  BY <1>1, <1>4, <1>q, PlainMoves DEF Budget, At
<1>5. CASE Guards(s)
  <2>1. CASE Goto(s, IF Auth[Req(s)] = NoRequest THEN "policy" ELSE "approve")
    <3>1. /\ call'[s].pc = (IF Auth[Req(s)] = NoRequest THEN "policy" ELSE "approve")
          /\ call'[s].req = call[s].req /\ call'[s].verdict = "deny"
      BY <1>1, <1>5, <2>1 DEF Goto, TypeOK, CallTypeOK, CallRecord, CallBacked, Guards, At
    <3>2. CallBacked(s)'
      BY <3>1 DEF CallBacked, At, Req
    <3> QED BY <1>5, <3>2, <1>q DEF Guards
  <2>2. CASE Refuse(s) \/ Close(s)
    BY <1>1, <1>5, <2>2, <1>q, PlainMoves DEF Guards, At
  <2> QED BY <1>5, <2>1, <2>2 DEF Guards
<1>6. CASE Approve(s)
  BY <1>6, ApproveStep
<1>7. CASE Policy(s)
  <2>1. CASE Goto(s, "rate")
    <3>1. /\ call'[s].pc = "rate" /\ call'[s].req = call[s].req
          /\ call'[s].verdict = "deny" /\ Auth[Req(s)] = NoRequest
      BY <1>1, <1>7, <2>1 DEF Goto, TypeOK, CallTypeOK, CallRecord, CallBacked, Policy, At
    <3>2. CallBacked(s)'
      BY <3>1 DEF CallBacked, At, Req
    <3> QED BY <1>7, <3>2, <1>q DEF Policy
  <2>2. CASE Refuse(s) \/ Close(s)
    BY <1>1, <1>7, <2>2, <1>q, PlainMoves DEF Policy, At
  <2> QED BY <1>7, <2>1, <2>2 DEF Policy
<1>8. CASE RateLimit(s)
  <2> DEFINE r == Req(s)
             verdict == IF Auth[r] # NoRequest \/ RiskOf[r] # "approval"
                          THEN "allow" ELSE "pending"
  <2>1. CASE call' = [call EXCEPT ![s] = [@ EXCEPT !.pc = "save", !.verdict = verdict]]
    <3>1. /\ call'[s].pc = "save" /\ call'[s].req = call[s].req
          /\ call'[s].verdict = verdict
      BY <2>1 DEF TypeOK, CallTypeOK, CallRecord
    <3>2. UNCHANGED <<decision, approval, decider, votes>>
      BY <1>8 DEF RateLimit
    <3>3. Enforced(s) => Backed(r) \/ Auth[r] = NoRequest
      BY <1>1, <1>8 DEF RateLimit, CallBacked
    <3>4. Req(s)' = r /\ (Backed(r) => (Req(s) = r /\ Backed(r)'))
      BY <3>1, <3>2 DEF Req, Backed
    <3>5. CallBacked(s)'
      BY <3>1, <3>3, <3>4 DEF CallBacked, At, Enforced, Req
    <3> QED BY <3>2, <3>5, <1>q
  <2>2. CASE Refuse(s) \/ Close(s) \/ Return(s)
    BY <1>1, <1>8, <2>2, <1>q, PlainMoves DEF RateLimit, At
  <2> QED BY <1>8, <2>1, <2>2 DEF RateLimit
<1>9. CASE Save(s)
  BY <1>9, SaveStep
<1> QED BY <1>2, <1>3, <1>4, <1>5, <1>6, <1>7, <1>8, <1>9 DEF Continue

LEMMA DecideKeepsApprovals ==
    ASSUME TypeOK, ApprovalInv, NEW d \in Deciders, DecideCheck(d) \/ DecideUpdate(d)
    PROVE  ApprovalInv'
<1>1. CASE DecideCheck(d)
  <2>1. PICK q \in Requests, says \in Decisions :
          /\ approval[q].status = "pending"
          /\ decider' = [decider EXCEPT ![d] = [pc |-> "update", of |-> q, says |-> says]]
    BY <1>1 DEF DecideCheck
  <2>2. decision[q] # "none"
    BY <2>1 DEF ApprovalInv, RowsFollowDecisions, NoRow
  <2>3. VotersHaveRows'
    BY <1>1, <2>1, <2>2 DEF DecideCheck, ApprovalInv, VotersHaveRows, TypeOK, DeciderTypeOK
  <2>4. /\ AllowNeedsApproval' /\ CallsBacked' /\ RowsFollowDecisions'
    BY <1>1 DEF DecideCheck, ApprovalInv, AllowNeedsApproval, Granted, Backed, CallsBacked,
       CallBacked, At, Req, Enforced, RowsFollowDecisions
  <2> QED BY <2>3, <2>4 DEF ApprovalInv
<1>2. CASE DecideUpdate(d)
  <2> DEFINE q == decider[d].of  says == decider[d].says
  <2>1. q \in Requests /\ decision[q] # "none"
    BY <1>2 DEF DecideUpdate, TypeOK, DeciderTypeOK, ApprovalInv, VotersHaveRows
  <2>2. /\ \A p \in Requests \ {q} : approval'[p] = approval[p]
        /\ \A p \in Requests : approval'[p].used = approval[p].used
        /\ votes \subseteq votes'
        /\ \/ approval' = approval
           \/ approval'[q].status = says /\ <<d, q, says>> \in votes'
    BY <1>2, <2>1 DEF DecideUpdate, TypeOK
  <2>3. Lasting
    BY <2>2 DEF Lasting
  <2>4. \A t \in Slots : call'[t] = call[t]
    BY <1>2 DEF DecideUpdate
  <2>5. CallsBacked'
    BY <2>3, <2>4, CallStaysBacked DEF ApprovalInv, CallsBacked
  <2>6. AllowNeedsApproval'
    <3>1. \A r \in Requests : Backed(r) => Backed(r)'
      BY <2>3, BackedStays
    <3> QED BY <1>2, <3>1 DEF ApprovalInv, AllowNeedsApproval, Granted, DecideUpdate
  <2>7. RowsFollowDecisions'
    <3> SUFFICES ASSUME NEW p \in Requests
                 PROVE  /\ decision'[p] = "none" => approval'[p] = NoRow
                        /\ approval'[p].status = "approved" =>
                             \E e \in Deciders : <<e, p, "approved">> \in votes'
      BY DEF RowsFollowDecisions, NoRow
    <3>1. CASE approval'[p] = approval[p]
      BY <1>2, <3>1, <2>2 DEF DecideUpdate, ApprovalInv, RowsFollowDecisions
    <3>2. CASE approval'[p] # approval[p]
      BY <1>2, <3>2, <2>1, <2>2 DEF DecideUpdate
    <3> QED BY <3>1, <3>2
  <2>8. VotersHaveRows'
    BY <1>2 DEF DecideUpdate, ApprovalInv, VotersHaveRows, TypeOK, DeciderTypeOK
  <2> QED BY <2>5, <2>6, <2>7, <2>8 DEF ApprovalInv
<1> QED BY <1>1, <1>2

LEMMA WorldKeepsApprovals ==
    ASSUME TypeOK, ApprovalInv,
           \/ \E q \in Requests : ExpireApproval(q)
           \/ \E m \in Meters : ElapseWindow(m)
           \/ \E k \in Switches : SwitchOn(k) \/ SwitchOff(k)
           \/ UNCHANGED vars
    PROVE  ApprovalInv'
<1>1. /\ UNCHANGED <<decision, decider, votes>>
      /\ \A p \in Requests :
           /\ approval'[p].used = approval[p].used
           /\ approval'[p].status = approval[p].status
           /\ approval[p] = NoRow => approval'[p] = NoRow
  <2>1. ASSUME NEW q \in Requests, ExpireApproval(q), NEW p \in Requests
        PROVE  /\ approval'[p].used = approval[p].used
               /\ approval'[p].status = approval[p].status
               /\ approval[p] = NoRow => approval'[p] = NoRow
    <3>1. approval[q] \in ApprovalRow /\ approval[q].status # "none"
      BY <2>1 DEF TypeOK, ExpireApproval
    <3>2. CASE p = q
      <4>1. approval'[q] = [approval[q] EXCEPT !.expired = TRUE]
        BY <2>1 DEF ExpireApproval, TypeOK
      <4> QED BY <3>1, <3>2, <4>1 DEF ApprovalRow, NoRow
    <3>3. CASE p # q
      BY <2>1, <3>3 DEF ExpireApproval, TypeOK
    <3> QED BY <3>2, <3>3
  <2> QED BY <2>1 DEF ExpireApproval, ElapseWindow, SwitchOn, SwitchOff, vars
<1>2. \A s \in Slots : /\ call'[s].pc = call[s].pc /\ call'[s].req = call[s].req
                        /\ call'[s].verdict = call[s].verdict
  <2>1. ASSUME NEW k \in Switches, SwitchOff(k), NEW s \in Slots
        PROVE  /\ call'[s].pc = call[s].pc /\ call'[s].req = call[s].req
               /\ call'[s].verdict = call[s].verdict
    <3>1. call[s] \in CallRecord
      BY DEF TypeOK, CallTypeOK
    <3>2. \E b : call'[s] = [call[s] EXCEPT !.exposed = b]
      BY <2>1 DEF SwitchOff
    <3> QED BY <3>1, <3>2 DEF CallRecord
  <2> QED BY <2>1 DEF ExpireApproval, ElapseWindow, SwitchOn, vars
<1>3. \A r \in Requests : Backed(r) => Backed(r)'
  <2>1. Lasting
    BY <1>1 DEF Lasting
  <2> QED BY <2>1, BackedStays
<1>4. AllowNeedsApproval' /\ RowsFollowDecisions' /\ VotersHaveRows'
  BY <1>1, <1>3 DEF ApprovalInv, AllowNeedsApproval, Granted, RowsFollowDecisions, VotersHaveRows
<1>5. CallsBacked'
  <2> SUFFICES ASSUME NEW s \in Slots PROVE CallBacked(s)'
    BY DEF CallsBacked
  <2>1. CallBacked(s) /\ (At(s, "idle") \/ Req(s) \in Requests)
    BY BusyRequest DEF ApprovalInv, CallsBacked, TypeOK
  <2>2. CASE At(s, "idle")
    BY <1>2, <2>1, <2>2 DEF CallBacked, At
  <2>3. CASE Req(s) \in Requests
    <3>1. Req(s)' = Req(s)
      BY <1>2 DEF Req
    <3>2. Backed(Req(s)) => Backed(Req(s))'
      BY <1>3, <2>3, <3>1 DEF Backed
    <3> QED BY <1>2, <2>1, <3>1, <3>2 DEF CallBacked, At, Enforced
  <2> QED BY <2>1, <2>2, <2>3
<1> QED BY <1>4, <1>5 DEF ApprovalInv

(* The inductive invariant behind the approval properties. *)
THEOREM ApprovalInvariant == Spec => []ApprovalInv
<1>1. Init => ApprovalInv
  BY DEF Init, ApprovalInv, AllowNeedsApproval, Granted, CallsBacked, CallBacked, At,
     RowsFollowDecisions, VotersHaveRows, NoCall, NoRow, NoVote
<1>2. TypeOK /\ ApprovalInv /\ [Next]_vars => ApprovalInv'
  <2> SUFFICES ASSUME TypeOK, ApprovalInv, [Next]_vars PROVE ApprovalInv'
    OBVIOUS
  <2>1. ASSUME NEW s \in Slots, Begin(s) PROVE ApprovalInv'
    <3>1. call'[s].pc = "lookup" /\ call'[s].verdict = "deny"
      BY <2>1 DEF Begin, NoCall, TypeOK, CallTypeOK
    <3>2. CallBacked(s)'
      BY <3>1 DEF CallBacked, At
    <3>3. \A t \in Slots \ {s} : call'[t] = call[t]
      BY <2>1, OneSlotMoves DEF TypeOK
    <3> QED BY <2>1, <3>2, <3>3, QuietStep DEF Begin
  <2>2. ASSUME NEW s \in Slots, Die(s) PROVE ApprovalInv'
    <3>1. CallBacked(s)'
      BY <2>2, PlainMoves DEF Die, ApprovalInv, CallsBacked
    <3>2. \A t \in Slots \ {s} : call'[t] = call[t]
      BY <2>2, OneSlotMoves DEF TypeOK
    <3> QED BY <2>2, <3>1, <3>2, QuietStep DEF Die
  <2> QED BY <2>1, <2>2, ContinueKeepsApprovals, DecideKeepsApprovals, WorldKeepsApprovals
          DEF Next
<1> QED BY <1>1, <1>2, TypeCorrect, PTL DEF Spec

(* A risky call is allowed only on an approval given for its scope and spent
   by it, whatever runs at once and however often the database fails. *)
THEOREM AllowsAreApproved == Spec => []AllowNeedsApproval
<1>1. ApprovalInv => AllowNeedsApproval
  BY DEF ApprovalInv
<1> QED BY <1>1, ApprovalInvariant, PTL

(* One approval permits one tool call: approvals.used_at is a single cell. *)
THEOREM ApprovalsSpentOnce == Spec => []ApprovalSpentOnce
<1>1. ApprovalInv => ApprovalSpentOnce
  BY DEF ApprovalInv, AllowNeedsApproval, ApprovalSpentOnce, Backed, Granted
<1> QED BY <1>1, ApprovalInvariant, PTL

-----------------------------------------------------------------------------
(* What callers are told *)

(* Everything a move leaves in the call it moves. *)
LEMMA MovesKeepRest ==
    ASSUME CallTypeOK, NEW s \in Slots
    PROVE  /\ \A pc \in PCs : Goto(s, pc) =>
                /\ call'[s].pc = pc /\ call'[s].req = call[s].req
                /\ call'[s].verdict = call[s].verdict
                /\ call'[s].closed = call[s].closed
                /\ call'[s].exposed = call[s].exposed
           /\ Refuse(s) =>
                /\ call'[s].pc = "save" /\ call'[s].req = call[s].req
                /\ call'[s].verdict = call[s].verdict
                /\ call'[s].closed = call[s].closed
                /\ call'[s].exposed = call[s].exposed
           /\ Close(s) =>
                /\ call'[s].pc = "save" /\ call'[s].req = call[s].req
                /\ call'[s].verdict = call[s].verdict
                /\ call'[s].exposed = call[s].exposed
           /\ Return(s) =>
                /\ call'[s].pc = "idle" /\ call'[s].verdict = "deny"
                /\ call'[s].closed = FALSE /\ call'[s].exposed = FALSE
<1>1. call[s] \in CallRecord /\ s \in DOMAIN call
  BY DEF CallTypeOK
<1>2. ASSUME NEW pc \in PCs, Goto(s, pc)
      PROVE  /\ call'[s].pc = pc /\ call'[s].req = call[s].req
             /\ call'[s].verdict = call[s].verdict
             /\ call'[s].closed = call[s].closed
             /\ call'[s].exposed = call[s].exposed
  <2>1. call'[s] = [call[s] EXCEPT !.pc = pc]
    BY <1>1, <1>2 DEF Goto
  <2> QED BY <1>1, <2>1 DEF CallRecord
<1>3. ASSUME Close(s)
      PROVE  /\ call'[s].pc = "save" /\ call'[s].req = call[s].req
             /\ call'[s].verdict = call[s].verdict
             /\ call'[s].exposed = call[s].exposed
  <2>1. call'[s] = [call[s] EXCEPT !.pc = "save", !.closed = TRUE]
    BY <1>1, <1>3 DEF Close
  <2> QED BY <1>1, <2>1 DEF CallRecord
<1>4. ASSUME Return(s)
      PROVE  /\ call'[s].pc = "idle" /\ call'[s].verdict = "deny"
             /\ call'[s].closed = FALSE /\ call'[s].exposed = FALSE
  BY <1>1, <1>4 DEF Return, NoCall
<1>5. Refuse(s) => Goto(s, "save") /\ "save" \in PCs
  BY DEF Refuse, PCs
<1> QED BY <1>2, <1>3, <1>4, <1>5

(* What one call knows before and after a step of it other than Begin: it
   returns, or it keeps its request and its exposure; it has a verdict other
   than a denial only once the rate limit sent it to the save, and then it was
   not closed. *)
LEMMA ContinueOutcome ==
    ASSUME TypeOK, NEW s \in Slots, Continue(s), ~At(s, "save"), CallBacked(s)
    PROVE  \/ Return(s) /\ (At(s, "lookup") \/ At(s, "rate"))
           \/ /\ call'[s].req = call[s].req /\ call'[s].exposed = call[s].exposed
              /\ \/ /\ call'[s].verdict = "deny"
                    /\ \/ call'[s].pc = "save"
                       \/ call'[s].closed = call[s].closed
                 \/ /\ At(s, "rate") /\ call'[s].pc = "save"
                    /\ call'[s].closed = call[s].closed
<1>1. /\ \A pc \in PCs : Goto(s, pc) =>
                /\ call'[s].pc = pc /\ call'[s].req = call[s].req
                /\ call'[s].verdict = call[s].verdict
                /\ call'[s].closed = call[s].closed
                /\ call'[s].exposed = call[s].exposed
      /\ Refuse(s) \/ Close(s) =>
                /\ call'[s].pc = "save" /\ call'[s].req = call[s].req
                /\ call'[s].verdict = call[s].verdict
                /\ call'[s].exposed = call[s].exposed
  BY MovesKeepRest DEF TypeOK
<1>2. call[s].verdict = "deny"
  BY DEF CallBacked
<1>3. CASE Lookup(s)
  BY <1>1, <1>2, <1>3 DEF Lookup, PCs
<1>4. CASE KillSwitch(s)
  BY <1>1, <1>2, <1>4 DEF KillSwitch, PCs
<1>5. CASE Budget(s)
  BY <1>1, <1>2, <1>5 DEF Budget, PCs
<1>6. CASE Guards(s)
  BY <1>1, <1>2, <1>6 DEF Guards, PCs
<1>7. CASE Approve(s)
  BY <1>1, <1>2, <1>7 DEF Approve, PCs
<1>8. CASE Policy(s)
  BY <1>1, <1>2, <1>8 DEF Policy, PCs
<1>9. CASE RateLimit(s)
  <2>1. CASE Refuse(s) \/ Close(s) \/ Return(s)
    BY <1>1, <1>2, <1>9, <2>1 DEF RateLimit
  <2>2. ASSUME NEW v, call' = [call EXCEPT ![s] = [@ EXCEPT !.pc = "save", !.verdict = v]]
        PROVE  /\ call'[s].req = call[s].req /\ call'[s].exposed = call[s].exposed
               /\ call'[s].pc = "save" /\ call'[s].closed = call[s].closed
    BY <2>2 DEF TypeOK, CallTypeOK, CallRecord
  <2> QED BY <1>9, <2>1, <2>2 DEF RateLimit
<1>10. ~Save(s)
  BY DEF Save
<1> QED BY <1>3, <1>4, <1>5, <1>6, <1>7, <1>8, <1>9, <1>10 DEF Continue

(* A call that is closing, failClosed, is at its save with a denial; and an
   enforced decision that awaits approval has its approval row, so a lookup
   reads it back as it was told. *)
ClosedDenies ==
    \A s \in Slots : call[s].closed => At(s, "save") /\ call[s].verdict = "deny"
PendingHasRow ==
    \A q \in Requests \ DryRun :
        decision[q] = "pending" => approval[q].status # "none"

AnswerInv == AnswersAgree /\ ClosedDenies /\ PendingHasRow

(* The steps that tell nobody anything and decide nothing. *)
LEMMA QuietAnswers ==
    ASSUME AnswerInv, UNCHANGED <<answers, decision>>,
           \A q \in Requests : approval[q].status # "none" => approval'[q].status # "none",
           \A s \in Slots : call'[s].closed => call'[s].pc = "save" /\ call'[s].verdict = "deny"
    PROVE  AnswerInv'
BY DEF AnswerInv, AnswersAgree, ClosedDenies, PendingHasRow, At

LEMMA ContinueKeepsClosed ==
    ASSUME TypeOK, ApprovalInv, ClosedDenies, NEW s \in Slots, Continue(s) \/ Die(s)
    PROVE  ClosedDenies'
<1>1. \A t \in Slots \ {s} : call'[t] = call[t]
  BY OneSlotMoves DEF TypeOK
<1>2. call'[s].closed => call'[s].pc = "save" /\ call'[s].verdict = "deny"
  <2>1. CASE Return(s)
    BY <2>1, MovesKeepRest DEF TypeOK
  <2>2. CASE Continue(s) /\ ~At(s, "save")
    <3>1. CallBacked(s) /\ ~call[s].closed
      BY <2>2 DEF ApprovalInv, CallsBacked, ClosedDenies
    <3> QED BY <2>1, <2>2, <3>1, ContinueOutcome
  <2>3. Continue(s) /\ At(s, "save") => Return(s)
    BY DEF Continue, Lookup, KillSwitch, Budget, Guards, Approve, Policy, RateLimit, Save, At
  <2> QED BY <2>1, <2>2, <2>3 DEF Die
<1> QED BY <1>1, <1>2 DEF ClosedDenies, At

LEMMA LookupAnswers ==
    ASSUME TypeOK, ApprovalInv, AnswerInv, NEW s \in Slots, Lookup(s)
    PROVE  AnswerInv'
<1> DEFINE r == Req(s)
<1>1. ClosedDenies' /\ PendingHasRow'
  BY ContinueKeepsClosed DEF AnswerInv, Continue, PendingHasRow, Lookup
<1>2. CASE answers' = answers
  BY <1>1, <1>2 DEF Lookup, AnswerInv, AnswersAgree
<1>3. CASE decision[r] # "none" /\ Answer(r, Replayed(r), TRUE)
  <2>1. r \in Requests
    BY BusyRequest DEF Lookup, At, TypeOK
  <2>2. /\ Replayed(r) = "allow" => decision[r] = "allow"
        /\ r \notin DryRun => decision[r] = Replayed(r)
    BY <2>1 DEF Replayed, AnswerInv, PendingHasRow
  <2>3. decision' = decision /\ answers' = answers \cup {<<r, Replayed(r), TRUE>>}
    BY <1>3 DEF Answer, Lookup
  <2>4. ASSUME NEW a \in answers'
        PROVE  /\ a[2] = "allow" => decision'[a[1]] = "allow"
               /\ a[3] /\ a[1] \notin DryRun => decision'[a[1]] = a[2]
               /\ ~a[3] => a[2] = "deny"
    <3>1. CASE a \in answers
      BY <2>3, <3>1 DEF AnswerInv, AnswersAgree
    <3>2. CASE a = <<r, Replayed(r), TRUE>>
      BY <2>2, <2>3, <3>2
    <3> QED BY <2>3, <3>1, <3>2
  <2>5. AnswersAgree'
    BY <2>4 DEF AnswersAgree
  <2> QED BY <1>1, <2>5 DEF AnswerInv
<1> QED BY <1>2, <1>3 DEF Lookup

LEMMA SaveAnswers ==
    ASSUME TypeOK, ApprovalInv, AnswerInv, NEW s \in Slots, Save(s)
    PROVE  AnswerInv'
<1> DEFINE r == Req(s)  v == call[s].verdict
<1>1. ClosedDenies'
  BY ContinueKeepsClosed DEF AnswerInv, Continue
<1>2. r \in Requests /\ v \in Verdicts
  BY BusyRequest DEF Save, At, TypeOK, CallRecord
<1>3. PendingHasRow'
  <2>1. CASE Insert(r, v)
    <3>1. /\ \A q \in Requests \ {r} : decision'[q] = decision[q]
          /\ \A q \in Requests \ {r} : approval'[q] = approval[q]
          /\ decision'[r] = v
          /\ v = "pending" /\ r \notin DryRun => approval'[r].status = "pending"
      BY <1>2, <2>1 DEF Insert, TypeOK, NoRow
    <3> QED BY <3>1 DEF PendingHasRow, AnswerInv
  <2>2. CASE UNCHANGED <<decision, approval>>
    BY <2>2 DEF PendingHasRow, AnswerInv
  <2> QED BY <2>1, <2>2 DEF Save
<1>4. ASSUME NEW a \in answers
      PROVE  /\ a[2] = "allow" => decision'[a[1]] = "allow"
             /\ a[3] /\ a[1] \notin DryRun => decision'[a[1]] = a[2]
             /\ ~a[3] => a[2] = "deny"
  <2>1. a[1] \in Requests /\ a[2] \in Verdicts
    BY DEF TypeOK
  <2>2. decision[a[1]] # "none" => decision'[a[1]] = decision[a[1]]
    BY <1>2, <2>1 DEF Save, Insert, TypeOK
  <2> QED BY <2>1, <2>2 DEF AnswerInv, AnswersAgree, Verdicts
<1>5. ASSUME NEW a \in answers', a \notin answers
      PROVE  /\ a[2] = "allow" => decision'[a[1]] = "allow"
             /\ a[3] /\ a[1] \notin DryRun => decision'[a[1]] = a[2]
             /\ ~a[3] => a[2] = "deny"
  <2>1. \/ a = <<r, v, TRUE>> /\ decision'[r] = v
        \/ a = <<r, v, FALSE>> /\ v = "deny"
    <3>1. Insert(r, v) => decision'[r] = v
      BY <1>2 DEF Insert, TypeOK
    <3>2. call[s].closed => v = "deny"
      BY DEF AnswerInv, ClosedDenies
    <3>3. \/ Insert(r, v) /\ Answer(r, v, TRUE)
          \/ call[s].closed /\ Answer(r, v, FALSE)
          \/ UNCHANGED answers
      BY DEF Save
    <3> HIDE DEF r, v
    <3> QED BY <1>5, <3>1, <3>2, <3>3 DEF Answer
  <2>2. CASE a = <<r, v, TRUE>> /\ decision'[r] = v
    BY <2>2
  <2>3. CASE a = <<r, v, FALSE>> /\ v = "deny"
    <3>1. a[2] = "deny" /\ a[3] = FALSE
      BY <2>3
    <3> QED BY <3>1, Zenon
  <2> QED BY <2>1, <2>2, <2>3
<1>6. AnswersAgree'
  <2> HIDE DEF r, v
  <2> QED BY <1>4, <1>5 DEF AnswersAgree
<1> QED BY <1>1, <1>3, <1>6 DEF AnswerInv

(* Callers agree: whoever is told the stored decision of an enforced request
   is told the same, and an allow is never told unless it is stored, whatever
   runs at once and however often the database fails. *)
THEOREM CallersAgree == Spec => []AnswersAgree
<1>1. Init => AnswerInv
  BY DEF Init, AnswerInv, AnswersAgree, ClosedDenies, PendingHasRow, NoCall
<1>2. TypeOK /\ ApprovalInv /\ AnswerInv /\ [Next]_vars => AnswerInv'
  <2> SUFFICES ASSUME TypeOK, ApprovalInv, AnswerInv, [Next]_vars PROVE AnswerInv'
    OBVIOUS
  <2>1. ASSUME NEW s \in Slots, Begin(s) PROVE AnswerInv'
    <3>1. call'[s].closed = FALSE
      BY <2>1 DEF Begin, NoCall, TypeOK, CallTypeOK
    <3>2. \A t \in Slots \ {s} : call'[t] = call[t]
      BY <2>1, OneSlotMoves DEF TypeOK
    <3> QED BY <2>1, <3>1, <3>2, QuietAnswers DEF Begin, AnswerInv, ClosedDenies, At
  <2>2. ASSUME NEW s \in Slots, Continue(s) \/ Die(s) PROVE AnswerInv'
    <3>1. ClosedDenies'
      BY <2>2, ContinueKeepsClosed DEF AnswerInv
    <3>2. CASE Lookup(s)
      BY <3>2, LookupAnswers
    <3>3. CASE Save(s)
      BY <3>3, SaveAnswers
    <3>4. CASE ~Lookup(s) /\ ~Save(s)
      <4>1. UNCHANGED <<answers, decision>>
        BY <2>2, <3>4 DEF Continue, KillSwitch, Budget, Guards, Approve, Policy,
           RateLimit, Die
      <4>2. \A q \in Requests : approval'[q].status = approval[q].status
        <5>1. Spend(s) => \A q \in Requests : approval'[q].status = approval[q].status
          BY DEF Spend, TypeOK, ApprovalRow
        <5> QED BY <2>2, <3>4, <5>1 DEF Continue, KillSwitch, Budget, Guards, Approve,
                Policy, RateLimit, Die
      <4> QED BY <3>1, <4>1, <4>2, QuietAnswers DEF ClosedDenies, At
    <3> QED BY <3>2, <3>3, <3>4
  <2>3. ASSUME \/ \E d \in Deciders : DecideCheck(d) \/ DecideUpdate(d)
               \/ \E q \in Requests : ExpireApproval(q)
               \/ \E m \in Meters : ElapseWindow(m)
               \/ \E k \in Switches : SwitchOn(k) \/ SwitchOff(k)
               \/ UNCHANGED vars
        PROVE  AnswerInv'
    <3>1. UNCHANGED <<answers, decision>>
      BY <2>3 DEF DecideCheck, DecideUpdate, ExpireApproval, ElapseWindow, SwitchOn,
         SwitchOff, vars
    <3>2. \A q \in Requests : approval[q].status # "none" => approval'[q].status # "none"
      <4>1. ASSUME NEW d \in Deciders, DecideUpdate(d), NEW q \in Requests,
                   approval[q].status # "none"
            PROVE  approval'[q].status # "none"
        <5>1. decider[d].says \in Decisions /\ decider[d].of \in Requests
          BY <4>1 DEF DecideUpdate, TypeOK, DeciderTypeOK, Vote
        <5> QED BY <4>1, <5>1 DEF DecideUpdate, TypeOK, Decisions
      <4>2. ASSUME NEW p \in Requests, ExpireApproval(p), NEW q \in Requests
            PROVE  approval'[q].status = approval[q].status
        BY <4>2 DEF ExpireApproval, TypeOK, ApprovalRow
      <4> QED BY <2>3, <4>1, <4>2 DEF DecideCheck, ElapseWindow, SwitchOn, SwitchOff, vars
    <3>3. \A s \in Slots : /\ call'[s].pc = call[s].pc
                           /\ call'[s].verdict = call[s].verdict
                           /\ call'[s].closed = call[s].closed
      <4>1. ASSUME NEW k \in Switches, SwitchOff(k), NEW s \in Slots
            PROVE  /\ call'[s].pc = call[s].pc
                   /\ call'[s].verdict = call[s].verdict
                   /\ call'[s].closed = call[s].closed
        <5>1. call[s] \in CallRecord
          BY DEF TypeOK, CallTypeOK
        <5>2. \E b : call'[s] = [call[s] EXCEPT !.exposed = b]
          BY <4>1 DEF SwitchOff
        <5> QED BY <5>1, <5>2 DEF CallRecord
      <4> QED BY <2>3, <4>1 DEF DecideCheck, DecideUpdate, ExpireApproval, ElapseWindow,
              SwitchOn, vars
    <3> QED BY <3>1, <3>2, <3>3, QuietAnswers DEF AnswerInv, ClosedDenies, At
  <2> QED BY <2>1, <2>2, <2>3 DEF Next
<1>3. AnswerInv => AnswersAgree
  BY DEF AnswerInv
<1> QED BY <1>1, <1>2, <1>3, TypeCorrect, ApprovalInvariant, PTL DEF Spec

-----------------------------------------------------------------------------
(* Kill switches *)

(* A call that has been stopped since before it was submitted has not passed
   the kill switch lookup, unless it is saving a denial. *)
ExposedIsStopped ==
    \A s \in Slots : call[s].exposed =>
        /\ Killed(Req(s))
        /\ \/ At(s, "lookup") \/ At(s, "kill")
           \/ At(s, "save") /\ call[s].verdict = "deny"

(* Faulted lookups close and stopped ones refuse: nothing exposed gets by. *)
LEMMA KillSwitchStops ==
    ASSUME TypeOK, ApprovalInv, ExposedIsStopped, NEW s \in Slots,
           Continue(s), call'[s].exposed
    PROVE  /\ call'[s].req = call[s].req
           /\ \/ call'[s].pc = "kill"
              \/ call'[s].pc = "save" /\ call'[s].verdict = "deny"
<1>1. ~Return(s)
  BY MovesKeepRest DEF TypeOK
<1>2. ~At(s, "save") /\ CallBacked(s)
  BY <1>1 DEF Continue, Lookup, KillSwitch, Budget, Guards, Approve, Policy, RateLimit,
     Save, At, ApprovalInv, CallsBacked
<1>3. call'[s].req = call[s].req /\ call[s].exposed
  BY <1>1, <1>2, ContinueOutcome
<1>4. call[s].verdict = "deny" /\ (At(s, "lookup") \/ (At(s, "kill") /\ Killed(Req(s))))
  BY <1>2, <1>3 DEF ExposedIsStopped, CallBacked
<1>5. /\ Goto(s, "kill") => call'[s].pc = "kill"
      /\ Refuse(s) \/ Close(s) => call'[s].pc = "save" /\ call'[s].verdict = "deny"
  BY <1>4, MovesKeepRest DEF TypeOK, PCs
<1>6. CASE Lookup(s)
  BY <1>1, <1>3, <1>5, <1>6 DEF Lookup
<1>7. CASE KillSwitch(s)
  BY <1>3, <1>4, <1>5, <1>7 DEF KillSwitch, At
<1> QED BY <1>3, <1>4, <1>6, <1>7 DEF Continue, Budget, Guards, Approve, Policy,
        RateLimit, Save, At

LEMMA SwitchesKeepStopped ==
    ASSUME TypeOK, ExposedIsStopped,
           \E k \in Switches : SwitchOn(k) \/ SwitchOff(k)
    PROVE  ExposedIsStopped'
<1>1. ASSUME NEW k \in Switches, SwitchOn(k) PROVE ExposedIsStopped'
  <2>1. \A r \in Requests : Killed(r) => Killed(r)'
    BY <1>1 DEF SwitchOn, Killed, TypeOK
  <2>2. \A s \in Slots : call[s].exposed => Req(s) \in Requests
    <3> SUFFICES ASSUME NEW s \in Slots, call[s].exposed PROVE Req(s) \in Requests
      OBVIOUS
    <3>1. PICK j \in Switches : Req(s) \in Stops[j]
      BY DEF ExposedIsStopped, Killed
    <3>2. Stops[j] \subseteq Requests
      OBVIOUS
    <3> QED BY <3>1, <3>2
  <2>3. ASSUME NEW s \in Slots, call[s].exposed PROVE Killed(Req(s))'
    <3>1. PICK r \in Requests : r = Req(s)
      BY <2>2, <2>3
    <3>2. Killed(r)'
      BY <2>1, <2>3, <3>1 DEF ExposedIsStopped
    <3> QED BY <1>1, <3>1, <3>2 DEF SwitchOn, Killed, Req
  <2> QED BY <1>1, <2>3 DEF SwitchOn, ExposedIsStopped, At
<1>2. ASSUME NEW k \in Switches, SwitchOff(k) PROVE ExposedIsStopped'
  <2> SUFFICES ASSUME NEW s \in Slots, call'[s].exposed
               PROVE  /\ Killed(Req(s))'
                      /\ \/ At(s, "lookup")' \/ At(s, "kill")'
                         \/ At(s, "save")' /\ call'[s].verdict = "deny"
    BY DEF ExposedIsStopped
  <2> DEFINE still == call[s].exposed /\ \E j \in Switches \ {k} :
                          switch[j] = "on" /\ Req(s) \in Stops[j]
  <2>1. call'[s] = [call[s] EXCEPT !.exposed = still]
    BY <1>2 DEF SwitchOff
  <2>2. /\ still
        /\ call'[s].pc = call[s].pc /\ call'[s].req = call[s].req
        /\ call'[s].verdict = call[s].verdict
    <3>1. call[s] \in CallRecord
      BY DEF TypeOK, CallTypeOK
    <3> HIDE DEF still
    <3> QED BY <2>1, <3>1 DEF CallRecord
  <2>3. PICK j \in Switches \ {k} : switch[j] = "on" /\ Req(s) \in Stops[j]
    BY <2>2
  <2>4. switch'[j] = "on"
    BY <1>2, <2>3 DEF SwitchOff, TypeOK
  <2> QED BY <2>2, <2>3, <2>4 DEF ExposedIsStopped, Killed, Req, At
<1> QED BY <1>1, <1>2

LEMMA StoppedInvariant == Spec => []ExposedIsStopped
<1>1. Init => ExposedIsStopped
  BY DEF Init, ExposedIsStopped, NoCall
<1>2. TypeOK /\ ApprovalInv /\ ExposedIsStopped /\ [Next]_vars => ExposedIsStopped'
  <2> SUFFICES ASSUME TypeOK, ApprovalInv, ExposedIsStopped, [Next]_vars
               PROVE  ExposedIsStopped'
    OBVIOUS
  <2>1. ASSUME NEW s \in Slots, Begin(s) PROVE ExposedIsStopped'
    <3>1. PICK r \in Requests, t \in Deciders \cup {NoDecider} :
            call' = [call EXCEPT ![s] = [NoCall EXCEPT !.pc = "lookup", !.req = r,
                                           !.token = t, !.exposed = Killed(r)]]
      BY <2>1 DEF Begin
    <3>2. /\ call'[s].pc = "lookup" /\ call'[s].req = r
          /\ call'[s].exposed = Killed(r)
      BY <3>1 DEF NoCall, TypeOK, CallTypeOK
    <3>3. \A t2 \in Slots \ {s} : call'[t2] = call[t2]
      BY <2>1, OneSlotMoves DEF TypeOK
    <3> QED BY <2>1, <3>2, <3>3 DEF Begin, ExposedIsStopped, Killed, Req, At
  <2>2. ASSUME NEW s \in Slots, Continue(s) PROVE ExposedIsStopped'
    <3>1. \A t \in Slots \ {s} : call'[t] = call[t]
      BY <2>2, OneSlotMoves DEF TypeOK
    <3>2. switch' = switch
      BY <2>2 DEF Continue, Lookup, KillSwitch, Budget, Guards, Approve, Policy,
         RateLimit, Save
    <3>3. call'[s].exposed => call[s].exposed
      <4>1. Save(s) => ~call'[s].exposed
        BY MovesKeepRest DEF TypeOK, Save
      <4>2. Return(s) => ~call'[s].exposed
        BY MovesKeepRest DEF TypeOK
      <4>3. ~Save(s) => ~At(s, "save")
        BY <2>2 DEF Continue, Lookup, KillSwitch, Budget, Guards, Approve, Policy,
           RateLimit, At
      <4> QED BY <2>2, <4>1, <4>2, <4>3, ContinueOutcome DEF ApprovalInv, CallsBacked
    <3> QED BY <2>2, <3>1, <3>2, <3>3, KillSwitchStops DEF ExposedIsStopped, Killed, Req, At
  <2>3. ASSUME NEW s \in Slots, Die(s) PROVE ExposedIsStopped'
    <3>1. \A t \in Slots \ {s} : call'[t] = call[t]
      BY <2>3, OneSlotMoves DEF TypeOK
    <3>2. ~call'[s].exposed
      BY <2>3, MovesKeepRest DEF Die, TypeOK
    <3> QED BY <2>3, <3>1, <3>2 DEF Die, ExposedIsStopped, Killed, Req, At
  <2>4. UNCHANGED <<call, switch>> => ExposedIsStopped'
    BY DEF ExposedIsStopped, Killed, Req, At
  <2> QED BY <2>1, <2>2, <2>3, <2>4, SwitchesKeepStopped DEF Next, vars, DecideCheck,
          DecideUpdate, ExpireApproval, ElapseWindow
<1> QED BY <1>1, <1>2, TypeCorrect, ApprovalInvariant, PTL DEF Spec

(* While a kill switch stops a request from before its submission until its
   decision, that decision is not an allow: the lookup is awaited before
   anything is granted, and a lookup that fails closes the call. *)
THEOREM SwitchesStop == Spec => KillHolds
<1>1. TypeOK /\ ExposedIsStopped /\ [Next]_vars =>
        \A r \in Requests : decision[r] = "none" /\ decision'[r] = "allow" =>
            \E s \in Slots : At(s, "save") /\ Req(s) = r /\ call'[s] # call[s]
                              /\ ~call[s].exposed
  <2> SUFFICES ASSUME TypeOK, ExposedIsStopped, [Next]_vars, NEW r \in Requests,
                      decision[r] = "none", decision'[r] = "allow"
               PROVE  \E s \in Slots : At(s, "save") /\ Req(s) = r /\ call'[s] # call[s]
                                        /\ ~call[s].exposed
    OBVIOUS
  <2>1. PICK s \in Slots : Save(s)
    BY DEF Next, vars, Begin, Die, Continue, Lookup, KillSwitch, Budget, Guards, Approve,
       Policy, RateLimit, DecideCheck, DecideUpdate, ExpireApproval, ElapseWindow,
       SwitchOn, SwitchOff
  <2>2. At(s, "save") /\ call'[s].pc = "idle"
    BY <2>1, MovesKeepRest DEF Save, TypeOK
  <2>3. Req(s) = r /\ call[s].verdict = "allow"
    BY <2>1 DEF Save, Insert, TypeOK
  <2> QED BY <2>2, <2>3 DEF ExposedIsStopped, At
<1> QED BY <1>1, TypeCorrect, StoppedInvariant, PTL DEF Spec, KillHolds

-----------------------------------------------------------------------------
(* Budgets and rate limits *)

(* Every allowed call was charged to each row it is metered by before it was
   saved.  The calls that hold such a charge and are not yet saved count with
   those that are: together they never exceed what the earlier windows had
   room for and what the present one has used. *)
GrantedOn(m) ==
    {r \in Requests : Granted(r) /\ m \in BudgetRows(r) \cup RateRows(r)}
PaidFor(s, m) ==
    /\ Enforced(s)
    /\ \/ /\ m \in BudgetRows(Req(s))
          /\ At(s, "guards") \/ At(s, "approve") \/ At(s, "policy") \/ At(s, "rate")
       \/ /\ m \in BudgetRows(Req(s)) \cup RateRows(Req(s))
          /\ At(s, "save") /\ call[s].verdict = "allow"
PayingFor(m) == {s \in Slots : PaidFor(s, m)}

WithinLimit(m) ==
    /\ meter[m].windows >= 1 /\ meter[m].used <= Limit[m]
    /\ IsFiniteSet(GrantedOn(m)) /\ IsFiniteSet(PayingFor(m))
    /\ Cardinality(GrantedOn(m)) + Cardinality(PayingFor(m)) + Limit[m]
         <= Limit[m] * meter[m].windows + meter[m].used
SpendInv == \A m \in Meters : WithinLimit(m)

LEMMA NextWindow ==
    ASSUME NEW l \in Nat, NEW w \in Nat
    PROVE  l * w \in Nat /\ l * (w + 1) = l * w + l
OBVIOUS

(* Nobody is granted more and nobody new is paying: the row only gains room. *)
LEMMA NothingPaid ==
    ASSUME MeterTypeOK, NEW m \in Meters, WithinLimit(m),
           GrantedOn(m)' = GrantedOn(m), PayingFor(m)' \subseteq PayingFor(m),
           \/ meter'[m].used = meter[m].used /\ meter'[m].windows = meter[m].windows
           \/ /\ ~meter[m].expired /\ meter[m].used < Limit[m]
              /\ meter'[m].used = meter[m].used + 1 /\ meter'[m].windows = meter[m].windows
           \/ /\ meter[m].expired
              /\ meter'[m].used = 1 /\ meter'[m].windows = meter[m].windows + 1
    PROVE  WithinLimit(m)'
<1> DEFINE g == Cardinality(GrantedOn(m))  p == Cardinality(PayingFor(m))
           p2 == Cardinality(PayingFor(m)')
           l == Limit[m]  w == meter[m].windows
<1>1. /\ l \in Nat /\ l >= 1 /\ w \in Nat /\ meter[m].used \in Nat
  BY DEF MeterTypeOK
<1>2. /\ g \in Nat /\ p \in Nat /\ p2 \in Nat /\ p2 <= p
      /\ IsFiniteSet(PayingFor(m)')
  BY FS_Subset, FS_CardinalityType DEF WithinLimit
<1>3. l * w \in Nat /\ l * (w + 1) = l * w + l
  BY <1>1, NextWindow
<1>4. /\ IsFiniteSet(GrantedOn(m)) /\ w >= 1 /\ meter[m].used <= l
      /\ g + p + l <= l * w + meter[m].used
  BY DEF WithinLimit
<1>5. /\ meter'[m].windows >= 1 /\ meter'[m].used <= l
      /\ g + p2 + l <= l * meter'[m].windows + meter'[m].used
  <2> HIDE DEF g, p, p2
  <2>1. CASE meter'[m].used = meter[m].used /\ meter'[m].windows = w
    BY <1>1, <1>2, <1>3, <1>4, <2>1
  <2>2. CASE /\ meter[m].used < l
             /\ meter'[m].used = meter[m].used + 1 /\ meter'[m].windows = w
    BY <1>1, <1>2, <1>3, <1>4, <2>2
  <2>3. CASE meter'[m].used = 1 /\ meter'[m].windows = w + 1
    BY <1>1, <1>2, <1>3, <1>4, <2>3
  <2> QED BY <2>1, <2>2, <2>3
<1> QED BY <1>2, <1>4, <1>5 DEF WithinLimit

(* A charge makes room for the call that is charged. *)
LEMMA OnePaid ==
    ASSUME MeterTypeOK, NEW m \in Meters, WithinLimit(m), NEW s \in Slots,
           GrantedOn(m)' = GrantedOn(m), PayingFor(m)' \subseteq PayingFor(m) \cup {s},
           \/ /\ ~meter[m].expired /\ meter[m].used < Limit[m]
              /\ meter'[m].used = meter[m].used + 1 /\ meter'[m].windows = meter[m].windows
           \/ /\ meter[m].expired
              /\ meter'[m].used = 1 /\ meter'[m].windows = meter[m].windows + 1
    PROVE  WithinLimit(m)'
<1> DEFINE g == Cardinality(GrantedOn(m))  p == Cardinality(PayingFor(m))
           p2 == Cardinality(PayingFor(m)')
           l == Limit[m]  w == meter[m].windows
<1>1. /\ l \in Nat /\ l >= 1 /\ w \in Nat /\ meter[m].used \in Nat
  BY DEF MeterTypeOK
<1>2. /\ g \in Nat /\ p \in Nat /\ p2 \in Nat /\ p2 <= p + 1
      /\ IsFiniteSet(PayingFor(m)')
  <2>1. IsFiniteSet(PayingFor(m)) /\ IsFiniteSet(GrantedOn(m))
    BY DEF WithinLimit
  <2>2. /\ IsFiniteSet(PayingFor(m) \cup {s})
        /\ Cardinality(PayingFor(m) \cup {s}) \in {p, p + 1}
    BY <2>1, FS_AddElement
  <2>3. /\ IsFiniteSet(PayingFor(m)')
        /\ p2 <= Cardinality(PayingFor(m) \cup {s})
    BY <2>2, FS_Subset
  <2>4. g \in Nat /\ p \in Nat /\ p2 \in Nat
    BY <2>1, <2>3, FS_CardinalityType
  <2> HIDE DEF g, p, p2
  <2> QED BY <2>2, <2>3, <2>4
<1>3. l * w \in Nat /\ l * (w + 1) = l * w + l
  BY <1>1, NextWindow
<1>4. /\ IsFiniteSet(GrantedOn(m)) /\ w >= 1 /\ meter[m].used <= l
      /\ g + p + l <= l * w + meter[m].used
  BY DEF WithinLimit
<1>5. /\ meter'[m].windows >= 1 /\ meter'[m].used <= l
      /\ g + p2 + l <= l * meter'[m].windows + meter'[m].used
  <2> HIDE DEF g, p, p2
  <2>2. CASE /\ meter[m].used < l
             /\ meter'[m].used = meter[m].used + 1 /\ meter'[m].windows = w
    BY <1>1, <1>2, <1>3, <1>4, <2>2
  <2>3. CASE meter'[m].used = 1 /\ meter'[m].windows = w + 1
    BY <1>1, <1>2, <1>3, <1>4, <2>3
  <2> QED BY <2>2, <2>3
<1> QED BY <1>2, <1>4, <1>5 DEF WithinLimit

(* The save of an allowed call turns its charge into a grant. *)
LEMMA PaidIsGranted ==
    ASSUME MeterTypeOK, NEW m \in Meters, WithinLimit(m), NEW s \in Slots, NEW r,
           s \in PayingFor(m), PayingFor(m)' \subseteq PayingFor(m) \ {s},
           GrantedOn(m)' \subseteq GrantedOn(m) \cup {r}, meter'[m] = meter[m]
    PROVE  WithinLimit(m)'
<1> DEFINE g == Cardinality(GrantedOn(m))  p == Cardinality(PayingFor(m))
           g2 == Cardinality(GrantedOn(m)')  p2 == Cardinality(PayingFor(m)')
<1>1. IsFiniteSet(PayingFor(m)) /\ IsFiniteSet(GrantedOn(m))
  BY DEF WithinLimit
<1>2. /\ IsFiniteSet(PayingFor(m) \ {s}) /\ Cardinality(PayingFor(m) \ {s}) = p - 1
      /\ IsFiniteSet(GrantedOn(m) \cup {r})
      /\ Cardinality(GrantedOn(m) \cup {r}) \in {g, g + 1}
  BY <1>1, FS_AddElement, FS_RemoveElement
<1>3. /\ IsFiniteSet(PayingFor(m)') /\ p2 <= Cardinality(PayingFor(m) \ {s})
      /\ IsFiniteSet(GrantedOn(m)') /\ g2 <= Cardinality(GrantedOn(m) \cup {r})
  BY <1>2, FS_Subset
<1>4. g \in Nat /\ p \in Nat /\ g2 \in Nat /\ p2 \in Nat
  BY <1>1, <1>3, FS_CardinalityType
<1>5. /\ meter[m].windows \in Nat /\ meter[m].used \in Nat /\ Limit[m] \in Nat
      /\ Limit[m] * meter[m].windows \in Nat
  BY NextWindow DEF MeterTypeOK
<1>6. g2 + p2 <= g + p
  <2> HIDE DEF g, p, g2, p2
  <2> QED BY <1>2, <1>3, <1>4
<1>7. g2 + p2 + Limit[m] <= Limit[m] * meter[m].windows + meter[m].used
  <2>1. g + p + Limit[m] <= Limit[m] * meter[m].windows + meter[m].used
    BY DEF WithinLimit
  <2> HIDE DEF g, p, g2, p2
  <2> QED BY <1>4, <1>5, <1>6, <2>1
<1> QED BY <1>3, <1>7 DEF WithinLimit

(* What a charge does to one row. *)
LEMMA ChargedRow ==
    ASSUME MeterTypeOK, NEW m \in Meters, WithinLimit(m), NEW rows,
           ~Exhausted(rows), meter' = Charged(rows), m \in rows
    PROVE  \/ /\ ~meter[m].expired /\ meter[m].used < Limit[m]
              /\ meter'[m].used = meter[m].used + 1 /\ meter'[m].windows = meter[m].windows
           \/ /\ meter[m].expired
              /\ meter'[m].used = 1 /\ meter'[m].windows = meter[m].windows + 1
<1>1. meter[m] \in [used : Nat, expired : BOOLEAN, windows : Nat] /\ Limit[m] \in Nat
  BY DEF MeterTypeOK
<1>2. ~meter[m].expired => meter[m].used < Limit[m]
  BY <1>1 DEF Exhausted
<1>3. meter'[m] = IF meter[m].expired
          THEN [used |-> 1, expired |-> FALSE, windows |-> meter[m].windows + 1]
          ELSE [meter[m] EXCEPT !.used = @ + 1]
  BY DEF Charged
<1>4. CASE meter[m].expired
  BY <1>3, <1>4
<1>5. CASE ~meter[m].expired
  <2>1. meter'[m] = [meter[m] EXCEPT !.used = @ + 1]
    BY <1>3, <1>5
  <2> QED BY <1>1, <1>2, <1>5, <2>1
<1> QED BY <1>4, <1>5

(* What a charge that may or may not be made does to one row. *)
LEMMA ChargeOutcome ==
    ASSUME MeterTypeOK, NEW m \in Meters, WithinLimit(m), NEW rows,
           NEW consume \in BOOLEAN,
           \/ \E allowed \in BOOLEAN : CheckAndConsume(rows, consume, allowed)
           \/ ChargeInDoubt(rows, consume)
    PROVE  \/ meter'[m] = meter[m]
           \/ /\ ~meter[m].expired /\ meter[m].used < Limit[m]
              /\ meter'[m].used = meter[m].used + 1 /\ meter'[m].windows = meter[m].windows
           \/ /\ meter[m].expired
              /\ meter'[m].used = 1 /\ meter'[m].windows = meter[m].windows + 1
<1>1. \/ meter' = meter
      \/ ~Exhausted(rows) /\ meter' = Charged(rows)
  BY DEF CheckAndConsume, ChargeInDoubt
<1>2. CASE m \notin rows
  BY <1>1, <1>2 DEF Charged
<1>3. CASE m \in rows
  BY <1>1, <1>3, ChargedRow
<1> QED BY <1>2, <1>3

(* A slot other than the one that moves pays as before. *)
LEMMA OthersPay ==
    ASSUME CallTypeOK, NEW m \in Meters, NEW s \in Slots,
           \A t \in Slots \ {s} : call'[t] = call[t]
    PROVE  \A t \in Slots \ {s} : PaidFor(t, m)' <=> PaidFor(t, m)
BY DEF PaidFor, Enforced, Req, At, BudgetRows, RateRows

(* A step that pays for nothing: it returns, or it stands where nothing is
   paid for, or it pays for what it paid for before. *)
LEMMA QuietSpend ==
    ASSUME TypeOK, SpendInv, NEW s \in Slots,
           \A t \in Slots \ {s} : call'[t] = call[t],
           \A m \in Meters : PaidFor(s, m)' => PaidFor(s, m),
           UNCHANGED <<decision, meter>>
    PROVE  SpendInv'
<1> SUFFICES ASSUME NEW m \in Meters PROVE WithinLimit(m)'
  BY DEF SpendInv
<1>1. GrantedOn(m)' = GrantedOn(m)
  BY DEF GrantedOn, Granted, BudgetRows, RateRows
<1>2. PayingFor(m)' \subseteq PayingFor(m)
  BY OthersPay DEF PayingFor, TypeOK
<1> QED BY <1>1, <1>2, NothingPaid DEF SpendInv, TypeOK

(* A step of one slot that charges some rows and grants nothing. *)
LEMMA ChargingSpend ==
    ASSUME TypeOK, SpendInv, NEW s \in Slots, NEW rows, NEW consume \in BOOLEAN,
           \A t \in Slots \ {s} : call'[t] = call[t],
           UNCHANGED decision,
           \/ \E allowed \in BOOLEAN : CheckAndConsume(rows, consume, allowed)
           \/ ChargeInDoubt(rows, consume),
           \A m \in Meters : PaidFor(s, m)' =>
               \/ PaidFor(s, m)
               \/ m \in rows /\ consume /\ CheckAndConsume(rows, consume, TRUE)
    PROVE  SpendInv'
<1> SUFFICES ASSUME NEW m \in Meters PROVE WithinLimit(m)'
  BY DEF SpendInv
<1>1. GrantedOn(m)' = GrantedOn(m)
  BY DEF GrantedOn, Granted, BudgetRows, RateRows
<1>2. MeterTypeOK /\ WithinLimit(m)
  BY DEF TypeOK, SpendInv
<1>3. \A t \in Slots \ {s} : PaidFor(t, m)' <=> PaidFor(t, m)
  BY OthersPay DEF TypeOK
<1>4. CASE PaidFor(s, m)' => PaidFor(s, m)
  <2>1. PayingFor(m)' \subseteq PayingFor(m)
    BY <1>3, <1>4 DEF PayingFor
  <2> QED BY <1>1, <1>2, <2>1, ChargeOutcome, NothingPaid
<1>5. CASE m \in rows /\ consume /\ CheckAndConsume(rows, consume, TRUE)
  <2>1. ~Exhausted(rows) /\ meter' = Charged(rows)
    BY <1>5 DEF CheckAndConsume
  <2>2. PayingFor(m)' \subseteq PayingFor(m) \cup {s}
    BY <1>3 DEF PayingFor
  <2> QED BY <1>1, <1>2, <1>5, <2>1, <2>2, ChargedRow, OnePaid
<1> QED BY <1>4, <1>5

(* Before its save a call that is paid for has only its budget paid, and a
   denial is never paid for. *)
LEMMA DenialsAreFree ==
    ASSUME NEW s \in Slots, NEW m \in Meters,
           \/ call'[s].pc \in {"idle", "lookup", "kill", "budget"}
           \/ call'[s].pc = "save" /\ call'[s].verdict = "deny"
    PROVE  ~PaidFor(s, m)'
BY DEF PaidFor, At

LEMMA MoveSpend ==
    ASSUME TypeOK, NEW s \in Slots, CallBacked(s), ~At(s, "save"),
           Refuse(s) \/ Close(s) \/ Return(s) \/ Goto(s, "kill") \/ Goto(s, "budget")
    PROVE  \A m \in Meters : ~PaidFor(s, m)'
<1>1. call[s].verdict = "deny"
  BY DEF CallBacked
<1>2. \/ call'[s].pc \in {"idle", "lookup", "kill", "budget"}
      \/ call'[s].pc = "save" /\ call'[s].verdict = "deny"
  BY <1>1, MovesKeepRest DEF TypeOK, PCs
<1> QED BY <1>2, DenialsAreFree

(* A call that moves on between the budget and the save keeps its budget paid. *)
LEMMA PassingSpend ==
    ASSUME TypeOK, NEW s \in Slots, NEW pc \in {"approve", "policy", "rate"}, Goto(s, pc),
           At(s, "guards") \/ At(s, "approve") \/ At(s, "policy")
    PROVE  \A m \in Meters : PaidFor(s, m)' => PaidFor(s, m)
<1>1. call'[s].pc = pc /\ call'[s].req = call[s].req
  BY MovesKeepRest DEF TypeOK, PCs
<1> QED BY <1>1 DEF PaidFor, Enforced, Req, At, BudgetRows, RateRows

LEMMA BudgetSpend ==
    ASSUME TypeOK, ApprovalInv, SpendInv, NEW s \in Slots, Budget(s)
    PROVE  SpendInv'
<1> DEFINE rows == BudgetRows(Req(s))
<1>1. /\ \A t \in Slots \ {s} : call'[t] = call[t]
      /\ CallBacked(s) /\ ~At(s, "save") /\ Enforced(s) \in BOOLEAN
  BY OneSlotMoves DEF Continue, Budget, At, TypeOK, ApprovalInv, CallsBacked, Enforced
<1>2. /\ decision' = decision
      /\ \/ \E allowed \in BOOLEAN : CheckAndConsume(rows, Enforced(s), allowed)
         \/ ChargeInDoubt(rows, Enforced(s))
  BY DEF Budget
<1>3. ASSUME NEW m \in Meters, PaidFor(s, m)'
      PROVE  m \in rows /\ Enforced(s) /\ CheckAndConsume(rows, Enforced(s), TRUE)
  <2>1. CheckAndConsume(rows, Enforced(s), TRUE) /\ Goto(s, "guards")
    BY <1>1, <1>3, MoveSpend DEF Budget
  <2>2. call'[s].pc = "guards" /\ call'[s].req = call[s].req
    BY <2>1, MovesKeepRest DEF TypeOK, PCs
  <2> QED BY <1>3, <2>1, <2>2 DEF PaidFor, At, Req, Enforced, BudgetRows
<1> HIDE DEF rows
<1> QED BY <1>1, <1>2, <1>3, ChargingSpend

LEMMA RateSpend ==
    ASSUME TypeOK, ApprovalInv, SpendInv, NEW s \in Slots, RateLimit(s)
    PROVE  SpendInv'
<1> DEFINE r       == Req(s)
           rows    == RateRows(r)
           spent   == Auth[r] # NoRequest
           consume == Enforced(s) /\ (spent \/ RiskOf[r] # "approval")
           verdict == IF spent \/ RiskOf[r] # "approval" THEN "allow" ELSE "pending"
<1>1. /\ \A t \in Slots \ {s} : call'[t] = call[t]
      /\ CallBacked(s) /\ ~At(s, "save") /\ consume \in BOOLEAN
  BY OneSlotMoves DEF Continue, RateLimit, At, TypeOK, ApprovalInv, CallsBacked, Enforced
<1>2. /\ decision' = decision
      /\ \/ \E allowed \in BOOLEAN : CheckAndConsume(rows, consume, allowed)
         \/ ChargeInDoubt(rows, consume)
  BY DEF RateLimit
<1>3. ASSUME NEW m \in Meters, PaidFor(s, m)'
      PROVE  \/ PaidFor(s, m)
             \/ m \in rows /\ consume /\ CheckAndConsume(rows, consume, TRUE)
  <2>1. /\ CheckAndConsume(rows, consume, TRUE)
        /\ call' = [call EXCEPT ![s] = [@ EXCEPT !.pc = "save", !.verdict = verdict]]
    BY <1>1, <1>3, MoveSpend DEF RateLimit
  <2>2. call'[s].pc = "save" /\ call'[s].req = call[s].req /\ call'[s].verdict = verdict
    BY <2>1 DEF TypeOK, CallTypeOK, CallRecord
  <2>3. /\ Enforced(s) /\ verdict = "allow"
        /\ m \in BudgetRows(r) \cup RateRows(r)
    <3> HIDE DEF verdict
    <3> QED BY <1>3, <2>2 DEF PaidFor, At, Req, Enforced, BudgetRows, RateRows
  <2>4. consume
    BY <2>3
  <2>5. m \in BudgetRows(r) => PaidFor(s, m)
    BY <2>3 DEF PaidFor, RateLimit
  <2> QED BY <2>1, <2>3, <2>4, <2>5
<1> HIDE DEF rows, consume
<1> QED BY <1>1, <1>2, <1>3, ChargingSpend

LEMMA SaveSpend ==
    ASSUME TypeOK, SpendInv, NEW s \in Slots, Save(s)
    PROVE  SpendInv'
<1> DEFINE r == Req(s)  v == call[s].verdict
<1>1. /\ \A t \in Slots \ {s} : call'[t] = call[t]
      /\ At(s, "save") /\ r \in Requests /\ v \in Verdicts /\ meter' = meter
  BY OneSlotMoves, BusyRequest DEF Continue, Save, At, TypeOK, CallRecord
<1>2. \A m \in Meters : ~PaidFor(s, m)'
  <2>1. call'[s].pc = "idle"
    BY MovesKeepRest DEF Save, TypeOK
  <2> QED BY <2>1 DEF PaidFor, At
<1>3. CASE decision' = decision
  BY <1>1, <1>2, <1>3, QuietSpend
<1>4. CASE decision[r] = "none" /\ Insert(r, v)
  <2> SUFFICES ASSUME NEW m \in Meters PROVE WithinLimit(m)'
    BY DEF SpendInv
  <2>1. WithinLimit(m) /\ MeterTypeOK
    BY DEF SpendInv, TypeOK
  <2>2. PayingFor(m)' \subseteq PayingFor(m) \ {s}
    BY <1>1, <1>2, OthersPay DEF PayingFor, TypeOK
  <2>3. \A q \in Requests : decision'[q] = IF q = r THEN v ELSE decision[q]
    BY <1>1, <1>4 DEF Insert, TypeOK
  <2>4. CASE r \notin DryRun /\ v = "allow" /\ m \in BudgetRows(r) \cup RateRows(r)
    <3>1. GrantedOn(m)' \subseteq GrantedOn(m) \cup {r}
      BY <2>3 DEF GrantedOn, Granted, BudgetRows, RateRows
    <3>2. s \in PayingFor(m)
      BY <1>1, <2>4 DEF PayingFor, PaidFor, Enforced
    <3> QED BY <1>1, <2>1, <2>2, <3>1, <3>2, PaidIsGranted
  <2>5. CASE ~(r \notin DryRun /\ v = "allow" /\ m \in BudgetRows(r) \cup RateRows(r))
    <3>1. GrantedOn(m)' = GrantedOn(m)
      BY <1>1, <1>4, <2>3, <2>5 DEF GrantedOn, Granted, BudgetRows, RateRows, Verdicts
    <3> QED BY <1>1, <2>1, <2>2, <3>1, NothingPaid
  <2> QED BY <2>4, <2>5
<1> QED BY <1>3, <1>4 DEF Save

LEMMA ContinueSpend ==
    ASSUME TypeOK, ApprovalInv, SpendInv, NEW s \in Slots, Continue(s)
    PROVE  SpendInv'
<1>1. /\ \A t \in Slots \ {s} : call'[t] = call[t]
      /\ CallBacked(s)
  BY OneSlotMoves DEF TypeOK, ApprovalInv, CallsBacked
<1>2. CASE Lookup(s)
  BY <1>1, <1>2, MoveSpend, QuietSpend DEF Lookup, At
<1>3. CASE KillSwitch(s)
  BY <1>1, <1>3, MoveSpend, QuietSpend DEF KillSwitch, At
<1>4. CASE Guards(s)
  <2>1. ~At(s, "save") /\ UNCHANGED <<decision, meter>>
    BY <1>4 DEF Guards, At
  <2>2. CASE Refuse(s) \/ Close(s)
    BY <1>1, <2>1, <2>2, MoveSpend, QuietSpend
  <2>3. CASE Goto(s, IF Auth[Req(s)] = NoRequest THEN "policy" ELSE "approve")
    <3>1. PICK pc \in {"approve", "policy", "rate"} : Goto(s, pc)
      BY <2>3
    <3>2. At(s, "guards")
      BY <1>4 DEF Guards
    <3> QED BY <1>1, <2>1, <3>1, <3>2, PassingSpend, QuietSpend
  <2> QED BY <1>4, <2>2, <2>3 DEF Guards
<1>5. CASE Approve(s)
  <2>1. ~At(s, "save") /\ At(s, "approve") /\ UNCHANGED <<decision, meter>>
    BY <1>5 DEF Approve, At
  <2>2. CASE Refuse(s) \/ Close(s)
    BY <1>1, <2>1, <2>2, MoveSpend, QuietSpend
  <2>3. CASE Goto(s, "rate")
    BY <1>1, <2>1, <2>3, PassingSpend, QuietSpend
  <2> QED BY <1>5, <2>2, <2>3 DEF Approve
<1>6. CASE Policy(s)
  <2>1. ~At(s, "save") /\ At(s, "policy") /\ UNCHANGED <<decision, meter>>
    BY <1>6 DEF Policy, At
  <2>2. CASE Refuse(s) \/ Close(s)
    BY <1>1, <2>1, <2>2, MoveSpend, QuietSpend
  <2>3. CASE Goto(s, "rate")
    BY <1>1, <2>1, <2>3, PassingSpend, QuietSpend
  <2> QED BY <1>6, <2>2, <2>3 DEF Policy
<1> QED BY <1>2, <1>3, <1>4, <1>5, <1>6, BudgetSpend, RateSpend, SaveSpend DEF Continue

(* A step of somebody else moves no call's charge. *)
LEMMA WorldSpend ==
    ASSUME TypeOK, SpendInv, decision' = decision,
           \A m \in Meters : /\ meter'[m].used = meter[m].used
                             /\ meter'[m].windows = meter[m].windows,
           \A s \in Slots : /\ call'[s].pc = call[s].pc /\ call'[s].req = call[s].req
                            /\ call'[s].verdict = call[s].verdict
    PROVE  SpendInv'
<1> SUFFICES ASSUME NEW m \in Meters PROVE WithinLimit(m)'
  BY DEF SpendInv
<1>1. GrantedOn(m)' = GrantedOn(m)
  BY DEF GrantedOn, Granted, BudgetRows, RateRows
<1>2. PayingFor(m)' \subseteq PayingFor(m)
  BY DEF PayingFor, PaidFor, Enforced, Req, At, BudgetRows, RateRows
<1> QED BY <1>1, <1>2, NothingPaid DEF SpendInv, TypeOK

LEMMA SpendInvariant == Spec => []SpendInv
<1>1. Init => SpendInv
  <2> SUFFICES ASSUME Init, NEW m \in Meters PROVE WithinLimit(m)
    BY DEF SpendInv
  <2>1. GrantedOn(m) = {} /\ PayingFor(m) = {}
    BY DEF Init, GrantedOn, Granted, PayingFor, PaidFor, At, NoCall
  <2>2. IsFiniteSet({}) /\ Cardinality({}) = 0
    BY FS_EmptySet
  <2>3. meter[m].windows = 1 /\ meter[m].used = 0 /\ Limit[m] \in Nat
    BY DEF Init
  <2>4. Limit[m] * 1 = Limit[m]
    BY <2>3
  <2> QED BY <2>1, <2>2, <2>3, <2>4 DEF WithinLimit
<1>2. TypeOK /\ ApprovalInv /\ SpendInv /\ [Next]_vars => SpendInv'
  <2> SUFFICES ASSUME TypeOK, ApprovalInv, SpendInv, [Next]_vars PROVE SpendInv'
    OBVIOUS
  <2>1. ASSUME NEW s \in Slots, Begin(s) PROVE SpendInv'
    <3>1. call'[s].pc = "lookup"
      BY <2>1 DEF Begin, NoCall, TypeOK, CallTypeOK
    <3>2. \A m \in Meters : ~PaidFor(s, m)'
      BY <3>1 DEF PaidFor, At
    <3>3. \A t \in Slots \ {s} : call'[t] = call[t]
      BY <2>1, OneSlotMoves DEF TypeOK
    <3> QED BY <2>1, <3>2, <3>3, QuietSpend DEF Begin
  <2>2. ASSUME NEW s \in Slots, Die(s) PROVE SpendInv'
    <3>1. call'[s].pc = "idle"
      BY <2>2, MovesKeepRest DEF Die, TypeOK
    <3>2. \A m \in Meters : ~PaidFor(s, m)'
      BY <3>1 DEF PaidFor, At
    <3>3. \A t \in Slots \ {s} : call'[t] = call[t]
      BY <2>2, OneSlotMoves DEF TypeOK
    <3> QED BY <2>2, <3>2, <3>3, QuietSpend DEF Die
  <2>3. ASSUME NEW k \in Switches, SwitchOff(k) PROVE SpendInv'
    <3>1. ASSUME NEW s \in Slots
          PROVE  /\ call'[s].pc = call[s].pc /\ call'[s].req = call[s].req
                 /\ call'[s].verdict = call[s].verdict
      <4>1. call[s] \in CallRecord
        BY DEF TypeOK, CallTypeOK
      <4>2. \E b : call'[s] = [call[s] EXCEPT !.exposed = b]
        BY <2>3 DEF SwitchOff
      <4> QED BY <4>1, <4>2 DEF CallRecord
    <3> QED BY <2>3, <3>1, WorldSpend DEF SwitchOff
  <2>4. ASSUME NEW n \in Meters, ElapseWindow(n) PROVE SpendInv'
    <3>1. ASSUME NEW m \in Meters
          PROVE  /\ meter'[m].used = meter[m].used
                 /\ meter'[m].windows = meter[m].windows
      <4>1. meter[m] \in [used : Nat, expired : BOOLEAN, windows : Nat]
        BY DEF TypeOK, MeterTypeOK
      <4>2. meter'[m] \in {meter[m], [meter[m] EXCEPT !.expired = TRUE]}
        BY <2>4 DEF ElapseWindow, TypeOK, MeterTypeOK
      <4> QED BY <4>1, <4>2
    <3> QED BY <2>4, <3>1, WorldSpend DEF ElapseWindow
  <2>5. CASE UNCHANGED <<call, decision, meter>>
    BY <2>5, WorldSpend
  <2> QED BY <2>1, <2>2, <2>3, <2>4, <2>5, ContinueSpend DEF Next, vars, DecideCheck,
          DecideUpdate, ExpireApproval, SwitchOn
<1> QED BY <1>1, <1>2, TypeCorrect, ApprovalInvariant, PTL DEF Spec

(* Budgets and rate limits hold whatever runs at once: a row's allowed calls
   fit in the windows opened so far, however many calls are in flight, however
   a charge fails, and whether or not a window elapses between a call's charge
   and its save. *)
THEOREM LimitsHold == Spec => []NoOverspend
<1>1. TypeOK /\ SpendInv => NoOverspend
  <2> SUFFICES ASSUME TypeOK, SpendInv, NEW m \in Meters
               PROVE  Cardinality(GrantedOn(m)) <= Limit[m] * meter[m].windows
    BY DEF NoOverspend, GrantedOn
  <2> DEFINE g == Cardinality(GrantedOn(m))  p == Cardinality(PayingFor(m))
  <2>1. /\ meter[m].used <= Limit[m]
        /\ g + p + Limit[m] <= Limit[m] * meter[m].windows + meter[m].used
    BY DEF SpendInv, WithinLimit
  <2>2. g \in Nat /\ p \in Nat
    BY FS_CardinalityType DEF SpendInv, WithinLimit
  <2>3. /\ meter[m].used \in Nat /\ Limit[m] \in Nat
        /\ Limit[m] * meter[m].windows \in Nat
    BY NextWindow DEF TypeOK, MeterTypeOK
  <2> HIDE DEF g, p
  <2>4. g <= Limit[m] * meter[m].windows
    BY <2>1, <2>2, <2>3
  <2> QED BY <2>4 DEF g
<1> QED BY <1>1, TypeCorrect, SpendInvariant, PTL
=============================================================================
