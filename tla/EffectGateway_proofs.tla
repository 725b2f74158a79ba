------------------------ MODULE EffectGateway_proofs ------------------------
(***************************************************************************)
(* Theorems about EffectGateway for every number of permits, processes and *)
(* calls, and for every value of the timing constants.                     *)
(***************************************************************************)
EXTENDS EffectGateway, TLAPS

-----------------------------------------------------------------------------
(* Types *)

(* A call that has begun carries a permit. *)
LEMMA BusyPermit ==
  ASSUME TypeOK, NEW s \in Slots, ~Idle(s)
  PROVE  call[s].permit \in Permits
BY DEF TypeOK, CallTypeOK

(* Moving a running call to its next await, or ending it, keeps the slots
   well typed. *)
LEMMA GotoTypes ==
  ASSUME TypeOK, NEW s \in Slots, ~Idle(s), NEW pc \in PCs, Goto(s, pc) \/ Return(s)
  PROVE  CallTypeOK'
<1>1. CASE Goto(s, pc)
  BY <1>1 DEF TypeOK, CallTypeOK, Goto, Idle
<1>2. CASE Return(s)
  <2>1. call' \in [Slots -> [pc : PCs, permit : Permits \cup {NoPermit}, began : 0..MaxClock]]
    BY <1>2, ConstantsAssumption DEF TypeOK, CallTypeOK, Return, NoCall, PCs
  <2>2. \A t \in Slots : call'[t].permit = NoPermit => call'[t].pc = "idle"
    BY <1>2 DEF TypeOK, CallTypeOK, Return, NoCall, Idle
  <2> QED
    BY <2>1, <2>2 DEF CallTypeOK, Idle
<1> QED
  BY <1>1, <1>2

(* Claiming first use leaves the slot authorizing, denied or free. *)
LEMMA ClaimedTypes ==
  ASSUME TypeOK, NEW s \in Slots, NEW p \in Permits, Claimed(s, p)
  PROVE  CallTypeOK'
<1>1. PICK c \in {Call("authorize", p), Call("violation", p), NoCall} :
        call' = [call EXCEPT ![s] = c]
  BY DEF Claimed
<1>2. c \in [pc : PCs, permit : Permits \cup {NoPermit}, began : 0..MaxClock]
  BY ConstantsAssumption DEF Call, NoCall, PCs, AfterConsume
<1>3. c.permit = NoPermit => c.pc = "idle"
  BY ConstantsAssumption DEF Call, NoCall
<1> QED
  BY <1>1, <1>2, <1>3 DEF TypeOK, CallTypeOK, Idle

(* Appending evidence keeps the evidence log and the outage budget typed. *)
LEMMA RecordTypes ==
  ASSUME TypeOK, NEW type \in EvidenceTypes, NEW p \in Permits, NEW ok,
         Record(type, p, ok)
  PROVE  evidence' \in SUBSET (EvidenceTypes \X Permits) /\ outages' \in 0..MaxOutages
BY ConstantsAssumption DEF TypeOK, Record, Outage

(* A journal transition keeps the row's state and error in range. *)
LEMMA TransitionTypes ==
  ASSUME TypeOK, NEW p \in Permits, NEW to \in RowStates, NEW error \in Causes,
         NEW reply, Transition(p, to, error, reply)
  PROVE  /\ journal' \in [Permits -> RowStates]
         /\ cause' \in [Permits -> Causes]
         /\ outages' \in 0..MaxOutages
BY ConstantsAssumption DEF TypeOK, Transition, WriteRow, Outage

(* Every step of a call keeps the types: the slot's next await is one of
   perform's, and the tables it writes keep their columns' ranges. *)
LEMMA CallTypes ==
  ASSUME TypeOK, NEW s \in Slots, Continue(s)
  PROVE  TypeOK'
<1>1. ~Idle(s) /\ call[s].permit \in Permits
  <2>1. ~Idle(s)
    BY DEF Continue, RecordViolation, Consume, RecordPermit, Prepare, Start,
           ExecutorPerforms, ExecutorAnswers, RecordExecution, Commit,
           RecordResult, RecordFailure, Fail, Idle
  <2> QED
    BY <2>1, BusyPermit
<1> DEFINE p == call[s].permit
<1> USE ConstantsAssumption, <1>1
<1>2. \A pc \in PCs : Goto(s, pc) \/ Return(s) => CallTypeOK'
  BY GotoTypes
<1>3. Return(s) => CallTypeOK'
  BY <1>2 DEF PCs
<1>4. \A type \in EvidenceTypes, ok \in BOOLEAN : Record(type, p, ok) =>
        evidence' \in SUBSET (EvidenceTypes \X Permits) /\ outages' \in 0..MaxOutages
  BY RecordTypes
<1>5. \A to \in RowStates, error \in Causes, reply \in Replies :
        Transition(p, to, error, reply) =>
          /\ journal' \in [Permits -> RowStates]
          /\ cause' \in [Permits -> Causes]
          /\ outages' \in 0..MaxOutages
  BY TransitionTypes
<1>6. CASE RecordViolation(s)
  BY <1>3, <1>4, <1>6 DEF TypeOK, RecordViolation, EvidenceTypes, world
<1>7. CASE Consume(s)
  <2>1. CallTypeOK'
    <3>1. CASE Claimed(s, p)
      BY <3>1, ClaimedTypes
    <3>2. CASE call' = [call EXCEPT ![s] = Call("violation", p)]
      BY <3>2 DEF TypeOK, CallTypeOK, Call, PCs, Idle
    <3> QED
      BY <1>7, <3>1, <3>2 DEF Consume
  <2>2. guard' \in SUBSET Permits /\ outages' \in 0..MaxOutages
    BY <1>7 DEF TypeOK, Consume, Outage
  <2> QED
    BY <1>7, <2>1, <2>2 DEF TypeOK, Consume, world
<1>8. CASE RecordPermit(s)
  BY <1>2, <1>3, <1>4, <1>8 DEF TypeOK, RecordPermit, EvidenceTypes, PCs, AfterConsume, world
<1>9. CASE Prepare(s)
  <2>1. CallTypeOK'
    BY <1>2, <1>9 DEF Prepare, PCs, AfterConsume
  <2>2. journal' \in [Permits -> RowStates] /\ outages' \in 0..MaxOutages
    BY <1>9 DEF TypeOK, Prepare, Outage, RowStates, Unfinished
  <2> QED
    BY <1>9, <2>1, <2>2 DEF TypeOK, Prepare, world
<1>10. CASE Start(s)
  <2>1. CallTypeOK'
    BY <1>2, <1>10 DEF Start, PCs, AfterConsume
  <2> QED
    BY <1>5, <1>10, <2>1
       DEF TypeOK, Start, RowStates, Unfinished, Causes, NoError, world
<1>11. CASE ExecutorPerforms(s)
  <2>1. CallTypeOK'
    BY <1>2, <1>11 DEF ExecutorPerforms, PCs, AfterEffect
  <2>2. ran' \in [Permits -> Nat]
    BY <1>11 DEF TypeOK, ExecutorPerforms
  <2> QED
    BY <1>11, <2>1, <2>2 DEF TypeOK, ExecutorPerforms, tables
<1>12. CASE ExecutorAnswers(s)
  <2>1. CallTypeOK'
    BY <1>2, <1>12 DEF ExecutorAnswers, PCs, AfterEffect, AfterRefusal
  <2> QED
    BY <1>12, <2>1 DEF TypeOK, ExecutorAnswers, tables, world
<1>13. CASE RecordExecution(s)
  BY <1>2, <1>3, <1>4, <1>13 DEF TypeOK, RecordExecution, EvidenceTypes, PCs, AfterEffect, world
<1>14. CASE Commit(s)
  <2>1. CallTypeOK'
    BY <1>2, <1>14 DEF Commit, PCs, AfterEffect
  <2> QED
    BY <1>5, <1>14, <2>1 DEF TypeOK, Commit, RowStates, Terminal, Causes, NoError, world
<1>15. CASE RecordResult(s)
  <2>1. answered' \in SUBSET Permits
    BY <1>15 DEF TypeOK, RecordResult
  <2> QED
    BY <1>3, <1>4, <1>15, <2>1 DEF TypeOK, RecordResult, EvidenceTypes
<1>16. CASE RecordFailure(s)
  BY <1>2, <1>3, <1>4, <1>16 DEF TypeOK, RecordFailure, EvidenceTypes, PCs, AfterRefusal, world
<1>17. CASE Fail(s)
  BY <1>3, <1>5, <1>17 DEF TypeOK, Fail, RowStates, Terminal, Causes, NoError, world
<1> QED
  BY <1>6, <1>7, <1>8, <1>9, <1>10, <1>11, <1>12, <1>13, <1>14, <1>15, <1>16, <1>17
     DEF Continue

(* Start-up keeps the types: the recovery list holds unfinished rows only. *)
LEMMA BootTypes ==
  ASSUME TypeOK, NEW g \in Gateways, Boot(g)
  PROVE  TypeOK'
<1> DEFINE GwType == [Gateways -> [mode   : {"down", "recovering", "up"},
                                   todo   : SUBSET (Permits \X Unfinished),
                                   signed : SUBSET Permits]]
<1> USE ConstantsAssumption
<1>0. CallTypeOK /\ call' = call => CallTypeOK'
  BY DEF CallTypeOK, Idle
<1>1. CASE Restart(g)
  <2>1. UnfinishedRows \in SUBSET (Permits \X Unfinished)
    BY DEF UnfinishedRows
  <2>2. gw' \in GwType
    <3>1. PICK rows \in SUBSET (Permits \X Unfinished) :
            gw' = [gw EXCEPT ![g] =
                     [mode |-> "recovering", signed |-> {}, todo |-> rows]]
      BY <1>1, <2>1 DEF Restart
    <3>2. [mode |-> "recovering", signed |-> {}, todo |-> rows]
            \in [mode   : {"down", "recovering", "up"},
                todo   : SUBSET (Permits \X Unfinished),
                signed : SUBSET Permits]
      BY <3>1
    <3> QED
      BY <3>1, <3>2 DEF TypeOK
  <2> QED
    BY <1>0, <1>1, <2>2 DEF TypeOK, Restart, Outage, tables, world
<1>2. CASE Recover(g)
  <2>1. PICK e \in gw[g].todo, reply \in Replies :
          /\ Transition(e[1], "uncertain", e[2], reply)
          /\ gw' = [gw EXCEPT ![g] =
               IF reply = "unavailable"
                 THEN [mode |-> "down", todo |-> {}, signed |-> {}]
                 ELSE [mode |-> "recovering", todo |-> gw[g].todo \ {e},
                       signed |-> IF reply = "recorded" THEN {e[1]} ELSE {}]]
    BY <1>2 DEF Recover
  <2>2. e \in Permits \X Unfinished
    BY DEF TypeOK
  <2>3. gw' \in GwType
    <3>1. gw[g].todo \ {e} \in SUBSET (Permits \X Unfinished)
      BY DEF TypeOK
    <3>2. e[1] \in Permits
      BY <2>2
    <3> QED
      BY <2>1, <3>1, <3>2 DEF TypeOK
  <2>4. e[1] \in Permits /\ e[2] \in Causes /\ "uncertain" \in RowStates
    BY <2>2 DEF Causes, RowStates, Terminal
  <2>5. /\ journal' \in [Permits -> RowStates]
        /\ cause' \in [Permits -> Causes]
        /\ outages' \in 0..MaxOutages
    BY <2>1, <2>4, TransitionTypes
  <2> QED
    BY <1>0, <1>2, <2>3, <2>5 DEF TypeOK, Recover, world
<1>3. CASE DeliverReceipt(g)
  <2>1. gw' \in GwType
    BY <1>3 DEF TypeOK, DeliverReceipt
  <2>2. receipts' \in [Permits -> Nat] /\ outages' \in 0..MaxOutages
    BY <1>3 DEF TypeOK, DeliverReceipt, Outage
  <2> QED
    BY <1>0, <1>3, <2>1, <2>2 DEF TypeOK, DeliverReceipt, tables
<1>4. CASE Serve(g)
  BY <1>0, <1>4 DEF TypeOK, Serve, tables, world
<1> QED
  BY <1>1, <1>2, <1>3, <1>4 DEF Boot

(* Type correctness of the gateway: every call, row and recovery list of
   effect-gateway.ts and effect-commit.ts stays within its declared values. *)
THEOREM TypeCorrect == Spec => []TypeOK
<1>1. Init => TypeOK
  BY ConstantsAssumption
     DEF Init, TypeOK, CallTypeOK, NoCall, Idle, PCs, RowStates, Causes, NoError
<1>2. TypeOK /\ [Next]_vars => TypeOK'
  <2> SUFFICES ASSUME TypeOK, [Next]_vars PROVE TypeOK'
    OBVIOUS
  <2> USE ConstantsAssumption
  <2>0. CallTypeOK /\ call' = call => CallTypeOK'
    BY DEF CallTypeOK, Idle
  <2>1. ASSUME NEW s \in Slots, Begin(s) PROVE TypeOK'
    <3>1. CallTypeOK' /\ nonces' \in [Gateways -> SUBSET Nonces]
      <4>1. PICK p \in Permits :
              \/ /\ \/ call' = [call EXCEPT ![s] = Call("violation", p)]
                    \/ call' = [call EXCEPT ![s] =
                         [pc |-> "consume", permit |-> p, began |-> clock]]
                 /\ UNCHANGED nonces
              \/ /\ nonces' = [nonces EXCEPT ![HomeOf[s]] = @ \cup {NonceOf[p]}]
                 /\ Claimed(s, p)
        BY <2>1 DEF Begin
      <4>2. nonces' \in [Gateways -> SUBSET Nonces]
        BY <4>1 DEF TypeOK
      <4>3. CASE Claimed(s, p)
        BY <4>2, <4>3, ClaimedTypes
      <4>4. CASE call' = [call EXCEPT ![s] = Call("violation", p)]
        BY <4>2, <4>4 DEF TypeOK, CallTypeOK, Call, PCs, Idle
      <4>5. CASE call' = [call EXCEPT ![s] =
                   [pc |-> "consume", permit |-> p, began |-> clock]]
        BY <4>2, <4>5 DEF TypeOK, CallTypeOK, PCs, Idle
      <4> QED
        BY <4>1, <4>3, <4>4, <4>5
    <3> QED
      BY <2>1, <3>1 DEF TypeOK, Begin, tables, world
  <2>2. ASSUME NEW s \in Slots, Continue(s) PROVE TypeOK'
    BY <2>2, CallTypes
  <2>3. ASSUME NEW g \in Gateways, Crash(g) PROVE TypeOK'
    <3>1. CallTypeOK'
      BY <2>3 DEF TypeOK, CallTypeOK, Crash, NoCall, Idle, PCs
    <3> QED
      BY <2>3, <3>1 DEF TypeOK, Crash, tables, world
  <2>4. ASSUME NEW g \in Gateways, Boot(g) PROVE TypeOK'
    BY <2>4, BootTypes
  <2>5. CASE Cleanup
    BY <2>0, <2>5 DEF TypeOK, Cleanup, world
  <2>6. CASE Tick
    BY <2>0, <2>6 DEF TypeOK, Tick, tables, world
  <2>7. CASE UNCHANGED vars
    BY <2>0, <2>7 DEF TypeOK, vars
  <2> QED
    BY <2>1, <2>2, <2>3, <2>4, <2>5, <2>6, <2>7 DEF Next
<1> QED
  BY <1>1, <1>2, PTL DEF Spec

-----------------------------------------------------------------------------
(* At most once *)

(* A step that acquires no permit, runs no effect and forgets no mark keeps
   the invariant. *)
LEMMA KeepOnce ==
  ASSUME TypeOK, TypeOK', OnceInv, UNCHANGED <<ran, clock>>,
         \A p \in Permits : Marked(p) => Marked(p)',
         \A t \in Slots : call'[t].pc \in Owning =>
            /\ call[t].pc \in Owning /\ call'[t].permit = call[t].permit
            /\ call[t].pc \in AfterEffect => call'[t].pc \in AfterEffect,
         \A t \in Slots : call'[t].pc = "consume" => call'[t] = call[t]
  PROVE  OnceInv'
<1>1. \A t \in Slots : call[t].pc \in Owning => call[t].permit \in Permits
  BY DEF TypeOK, CallTypeOK, Idle, Owning, Late, AfterConsume, AfterEffect, AfterRefusal
<1>2. OwnersMarked'
  BY <1>1 DEF OnceInv, OwnersMarked, Owning
<1>3. OneOwner'
  BY DEF OnceInv, OneOwner, Owning
<1>4. OwnersFresh'
  BY DEF OnceInv, OwnersFresh, Owning
<1>5. RanMarked'
  BY DEF OnceInv, RanMarked
<1>6. ConsumeInTime'
  BY DEF OnceInv, ConsumeInTime
<1> QED
  BY <1>2, <1>3, <1>4, <1>5, <1>6 DEF OnceInv

(* The granting step: an unmarked permit has no owner and has never run, so
   the one slot that marks it becomes its only owner. *)
LEMMA AcquireOnce ==
  ASSUME TypeOK, TypeOK', OnceInv, UNCHANGED <<ran, clock>>,
         NEW s \in Slots, call[s].permit \in Permits, ~Marked(call[s].permit),
         \A p \in Permits : Marked(p) => Marked(p)',
         Marked(call[s].permit)',
         NEW pc \in Late, call' = [call EXCEPT ![s] = Call(pc, call[s].permit)]
                          \/ Goto(s, pc)
  PROVE  OnceInv'
<1>1. \A t \in Slots : t # s => call'[t] = call[t]
  BY DEF Goto, TypeOK, CallTypeOK
<1>2. call'[s].permit = call[s].permit /\ call'[s].pc = pc
  BY DEF Goto, Call, TypeOK, CallTypeOK
<1>3. \A t \in Slots : call[t].pc \in Owning =>
        call[t].permit \in Permits /\ call[t].permit # call[s].permit
  BY DEF OnceInv, OwnersMarked, TypeOK, CallTypeOK, Idle, Owning, Late, AfterConsume, AfterEffect, AfterRefusal
<1>4. ran[call[s].permit] = 0
  BY DEF OnceInv, RanMarked, TypeOK
<1>5. OwnersMarked'
  BY <1>1, <1>2, <1>3 DEF OnceInv, OwnersMarked, Owning
<1>6. OneOwner'
  BY <1>1, <1>2, <1>3 DEF OnceInv, OneOwner, Owning
<1>7. OwnersFresh'
  BY <1>1, <1>2, <1>4 DEF OnceInv, OwnersFresh, Owning
<1>8. RanMarked'
  BY DEF OnceInv, RanMarked
<1>9. ConsumeInTime'
  BY <1>1, <1>2 DEF OnceInv, ConsumeInTime, Late, AfterConsume, AfterEffect, AfterRefusal
<1> QED
  BY <1>5, <1>6, <1>7, <1>8, <1>9 DEF OnceInv

(* No journal write makes a row disappear. *)
LEMMA RowsStay ==
  ASSUME TypeOK, NEW p \in Permits, NEW to \in Unfinished \cup Terminal, NEW error,
         NEW reply, Transition(p, to, error, reply), UNCHANGED <<guard, clock>>
  PROVE  \A q \in Permits : Marked(q) => Marked(q)'
BY DEF TypeOK, Transition, WriteRow, Marked, Unfinished, Terminal

(* A slot waiting to consume finds its permit unmarked whenever the guard
   would grant it: the guard has not had time to forget. *)
LEMMA GrantedIsUnmarked ==
  ASSUME TypeOK, OnceInv, Protected, ~Journaling, NEW s \in Slots,
         call[s].pc = "consume", ~Consumed(call[s].permit)
  PROVE  ~Marked(call[s].permit)
<1> DEFINE p == call[s].permit
<1>1. p \in Permits /\ call[s].began \in Nat /\ clock \in Nat
  BY ConstantsAssumption DEF TypeOK, CallTypeOK, Idle
<1>2. p \notin guard
  BY DEF Consumed
<1>3. clock <= call[s].began + MaxStall /\ call[s].began < Expires[p] + Skew
  BY DEF OnceInv, ConsumeInTime
<1>4. ~(Expires[p] + Retention < clock + Skew)
  BY <1>1, <1>3, ConstantsAssumption DEF Protected
<1> QED
  BY <1>2, <1>4 DEF Marked

(* Ending a call, or moving an owner to a later await, acquires nothing. *)
LEMMA GotoAcquiresNothing ==
  ASSUME TypeOK, NEW s \in Slots, NEW pc \in PCs \ {"consume"},
         Goto(s, pc) \/ Return(s),
         pc \in Owning => call[s].pc \in Owning,
         call[s].pc \in AfterEffect => pc \in AfterEffect
  PROVE  /\ \A t \in Slots : call'[t].pc \in Owning =>
              /\ call[t].pc \in Owning /\ call'[t].permit = call[t].permit
              /\ call[t].pc \in AfterEffect => call'[t].pc \in AfterEffect
         /\ \A t \in Slots : call'[t].pc = "consume" => call'[t] = call[t]
<1>1. \A t \in Slots : t # s => call'[t] = call[t]
  BY DEF Goto, Return, TypeOK, CallTypeOK
<1>2. \/ call'[s] = NoCall
      \/ call'[s].pc = pc /\ call'[s].permit = call[s].permit
  BY DEF Goto, Return, TypeOK, CallTypeOK
<1>3. NoCall.pc \notin Owning /\ NoCall.pc # "consume"
  BY DEF NoCall, Owning, Late, AfterConsume, AfterEffect, AfterRefusal
<1> QED
  BY <1>1, <1>2, <1>3

(* Every step of perform preserves first use. *)
LEMMA ContinueOnce ==
  ASSUME TypeOK, TypeOK', OnceInv, Protected, NEW s \in Slots, Continue(s)
  PROVE  OnceInv'
<1> DEFINE p == call[s].permit
           Quiet == /\ \A t \in Slots : call'[t].pc \in Owning =>
                         /\ call[t].pc \in Owning /\ call'[t].permit = call[t].permit
                         /\ call[t].pc \in AfterEffect => call'[t].pc \in AfterEffect
                    /\ \A t \in Slots : call'[t].pc = "consume" => call'[t] = call[t]
           Marks == \A q \in Permits : Marked(q) => Marked(q)'
<1>1. ~Idle(s) /\ p \in Permits
  <2>1. ~Idle(s)
    BY DEF Continue, RecordViolation, Consume, RecordPermit, Prepare, Start,
           ExecutorPerforms, ExecutorAnswers, RecordExecution, Commit,
           RecordResult, RecordFailure, Fail, Idle
  <2> QED
    BY <2>1, BusyPermit
<1>2. UNCHANGED <<ran, clock>> /\ Quiet /\ Marks => OnceInv'
  BY KeepOnce
<1>3. ASSUME UNCHANGED <<guard, journal, clock>> PROVE Marks
  BY <1>3 DEF Marked
<1>4. \A pc \in PCs \ {"consume"} :
        /\ Goto(s, pc) \/ Return(s)
        /\ pc \in Owning => call[s].pc \in Owning
        /\ call[s].pc \in AfterEffect => pc \in AfterEffect
        => Quiet
  BY GotoAcquiresNothing
<1>5. Return(s) => Quiet
  BY <1>4 DEF Return, PCs, NoCall, Owning, Late, AfterConsume, AfterEffect, AfterRefusal, Goto
<1> HIDE DEF Quiet, Marks
<1> USE DEF PCs, AfterConsume, AfterEffect, AfterRefusal
<1>6. CASE RecordViolation(s)
  BY <1>2, <1>3, <1>5, <1>6 DEF RecordViolation, world
<1>7. CASE RecordPermit(s)
  BY <1>2, <1>3, <1>4, <1>5, <1>7 DEF RecordPermit, Owning, Late, world
<1>8. CASE RecordExecution(s)
  BY <1>2, <1>3, <1>4, <1>5, <1>8 DEF RecordExecution, Owning, Late, world
<1>9. CASE RecordResult(s)
  BY <1>2, <1>3, <1>5, <1>9 DEF RecordResult
<1>10. CASE RecordFailure(s)
  BY <1>2, <1>3, <1>4, <1>5, <1>10 DEF RecordFailure, Owning, Late, world
<1>11. CASE ExecutorAnswers(s)
  BY <1>2, <1>3, <1>4, <1>5, <1>11 DEF ExecutorAnswers, Owning, Late, tables, world
<1>12. \A to \in Unfinished \cup Terminal, error \in Causes, reply \in Replies :
         Transition(p, to, error, reply) /\ UNCHANGED <<guard, clock>> => Marks
  BY <1>1, RowsStay DEF Marks
<1>13. CASE Start(s)
  <2>1. Marks
    BY <1>12, <1>13 DEF Start, Unfinished, Causes, NoError
  <2> QED
    BY <1>2, <1>4, <1>5, <1>13, <2>1 DEF Start, Owning, Late, world
<1>14. CASE Commit(s)
  <2>1. Marks
    BY <1>12, <1>14 DEF Commit, Terminal, Causes, NoError
  <2> QED
    BY <1>2, <1>4, <1>14, <2>1 DEF Commit, Owning, Late, world
<1>15. CASE Fail(s)
  <2>1. Marks
    BY <1>12, <1>15 DEF Fail, Terminal, Causes, NoError
  <2> QED
    BY <1>2, <1>5, <1>15, <2>1 DEF Fail, world
<1>16. CASE Consume(s)
  <2>1. Marks
    BY <1>16 DEF Marks, Consume, Marked
  <2>2. CASE call' = [call EXCEPT ![s] = Call("violation", p)] \/ call' = [call EXCEPT ![s] = NoCall]
    <3>1. Quiet
      <4>1. \A t \in Slots : t # s => call'[t] = call[t]
        BY <2>2 DEF TypeOK, CallTypeOK
      <4>2. call'[s].pc \in {"violation", "idle"}
        BY <2>2 DEF TypeOK, CallTypeOK, Call, NoCall
      <4> QED
        BY <4>1, <4>2 DEF Quiet, Owning, Late
    <3> QED
      BY <1>2, <1>16, <2>1, <3>1 DEF Consume, world
  <2>3. CASE call' = [call EXCEPT ![s] = Call("authorize", p)] /\ Journaling
    <3>1. Quiet
      BY <2>3 DEF Quiet, TypeOK, CallTypeOK, Call, Owning, Late
    <3> QED
      BY <1>2, <1>16, <2>1, <3>1 DEF Consume, world
  <2>4. CASE call' = [call EXCEPT ![s] = Call("authorize", p)] /\ ~Journaling
    <3>1. ~Consumed(p) /\ guard' = guard \cup {p}
      <4>1. call'[s].pc = "authorize"
        BY <2>4 DEF TypeOK, CallTypeOK, Call
      <4>2. call' # [call EXCEPT ![s] = Call("violation", p)]
        BY <4>1 DEF TypeOK, CallTypeOK, Call
      <4> QED
        BY <1>16, <4>2 DEF Consume
    <3>2. ~Marked(p) /\ Marked(p)'
      <4>1. call'[s].permit = p
        BY <2>4 DEF TypeOK, CallTypeOK, Call
      <4> QED
        BY <1>16, <2>4, <3>1, <4>1, GrantedIsUnmarked DEF Consume, Marked
    <3> QED
      BY <1>1, <1>16, <2>1, <2>4, <3>2, AcquireOnce DEF Consume, Marks, Late, world
  <2> QED
    BY <1>16, <2>2, <2>3, <2>4 DEF Consume, Claimed
<1>17. CASE Prepare(s)
  <2>1. Marks
    BY <1>17 DEF Marks, Prepare, TypeOK, Marked
  <2>2. CASE Return(s)
    BY <1>2, <1>5, <1>17, <2>1, <2>2 DEF Prepare, world
  <2>3. CASE Goto(s, "start") /\ ~Journaling
    BY <1>2, <1>4, <1>17, <2>1, <2>3 DEF Prepare, Owning, Late, world
  <2>4. CASE Goto(s, "start") /\ ~Return(s) /\ Journaling
    <3>1. ~Marked(p) /\ Marked(p)'
      <4>1. journal[p] = "absent" /\ journal' = [journal EXCEPT ![p] = "prepared"]
        BY <1>17, <2>4 DEF Prepare
      <4>2. call'[s].permit = p
        BY <2>4 DEF TypeOK, CallTypeOK, Goto
      <4> QED
        BY <1>1, <2>4, <4>1, <4>2 DEF TypeOK, Marked
    <3> QED
      BY <1>1, <1>17, <2>1, <2>4, <3>1, AcquireOnce DEF Prepare, Marks, Late, world
  <2> QED
    BY <1>17, <2>2, <2>3, <2>4 DEF Prepare
<1>18. CASE ExecutorPerforms(s)
  <2>1. Marked(p) /\ ran[p] = 0 /\ \A t \in Slots :
          t # s /\ call[t].pc \in Owning => call[t].permit # p
    BY <1>18 DEF ExecutorPerforms, OnceInv, OwnersMarked, OwnersFresh, OneOwner, Owning, Late
  <2>2. \A q \in Permits : Marked(q)' = Marked(q)
    BY <1>18 DEF ExecutorPerforms, Marked, tables
  <2>3. \A t \in Slots : t # s => call'[t] = call[t]
    BY <1>18 DEF ExecutorPerforms, Goto, TypeOK, CallTypeOK
  <2>4. call'[s].pc = "performed" /\ call'[s].permit = p
    BY <1>18 DEF ExecutorPerforms, Goto, TypeOK, CallTypeOK
  <2>5. ran' = [ran EXCEPT ![p] = 1]
    BY <1>18, <2>1 DEF ExecutorPerforms
  <2>6. \A t \in Slots : call[t].pc \in Owning => call[t].permit \in Permits
    BY DEF TypeOK, CallTypeOK, Idle, Owning, Late
  <2>7. OwnersMarked'
    BY <1>1, <2>1, <2>2, <2>3, <2>4, <2>6 DEF OnceInv, OwnersMarked, Owning
  <2>8. OneOwner'
    BY <2>1, <2>3, <2>4 DEF OnceInv, OneOwner, Owning
  <2>9. OwnersFresh'
    BY <1>1, <2>1, <2>3, <2>4, <2>5, <2>6 DEF OnceInv, OwnersFresh, Owning, TypeOK
  <2>10. RanMarked'
    BY <1>1, <2>1, <2>2, <2>5 DEF OnceInv, RanMarked, TypeOK
  <2>11. ConsumeInTime'
    BY <1>18, <2>3, <2>4 DEF OnceInv, ConsumeInTime, ExecutorPerforms
  <2> QED
    BY <2>7, <2>8, <2>9, <2>10, <2>11 DEF OnceInv
<1> QED
  BY <1>6, <1>7, <1>8, <1>9, <1>10, <1>11, <1>13, <1>14, <1>15, <1>16, <1>17, <1>18
     DEF Continue

(* Verification accepts only a permit that had not expired on a clock within
   Skew of the database's, so the slot enters consume in time. *)
LEMMA BeginOnce ==
  ASSUME TypeOK, TypeOK', OnceInv, Protected, NEW s \in Slots, Begin(s)
  PROVE  OnceInv'
<1> USE ConstantsAssumption
<1>1. \A p \in Permits : Marked(p) => Marked(p)'
  BY DEF Begin, Marked, tables
<1>2. \A t \in Slots : t # s => call'[t] = call[t]
  BY DEF Begin, Claimed, TypeOK, CallTypeOK
<1>3. PICK p \in Permits, now \in 0..(MaxClock + Skew) :
        /\ clock <= now + Skew
        /\ \/ call' = [call EXCEPT ![s] = Call("violation", p)]
           \/ now < Expires[p] /\ call' = [call EXCEPT ![s] =
                 [pc |-> "consume", permit |-> p, began |-> clock]]
           \/ ~DurableReplay /\ Claimed(s, p)
  BY DEF Begin
<1>4. CASE call' = [call EXCEPT ![s] =
               [pc |-> "consume", permit |-> p, began |-> clock]] /\ now < Expires[p]
  <2>1. call'[s] = [pc |-> "consume", permit |-> p, began |-> clock]
    BY <1>4 DEF TypeOK, CallTypeOK
  <2>2. clock \in Nat /\ Expires[p] \in Nat
    BY DEF TypeOK
  <2>3. UNCHANGED <<clock, ran>>
    BY DEF Begin, world
  <2>4. ConsumeInTime'
    BY <1>2, <1>3, <1>4, <2>1, <2>2, <2>3 DEF OnceInv, ConsumeInTime
  <2>5. \A t \in Slots : call'[t].pc \in Owning => call[t].pc \in Owning /\ call'[t] = call[t]
    BY <1>2, <2>1 DEF Owning, Late, AfterConsume, AfterEffect, AfterRefusal
  <2>6. \A t \in Slots : call[t].pc \in Owning => call[t].permit \in Permits
    BY DEF TypeOK, CallTypeOK, Idle, Owning, Late, AfterConsume, AfterEffect, AfterRefusal
  <2>7. OwnersMarked'
    BY <1>1, <2>5, <2>6 DEF OnceInv, OwnersMarked, Owning
  <2>8. OneOwner'
    BY <2>5 DEF OnceInv, OneOwner, Owning
  <2>9. OwnersFresh'
    BY <2>3, <2>5 DEF OnceInv, OwnersFresh, Owning
  <2>10. RanMarked'
    BY <1>1, <2>3 DEF OnceInv, RanMarked
  <2> QED
    BY <2>4, <2>7, <2>8, <2>9, <2>10 DEF OnceInv
<1>5. CASE call' = [call EXCEPT ![s] = Call("violation", p)] \/ (~DurableReplay /\ Claimed(s, p))
  <2>1. call'[s].pc \in {"violation", "idle", "authorize"}
    BY <1>5 DEF TypeOK, CallTypeOK, Call, NoCall, Claimed
  <2>2. call'[s].pc = "authorize" => Journaling
    BY <1>5 DEF TypeOK, CallTypeOK, Call, Protected
  <2>3. call'[s].pc \notin Owning /\ call'[s].pc # "consume"
    BY <2>1, <2>2 DEF Owning, Late, AfterConsume, AfterEffect, AfterRefusal
  <2>4. UNCHANGED <<ran, clock>>
    BY DEF Begin, world
  <2> QED
    BY <1>1, <1>2, <2>3, <2>4, KeepOnce
<1> QED
  BY <1>3, <1>4, <1>5

(* The invariant behind S9: the initial state has it and every step keeps it,
   crashes, restarts, retention and the passing of time included. *)
LEMMA OnceInvariant == Protected => (Spec => []OnceInv)
<1> SUFFICES ASSUME Protected PROVE Spec => []OnceInv
  OBVIOUS
<1>1. Init => OnceInv
  BY DEF Init, OnceInv, OwnersMarked, OneOwner, OwnersFresh, RanMarked, ConsumeInTime,
         NoCall, Owning, Late, AfterConsume, AfterEffect, AfterRefusal
<1>2. TypeOK /\ TypeOK' /\ OnceInv /\ [Next]_vars => OnceInv'
  <2> SUFFICES ASSUME TypeOK, TypeOK', OnceInv, [Next]_vars PROVE OnceInv'
    OBVIOUS
  <2>0. ASSUME UNCHANGED <<ran, clock, call>>, \A p \in Permits : Marked(p) => Marked(p)'
        PROVE  OnceInv'
    BY <2>0, KeepOnce
  <2>1. ASSUME NEW s \in Slots, Begin(s) PROVE OnceInv'
    BY <2>1, BeginOnce
  <2>2. ASSUME NEW s \in Slots, Continue(s) PROVE OnceInv'
    BY <2>2, ContinueOnce
  <2>3. ASSUME NEW g \in Gateways, Crash(g) PROVE OnceInv'
    <3>1. \A p \in Permits : Marked(p) => Marked(p)'
      BY <2>3 DEF Crash, Marked, tables
    <3>2. \A t \in Slots : call'[t] = call[t] \/ call'[t] = NoCall
      BY <2>3 DEF Crash
    <3>3. NoCall.pc \notin Owning /\ NoCall.pc # "consume"
      BY DEF NoCall, Owning, Late, AfterConsume, AfterEffect, AfterRefusal
    <3>4. UNCHANGED <<ran, clock>>
      BY <2>3 DEF Crash, world
    <3> QED
      BY <3>1, <3>2, <3>3, <3>4, KeepOnce
  <2>4. ASSUME NEW g \in Gateways, Boot(g) PROVE OnceInv'
    <3>1. CASE Recover(g)
      <4>1. PICK e \in gw[g].todo, reply \in Replies : Transition(e[1], "uncertain", e[2], reply)
        BY <3>1 DEF Recover
      <4>2. e[1] \in Permits
        BY <2>4 DEF TypeOK
      <4>3. \A p \in Permits : Marked(p) => Marked(p)'
        BY <3>1, <4>1, <4>2, RowsStay DEF Recover, Terminal
      <4> QED
        BY <2>0, <3>1, <4>3 DEF Recover, world
    <3>2. CASE Restart(g) \/ Serve(g) \/ DeliverReceipt(g)
      BY <2>0, <3>2 DEF Restart, Serve, DeliverReceipt, Marked, tables, world
    <3> QED
      BY <2>4, <3>1, <3>2 DEF Boot
  <2>5. CASE Cleanup
    <3>1. \A p \in Permits : Marked(p) => Marked(p)'
      <4> SUFFICES ASSUME NEW p \in Permits, p \in guard, p \notin guard', ~Journaling
                   PROVE  Expires[p] + Retention < clock + Skew
        BY <2>5 DEF Cleanup, Marked
      <4>1. PICK ahead \in 0..Skew : ~(clock + ahead <= Expires[p] + Retention)
        BY <2>5 DEF Cleanup
      <4> QED
        BY <4>1, ConstantsAssumption DEF TypeOK
    <3> QED
      BY <2>0, <2>5, <3>1 DEF Cleanup, world
  <2>6. CASE Tick
    <3>1. \A p \in Permits : Marked(p) => Marked(p)'
      BY <2>6, ConstantsAssumption DEF Tick, Marked, TypeOK, tables
    <3>2. ConsumeInTime'
      BY <2>6, ConstantsAssumption DEF Tick, OnceInv, ConsumeInTime, TypeOK, CallTypeOK
    <3>3. OwnersMarked'
      <4>1. \A t \in Slots : call[t].pc \in Owning => call[t].permit \in Permits
        BY DEF TypeOK, CallTypeOK, Idle, Owning, Late, AfterConsume, AfterEffect, AfterRefusal
      <4> QED
        BY <2>6, <3>1, <4>1 DEF Tick, OnceInv, OwnersMarked, Owning
    <3>4. OneOwner' /\ OwnersFresh' /\ RanMarked'
      BY <2>6, <3>1 DEF Tick, OnceInv, OneOwner, OwnersFresh, RanMarked, Owning, world
    <3> QED
      BY <3>2, <3>3, <3>4 DEF OnceInv
  <2>7. CASE UNCHANGED vars
    BY <2>0, <2>7 DEF vars, Marked
  <2> QED
    BY <2>1, <2>2, <2>3, <2>4, <2>5, <2>6, <2>7 DEF Next
<1> QED
  BY <1>1, <1>2, TypeCorrect, PTL DEF Spec

(* S9 for every deployment: a permit's effect happens at most once when there
   is an effect journal, or when there is a durable replay guard whose
   retention covers twice the clock skew plus the longest stall. *)
THEOREM EffectsHappenOnce == Protected => (Spec => []AtMostOnce)
<1>1. OnceInv => AtMostOnce
  BY DEF OnceInv, RanMarked, AtMostOnce
<1> QED
  BY <1>1, OnceInvariant, PTL

-----------------------------------------------------------------------------
(* One nonce *)

(* The durable guard alone, where permits that share a nonce expire so close
   together that the row of one outlasts the other. *)
NoncesProtected ==
  /\ Protected /\ DurableReplay
  /\ \A p, q \in Permits : NonceOf[p] = NonceOf[q] =>
        Expires[q] + 2 * Skew + MaxStall <= Expires[p] + Retention + 1

(* A call past the claim, and a nonce that was claimed or is too old to be. *)
Claiming == AfterConsume \cup AfterEffect \cup AfterRefusal
Rivals(p) == {q \in Permits : NonceOf[q] = NonceOf[p]}
Spent(p) == \E q \in Rivals(p) : q \in guard \/ Expires[q] + Retention < clock + Skew

ClaimsSpent == \A s \in Slots : call[s].pc \in Claiming => Spent(call[s].permit)
OneClaim ==
  \A s, t \in Slots :
    /\ {call[s].pc, call[t].pc} \subseteq Claiming
    /\ NonceOf[call[s].permit] = NonceOf[call[t].permit]
    => s = t
ClaimsAlone ==
  \A s \in Slots : call[s].pc \in Claiming =>
    \A q \in Rivals(call[s].permit) : q # call[s].permit => ran[q] = 0
RanSpent == \A p \in Permits : ran[p] > 0 => Spent(p)

NonceInv == ClaimsSpent /\ OneClaim /\ ClaimsAlone /\ RanSpent /\ NonceOnce

(* Who claims carries a permit. *)
LEMMA ClaimantsPermit ==
  ASSUME TypeOK, NEW s \in Slots, call[s].pc \in Claiming
  PROVE  call[s].permit \in Permits
BY DEF TypeOK, CallTypeOK, Idle, Claiming, AfterConsume, AfterEffect, AfterRefusal

(* A step that claims nothing, runs nothing and unspends nothing keeps it. *)
LEMMA KeepNonce ==
  ASSUME TypeOK, TypeOK', NonceInv, UNCHANGED ran,
         \A p \in Permits : Spent(p) => Spent(p)',
         \A t \in Slots : call'[t].pc \in Claiming =>
            call[t].pc \in Claiming /\ call'[t].permit = call[t].permit
  PROVE  NonceInv'
<1>1. ClaimsSpent'
  BY ClaimantsPermit DEF NonceInv, ClaimsSpent, Claiming
<1>2. OneClaim'
  BY DEF NonceInv, OneClaim, Claiming
<1>3. ClaimsAlone'
  BY DEF NonceInv, ClaimsAlone, Claiming, Rivals
<1>4. RanSpent' /\ NonceOnce'
  BY DEF NonceInv, RanSpent, NonceOnce
<1> QED
  BY <1>1, <1>2, <1>3, <1>4 DEF NonceInv

(* Where neither the guard nor the clock moves a nonce stays spent. *)
LEMMA KeepSpent ==
  ASSUME UNCHANGED <<guard, clock>>
  PROVE  \A p \in Permits : Spent(p) => Spent(p)'
BY DEF Spent, Rivals

(* The guard grants no nonce that is spent: it has had no time to forget. *)
LEMMA GrantedIsUnspent ==
  ASSUME TypeOK, OnceInv, NoncesProtected, NEW s \in Slots,
         call[s].pc = "consume", ~Consumed(call[s].permit)
  PROVE  ~Spent(call[s].permit)
<1> DEFINE p == call[s].permit
<1>1. p \in Permits /\ call[s].began \in Nat /\ clock \in Nat
  BY ConstantsAssumption DEF TypeOK, CallTypeOK, Idle
<1>2. clock <= call[s].began + MaxStall /\ call[s].began < Expires[p] + Skew
  BY DEF OnceInv, ConsumeInTime
<1>3. SUFFICES ASSUME NEW q \in Rivals(p), Expires[q] + Retention < clock + Skew
               PROVE  FALSE
  BY DEF Spent, Consumed, Rivals, TypeOK
<1>4. q \in Permits /\ Expires[p] + 2 * Skew + MaxStall <= Expires[q] + Retention + 1
  BY <1>1 DEF NoncesProtected, Rivals
<1>5. Expires[p] \in Nat /\ Expires[q] \in Nat
  BY <1>1, <1>4, ConstantsAssumption
<1> QED
  BY <1>1, <1>2, <1>3, <1>4, <1>5, ConstantsAssumption

(* The granting step: nobody else claims the nonce, and nothing ran on it. *)
LEMMA ClaimNonce ==
  ASSUME TypeOK, TypeOK', NonceInv, UNCHANGED <<ran, clock>>,
         NEW s \in Slots, call[s].permit \in Permits, ~Spent(call[s].permit),
         guard' = guard \cup {call[s].permit},
         call' = [call EXCEPT ![s] = Call("authorize", call[s].permit)]
  PROVE  NonceInv'
<1> DEFINE p == call[s].permit
<1>1. \A t \in Slots : t # s => call'[t] = call[t]
  BY DEF TypeOK, CallTypeOK
<1>2. call'[s].permit = p /\ call'[s].pc = "authorize"
  BY DEF TypeOK, CallTypeOK, Call
<1>3. \A q \in Permits : (Spent(q) => Spent(q)') /\ (q \in Rivals(p) => ~Spent(q))
  BY DEF Spent, Rivals
<1>4. Spent(p)'
  BY <1>2 DEF Spent, Rivals
<1>5. \A t \in Slots : call[t].pc \in Claiming =>
        call[t].permit \in Permits /\ NonceOf[call[t].permit] # NonceOf[p]
  BY <1>3, ClaimantsPermit DEF NonceInv, ClaimsSpent, Rivals
<1>6. \A q \in Rivals(p) : ran[q] = 0
  BY <1>3 DEF NonceInv, RanSpent, Rivals, TypeOK
<1>7. ClaimsSpent'
  BY <1>1, <1>2, <1>3, <1>4, <1>5 DEF NonceInv, ClaimsSpent, Claiming
<1>8. OneClaim'
  BY <1>1, <1>2, <1>5 DEF NonceInv, OneClaim, Claiming
<1>9. ClaimsAlone'
  BY <1>1, <1>2, <1>6 DEF NonceInv, ClaimsAlone, Claiming, Rivals
<1>10. RanSpent' /\ NonceOnce'
  BY <1>3 DEF NonceInv, RanSpent, NonceOnce
<1> QED
  BY <1>7, <1>8, <1>9, <1>10 DEF NonceInv

(* Later awaits of a call belong to the permit it claimed. *)
LEMMA AdvanceClaims ==
  ASSUME TypeOK, NEW s \in Slots, NEW pc \in PCs, Goto(s, pc) \/ Return(s),
         call[s].pc \in Claiming \/ Return(s)
  PROVE  \A t \in Slots : call'[t].pc \in Claiming =>
            call[t].pc \in Claiming /\ call'[t].permit = call[t].permit
<1>1. \A t \in Slots : t # s => call'[t] = call[t]
  BY DEF Goto, Return, TypeOK, CallTypeOK
<1>2. NoCall.pc \notin Claiming
  BY DEF NoCall, Claiming, AfterConsume, AfterEffect, AfterRefusal
<1>3. CASE Return(s)
  BY <1>1, <1>2, <1>3 DEF Return, TypeOK, CallTypeOK
<1>4. CASE Goto(s, pc) /\ call[s].pc \in Claiming
  BY <1>1, <1>4 DEF Goto, TypeOK, CallTypeOK
<1> QED
  BY <1>3, <1>4

(* Every step of perform keeps nonces single. *)
LEMMA ContinueNonce ==
  ASSUME TypeOK, TypeOK', OnceInv, NonceInv, NoncesProtected, NEW s \in Slots, Continue(s)
  PROVE  NonceInv'
<1> DEFINE p == call[s].permit
           Moves == \A t \in Slots : call'[t].pc \in Claiming =>
                       call[t].pc \in Claiming /\ call'[t].permit = call[t].permit
<1>1. Moves /\ UNCHANGED <<ran, guard, clock>> => NonceInv'
  BY KeepNonce, KeepSpent
<1>2. \A pc \in PCs : (Goto(s, pc) /\ call[s].pc \in Claiming) \/ Return(s) => Moves
  BY AdvanceClaims
<1>3. Return(s) => Moves
  BY <1>2 DEF PCs
<1> HIDE DEF Moves
<1> USE DEF PCs, Claiming, AfterConsume, AfterEffect, AfterRefusal
<1>4. CASE RecordViolation(s)
  BY <1>1, <1>3, <1>4 DEF RecordViolation, world
<1>5. CASE RecordPermit(s)
  BY <1>1, <1>2, <1>3, <1>5 DEF RecordPermit, world
<1>6. CASE Prepare(s)
  BY <1>1, <1>2, <1>3, <1>6 DEF Prepare, world
<1>7. CASE Start(s)
  BY <1>1, <1>2, <1>3, <1>7 DEF Start, world
<1>8. CASE ExecutorAnswers(s)
  BY <1>1, <1>2, <1>3, <1>8 DEF ExecutorAnswers, tables, world
<1>9. CASE RecordExecution(s)
  BY <1>1, <1>2, <1>3, <1>9 DEF RecordExecution, world
<1>10. CASE Commit(s)
  BY <1>1, <1>2, <1>10 DEF Commit, world
<1>11. CASE RecordResult(s)
  BY <1>1, <1>3, <1>11 DEF RecordResult
<1>12. CASE RecordFailure(s)
  BY <1>1, <1>2, <1>3, <1>12 DEF RecordFailure, world
<1>13. CASE Fail(s)
  BY <1>1, <1>3, <1>13 DEF Fail, world
<1>14. CASE Consume(s)
  <2>1. p \in Permits /\ UNCHANGED <<ran, clock>>
    BY <1>14 DEF Consume, world, TypeOK, CallTypeOK, Idle
  <2>2. \A q \in Permits : Spent(q) => Spent(q)'
    BY <1>14 DEF Consume, Spent, Rivals
  <2>3. CASE call' = [call EXCEPT ![s] = Call("violation", p)] \/ call' = [call EXCEPT ![s] = NoCall]
    <3>1. \A t \in Slots : t # s => call'[t] = call[t]
      BY <2>3 DEF TypeOK, CallTypeOK
    <3>2. call'[s].pc \in {"violation", "idle"}
      BY <2>3 DEF TypeOK, CallTypeOK, Call, NoCall
    <3>3. Moves
      BY <3>1, <3>2 DEF Moves
    <3> QED
      BY <2>1, <2>2, <3>3, KeepNonce DEF Moves
  <2>4. CASE call' = [call EXCEPT ![s] = Call("authorize", p)]
    <3>1. call'[s].pc = "authorize"
      BY <2>4 DEF TypeOK, CallTypeOK, Call
    <3>2. call' # [call EXCEPT ![s] = Call("violation", p)]
      BY <3>1 DEF TypeOK, CallTypeOK, Call
    <3>3. ~Consumed(p) /\ guard' = guard \cup {p}
      BY <1>14, <3>2 DEF Consume
    <3>4. ~Spent(p)
      BY <1>14, <3>3, GrantedIsUnspent DEF Consume
    <3> QED
      BY <2>1, <2>4, <3>3, <3>4, ClaimNonce
  <2> QED
    BY <1>14, <2>3, <2>4 DEF Consume, Claimed
<1>15. CASE ExecutorPerforms(s)
  <2>1. call[s].pc = "execute" /\ UNCHANGED <<guard, clock>>
    BY <1>15 DEF ExecutorPerforms, tables
  <2>2. p \in Permits /\ call'[s].pc = "performed" /\ call'[s].permit = p
    BY <1>15, <2>1, ClaimantsPermit DEF ExecutorPerforms, Goto, TypeOK, CallTypeOK
  <2>3. \A t \in Slots : t # s => call'[t] = call[t]
    BY <1>15 DEF ExecutorPerforms, Goto, TypeOK, CallTypeOK
  <2>4. \A q \in Permits : q # p => ran'[q] = ran[q]
    BY <1>15 DEF ExecutorPerforms, TypeOK
  <2>5. \A q \in Permits : Spent(q)' <=> Spent(q)
    BY <2>1 DEF Spent, Rivals
  <2>6. \A q \in Rivals(p) : q # p => ran[q] = 0
    BY <2>1 DEF NonceInv, ClaimsAlone
  <2>7. \A t \in Slots : t # s /\ call[t].pc \in Claiming =>
          call[t].permit \in Permits /\ NonceOf[call[t].permit] # NonceOf[p]
    BY <2>1, ClaimantsPermit DEF NonceInv, OneClaim
  <2>8. ClaimsSpent'
    BY <2>1, <2>2, <2>3, <2>5, <2>7 DEF NonceInv, ClaimsSpent
  <2>9. OneClaim'
    BY <2>1, <2>2, <2>3 DEF NonceInv, OneClaim
  <2>10. ClaimsAlone'
    BY <2>1, <2>2, <2>3, <2>4, <2>6, <2>7 DEF NonceInv, ClaimsAlone, Rivals
  <2>11. RanSpent'
    BY <2>1, <2>2, <2>4, <2>5 DEF NonceInv, RanSpent, ClaimsSpent
  <2>12. NonceOnce'
    BY <2>2, <2>4, <2>6 DEF NonceInv, NonceOnce, Rivals
  <2> QED
    BY <2>8, <2>9, <2>10, <2>11, <2>12 DEF NonceInv
<1> QED
  BY <1>4, <1>5, <1>6, <1>7, <1>8, <1>9, <1>10, <1>11, <1>12, <1>13, <1>14, <1>15
     DEF Continue

(* What perform, crashes, recovery, retention and time leave of a nonce. *)
LEMMA NextNonce ==
  ASSUME TypeOK, TypeOK', OnceInv, NonceInv, NoncesProtected, [Next]_vars
  PROVE  NonceInv'
<1> DEFINE Moves == \A t \in Slots : call'[t].pc \in Claiming =>
                       call[t].pc \in Claiming /\ call'[t].permit = call[t].permit
<1>1. Moves /\ UNCHANGED ran /\ (\A p \in Permits : Spent(p) => Spent(p)') => NonceInv'
  BY KeepNonce
<1>2. UNCHANGED call => Moves
  OBVIOUS
<1>3. UNCHANGED <<guard, clock>> => \A p \in Permits : Spent(p) => Spent(p)'
  BY KeepSpent
<1>4. ASSUME NEW s \in Slots, Begin(s) PROVE NonceInv'
  <2>1. \A t \in Slots : t # s => call'[t] = call[t]
    BY <1>4 DEF Begin, Claimed, TypeOK, CallTypeOK
  <2>2. call'[s].pc \in {"violation", "consume"}
    BY <1>4 DEF Begin, TypeOK, CallTypeOK, Call, NoncesProtected
  <2>3. Moves
    BY <2>1, <2>2 DEF Claiming, AfterConsume, AfterEffect, AfterRefusal
  <2> HIDE DEF Moves
  <2> QED
    BY <1>1, <1>3, <1>4, <2>3 DEF Begin, tables, world
<1>5. ASSUME NEW s \in Slots, Continue(s) PROVE NonceInv'
  BY <1>5, ContinueNonce
<1>6. ASSUME NEW g \in Gateways, Crash(g) PROVE NonceInv'
  <2>1. Moves
    BY <1>6 DEF Crash, NoCall, Claiming, AfterConsume, AfterEffect, AfterRefusal
  <2> HIDE DEF Moves
  <2> QED
    BY <1>1, <1>3, <1>6, <2>1 DEF Crash, tables, world
<1>7. ASSUME NEW g \in Gateways, Boot(g) PROVE NonceInv'
  <2> HIDE DEF Moves
  <2> QED
    BY <1>1, <1>2, <1>3, <1>7
       DEF Boot, Restart, Recover, DeliverReceipt, Serve, tables, world
<1>8. CASE Cleanup
  <2>1. \A p \in Permits : Spent(p) => Spent(p)'
    <3> SUFFICES ASSUME NEW p \in Permits, NEW q \in Rivals(p), q \in guard, q \notin guard'
                 PROVE  Expires[q] + Retention < clock + Skew
      BY <1>8 DEF Cleanup, Spent, Rivals
    <3>1. PICK ahead \in 0..Skew : ~(clock + ahead <= Expires[q] + Retention)
      BY <1>8 DEF Cleanup
    <3> QED
      BY <3>1, ConstantsAssumption DEF TypeOK, Rivals
  <2> HIDE DEF Moves
  <2> QED
    BY <1>1, <1>2, <1>8, <2>1 DEF Cleanup, world
<1>9. CASE Tick
  <2>1. \A p \in Permits : Spent(p) => Spent(p)'
    BY <1>9, ConstantsAssumption DEF Tick, Spent, Rivals, TypeOK, tables
  <2> HIDE DEF Moves
  <2> QED
    BY <1>1, <1>2, <1>9, <2>1 DEF Tick, world
<1>10. CASE UNCHANGED vars
  <2> HIDE DEF Moves
  <2> QED
    BY <1>1, <1>2, <1>3, <1>10 DEF vars
<1> QED
  BY <1>4, <1>5, <1>6, <1>7, <1>8, <1>9, <1>10 DEF Next

(* v2/replay-store.ts: of two permits issued under one nonce one takes effect
   at most, with a journal or without, for any processes, calls and crashes. *)
THEOREM NoncesTakeEffectOnce == NoncesProtected => (Spec => []NonceOnce)
<1> SUFFICES ASSUME NoncesProtected PROVE Spec => []NonceOnce
  OBVIOUS
<1>1. Init => NonceInv
  BY DEF Init, NonceInv, ClaimsSpent, OneClaim, ClaimsAlone, RanSpent, NonceOnce,
         NoCall, Claiming, AfterConsume, AfterEffect, AfterRefusal
<1>2. TypeOK /\ TypeOK' /\ OnceInv /\ NonceInv /\ [Next]_vars => NonceInv'
  BY NextNonce
<1>3. NonceInv => NonceOnce
  BY DEF NonceInv
<1>4. Protected
  BY DEF NoncesProtected
<1> QED
  BY <1>1, <1>2, <1>3, <1>4, TypeCorrect, OnceInvariant, PTL DEF Spec
-----------------------------------------------------------------------------
(* Evidence: what a call has put on record by the time it waits where it does *)

(* By each await, what perform has recorded and done for the permit it carries. *)
Backed(pc, p) ==
  /\ pc \in Late \ {"authorize"} => <<"effect_permit", p>> \in evidence
  /\ pc \in AfterEffect => ran[p] > 0
  /\ pc \in {"commit", "result"} => <<"execution_ok", p>> \in evidence
  /\ pc = "fail" => <<"execution_failed", p>> \in evidence

StagesRecorded == \A s \in Slots : Backed(call[s].pc, call[s].permit)

(* An effect that happened was authorized on record. *)
EffectsAuthorized == \A p \in Permits : ran[p] > 0 => <<"effect_permit", p>> \in evidence

EvidenceInv == StagesRecorded /\ EffectsAuthorized /\ AnswerBacked

(* Evidence and effects only accumulate, so what backs a stage goes on backing it. *)
LEMMA BackedStays ==
  ASSUME NEW pc, NEW p, Backed(pc, p), evidence \subseteq evidence', UNCHANGED ran
  PROVE  Backed(pc, p)'
BY DEF Backed

(* Appending evidence forgets none ... *)
LEMMA RecordAppends ==
  ASSUME NEW type, NEW p, NEW ok, Record(type, p, ok)
  PROVE  evidence \subseteq evidence'
BY DEF Record

(* ... and a successful append is there. *)
LEMMA RecordedIsThere ==
  ASSUME NEW type, NEW p, Record(type, p, TRUE)
  PROVE  <<type, p>> \in evidence'
BY DEF Record

(* A call that moves on or ends is the only one to move, and keeps its permit. *)
LEMMA OneCallMoves ==
  ASSUME TypeOK, NEW s \in Slots, NEW pc, Goto(s, pc) \/ Return(s)
  PROVE  /\ \A t \in Slots : t # s => call'[t] = call[t]
         /\ \/ call'[s] = NoCall
            \/ call'[s].pc = pc /\ call'[s].permit = call[s].permit
BY DEF TypeOK, CallTypeOK, Goto, Return

(* A step of a call that is backed where it arrives keeps all of it. *)
LEMMA AdvanceRecorded ==
  ASSUME TypeOK, EvidenceInv, NEW s \in Slots, NEW pc, NEW p, p = call[s].permit,
         Goto(s, pc) \/ Return(s), Return(s) \/ Backed(pc, p)',
         evidence \subseteq evidence', UNCHANGED <<ran, answered>>
  PROVE  EvidenceInv'
<1>1. NoCall.pc \notin Late /\ NoCall.pc \notin AfterEffect
  BY DEF NoCall, Late, AfterConsume, AfterEffect, AfterRefusal
<1>3. Backed(call[s].pc, call[s].permit)'
  <2>1. CASE Return(s)
    <3>1. call'[s] = NoCall
      BY <2>1 DEF Return, TypeOK, CallTypeOK
    <3> QED
      BY <1>1, <3>1 DEF Backed, NoCall
  <2>2. CASE Goto(s, pc) /\ Backed(pc, p)'
    <3>1. call'[s].pc = pc /\ call'[s].permit = p
      BY <2>2 DEF Goto, TypeOK, CallTypeOK
    <3> QED
      BY <2>2, <3>1 DEF Backed
  <2> QED
    BY <2>1, <2>2
<1>4. \A t \in Slots : t # s => Backed(call[t].pc, call[t].permit)'
  BY OneCallMoves DEF EvidenceInv, StagesRecorded, Backed
<1>5. StagesRecorded'
  BY <1>3, <1>4 DEF StagesRecorded
<1>6. EffectsAuthorized' /\ AnswerBacked'
  BY DEF EvidenceInv, EffectsAuthorized, AnswerBacked
<1> QED
  BY <1>5, <1>6 DEF EvidenceInv

(* A step that moves no call past the claim, and takes no evidence away. *)
LEMMA NothingRecorded ==
  ASSUME EvidenceInv, evidence \subseteq evidence', UNCHANGED <<ran, answered>>,
         \A t \in Slots : call'[t] = call[t] \/ call'[t].pc \notin Late \ {"authorize"}
  PROVE  EvidenceInv'
<1>1. StagesRecorded'
  BY DEF EvidenceInv, StagesRecorded, Backed, Late, AfterConsume, AfterEffect, AfterRefusal
<1> QED
  BY <1>1 DEF EvidenceInv, EffectsAuthorized, AnswerBacked

(* perform, step by step: nothing is answered or done before it is on record. *)
LEMMA ContinueRecorded ==
  ASSUME TypeOK, EvidenceInv, NEW s \in Slots, Continue(s)
  PROVE  EvidenceInv'
<1>1. PICK p \in Permits : p = call[s].permit
  <2>1. ~Idle(s)
    BY DEF Continue, RecordViolation, Consume, RecordPermit, Prepare, Start,
           ExecutorPerforms, ExecutorAnswers, RecordExecution, Commit,
           RecordResult, RecordFailure, Fail, Idle
  <2> QED
    BY <2>1, BusyPermit
<1>2. Backed(call[s].pc, p)
  BY <1>1 DEF EvidenceInv, StagesRecorded
<1>3. ASSUME NEW pc, Goto(s, pc) \/ Return(s), Return(s) \/ Backed(pc, p)',
             evidence \subseteq evidence', UNCHANGED <<ran, answered>>
      PROVE  EvidenceInv'
  BY <1>1, <1>3, AdvanceRecorded
<1>4. ASSUME Return(s), evidence \subseteq evidence', UNCHANGED <<ran, answered>>
      PROVE  EvidenceInv'
  BY <1>3, <1>4
<1>5. \A pc : evidence \subseteq evidence' /\ ran' = ran /\ Backed(pc, p) => Backed(pc, p)'
  BY BackedStays
<1>6. CASE RecordViolation(s)
  BY <1>4, <1>6, <1>1, RecordAppends DEF RecordViolation, world
<1>7. CASE Consume(s)
  <2>1. \A t \in Slots : call'[t] = call[t] \/ call'[t].pc \in {"authorize", "violation", "idle"}
    <3>1. PICK c \in {Call("violation", p), Call("authorize", p), NoCall} :
            call' = [call EXCEPT ![s] = c]
      BY <1>1, <1>7 DEF Consume, Claimed
    <3>2. c.pc \in {"authorize", "violation", "idle"}
      BY <3>1 DEF Call, NoCall
    <3> QED
      BY <3>1, <3>2 DEF TypeOK, CallTypeOK
  <2>2. UNCHANGED <<evidence, ran, answered>>
    BY <1>7 DEF Consume, world
  <2> QED
    BY <2>1, <2>2, NothingRecorded DEF Late, AfterConsume, AfterEffect, AfterRefusal
<1>8. CASE RecordPermit(s)
  <2>1. evidence \subseteq evidence' /\ UNCHANGED <<ran, answered>>
    BY <1>8, <1>1, RecordAppends DEF RecordPermit, world
  <2>2. CASE Return(s)
    BY <1>4, <2>1, <2>2
  <2>3. CASE Record("effect_permit", p, TRUE) /\ Goto(s, IF Journaling THEN "prepare" ELSE "execute")
    <3>1. \A pc \in {"prepare", "execute"} : Backed(pc, p)'
      BY <2>3, RecordedIsThere DEF Backed, AfterEffect
    <3> QED
      BY <1>3, <2>1, <2>3, <3>1
  <2> QED
    BY <1>1, <1>8, <2>2, <2>3 DEF RecordPermit
<1>9. CASE Prepare(s) \/ Start(s)
  <2>1. UNCHANGED <<evidence, ran, answered>>
    BY <1>9 DEF Prepare, Start, world
  <2>2. \A pc \in {"start", "execute"} : Backed(pc, p)
    BY <1>2, <1>9 DEF Prepare, Start, Backed, Late, AfterConsume, AfterEffect
  <2>3. PICK pc \in {"start", "execute"} : Goto(s, pc) \/ Return(s)
    BY <1>9 DEF Prepare, Start
  <2> QED
    BY <1>3, <1>5, <2>1, <2>2, <2>3
<1>10. CASE ExecutorPerforms(s)
  <2>1. UNCHANGED <<evidence, answered>> /\ ran' = [ran EXCEPT ![p] = @ + 1]
    BY <1>1, <1>10 DEF ExecutorPerforms, tables
  <2>2. ran'[p] > 0 /\ \A q \in Permits : ran[q] > 0 => ran'[q] > 0
    BY <1>1, <2>1 DEF TypeOK
  <2>3. <<"effect_permit", p>> \in evidence
    BY <1>2, <1>10 DEF ExecutorPerforms, Backed, Late, AfterConsume
  <2>4. \A t \in Slots : call[t].pc \in AfterEffect => call[t].permit \in Permits
    BY DEF TypeOK, CallTypeOK, Idle, AfterEffect
  <2>5. \A t \in Slots : t # s => call'[t] = call[t]
    BY <1>1, <1>10 DEF ExecutorPerforms, Goto, TypeOK, CallTypeOK
  <2>6. call'[s].pc = "performed" /\ call'[s].permit = p
    BY <1>1, <1>10 DEF ExecutorPerforms, Goto, TypeOK, CallTypeOK
  <2>7. StagesRecorded'
    BY <2>1, <2>2, <2>3, <2>4, <2>5, <2>6 DEF EvidenceInv, StagesRecorded, Backed
  <2>8. EffectsAuthorized'
    BY <2>1, <2>3 DEF EvidenceInv, EffectsAuthorized, TypeOK
  <2>9. AnswerBacked'
    BY <2>1, <2>2 DEF EvidenceInv, AnswerBacked, TypeOK
  <2> QED
    BY <2>7, <2>8, <2>9 DEF EvidenceInv
<1>11. CASE ExecutorAnswers(s)
  <2>1. UNCHANGED <<evidence, ran, answered>>
    BY <1>11 DEF ExecutorAnswers, tables, world
  <2>2. PICK pc : Return(s) \/ (Goto(s, pc) /\ Backed(pc, p))
    BY <1>2, <1>11 DEF ExecutorAnswers, Backed, Late, AfterConsume, AfterEffect, AfterRefusal
  <2> QED
    BY <1>3, <1>5, <2>1, <2>2
<1>12. CASE RecordExecution(s)
  <2>1. evidence \subseteq evidence' /\ UNCHANGED <<ran, answered>>
    BY <1>12, <1>1, RecordAppends DEF RecordExecution, world
  <2>2. CASE Return(s)
    BY <1>4, <2>1, <2>2
  <2>3. CASE Record("execution_ok", p, TRUE) /\ Goto(s, IF Journaling THEN "commit" ELSE "result")
    <3>1. <<"effect_permit", p>> \in evidence /\ ran[p] > 0
      BY <1>2, <1>12 DEF RecordExecution, Backed, Late, AfterEffect
    <3>2. \A pc \in {"commit", "result"} : Backed(pc, p)'
      <4>1. <<"execution_ok", p>> \in evidence'
        BY <2>3, RecordedIsThere
      <4> QED
        BY <2>1, <3>1, <4>1 DEF Backed
    <3> QED
      BY <1>3, <2>1, <2>3, <3>2
  <2> QED
    BY <1>1, <1>12, <2>2, <2>3 DEF RecordExecution
<1>13. CASE Commit(s)
  <2>1. UNCHANGED <<evidence, ran, answered>> /\ Goto(s, "result")
    BY <1>13 DEF Commit, world
  <2>2. Backed("result", p)
    BY <1>2, <1>13 DEF Commit, Backed, Late, AfterEffect
  <2> QED
    BY <1>3, <1>5, <2>1, <2>2
<1>14. CASE RecordResult(s)
  <2>1. evidence \subseteq evidence' /\ ran' = ran /\ Return(s)
    BY <1>14, <1>1, RecordAppends DEF RecordResult
  <2>2. CASE answered' = answered
    BY <1>4, <2>1, <2>2
  <2>3. CASE Record("tool_result_commitment", p, TRUE) /\ answered' = answered \cup {p}
    <3>1. <<"execution_ok", p>> \in evidence /\ ran[p] > 0
      BY <1>2, <1>14 DEF RecordResult, Backed, AfterEffect
    <3>2. AnswerBacked'
      <4>1. <<"tool_result_commitment", p>> \in evidence'
        BY <2>3, RecordedIsThere
      <4> QED
        BY <2>1, <2>3, <3>1, <4>1 DEF EvidenceInv, AnswerBacked
    <3>3. \A t \in Slots : call'[t] = call[t] \/ call'[t] = NoCall
      BY <2>1 DEF Return, TypeOK, CallTypeOK
    <3>4. StagesRecorded'
      BY <2>1, <3>3 DEF EvidenceInv, StagesRecorded, Backed, NoCall, Late, AfterConsume, AfterEffect, AfterRefusal
    <3> QED
      BY <2>1, <3>2, <3>4 DEF EvidenceInv, EffectsAuthorized
  <2> QED
    BY <1>1, <1>14, <2>2, <2>3 DEF RecordResult
<1>15. CASE RecordFailure(s)
  <2>1. evidence \subseteq evidence' /\ UNCHANGED <<ran, answered>>
    BY <1>15, <1>1, RecordAppends DEF RecordFailure, world
  <2>2. CASE Return(s)
    BY <1>4, <2>1, <2>2
  <2>3. CASE Record("execution_failed", p, TRUE) /\ Goto(s, "fail")
    <3>1. <<"effect_permit", p>> \in evidence
      BY <1>2, <1>15 DEF RecordFailure, Backed, Late, AfterRefusal
    <3>2. Backed("fail", p)'
      <4>1. <<"execution_failed", p>> \in evidence'
        BY <2>3, RecordedIsThere
      <4> QED
        BY <2>1, <3>1, <4>1 DEF Backed, AfterEffect
    <3> QED
      BY <1>3, <2>1, <2>3, <3>2
  <2> QED
    BY <1>1, <1>15, <2>2, <2>3 DEF RecordFailure
<1>16. CASE Fail(s)
  BY <1>4, <1>16 DEF Fail, world
<1> QED
  BY <1>6, <1>7, <1>8, <1>9, <1>10, <1>11, <1>12, <1>13, <1>14, <1>15, <1>16 DEF Continue

(* Every step keeps the record. *)
LEMMA NextRecorded ==
  ASSUME TypeOK, EvidenceInv, [Next]_vars
  PROVE  EvidenceInv'
<1>1. ASSUME NEW s \in Slots, Begin(s) PROVE EvidenceInv'
  <2>1. \A t \in Slots : call'[t] = call[t] \/ call'[t].pc \in {"authorize", "violation", "idle", "consume"}
    <3>1. PICK c : call' = [call EXCEPT ![s] = c]
                   /\ c.pc \in {"authorize", "violation", "idle", "consume"}
      <4>1. PICK p \in Permits :
              \/ call' = [call EXCEPT ![s] = Call("violation", p)]
              \/ call' = [call EXCEPT ![s] = [pc |-> "consume", permit |-> p, began |-> clock]]
              \/ Claimed(s, p)
        BY <1>1 DEF Begin
      <4>2. PICK c \in {Call("violation", p), Call("authorize", p), NoCall,
                        [pc |-> "consume", permit |-> p, began |-> clock]} :
              call' = [call EXCEPT ![s] = c]
        BY <4>1 DEF Claimed
      <4>3. c.pc \in {"authorize", "violation", "idle", "consume"}
        BY <4>2 DEF Call, NoCall
      <4> QED
        BY <4>2, <4>3
    <3> QED
      BY <3>1 DEF TypeOK, CallTypeOK
  <2>2. UNCHANGED <<evidence, ran, answered>>
    BY <1>1 DEF Begin, tables, world
  <2> QED
    BY <2>1, <2>2, NothingRecorded DEF Late, AfterConsume, AfterEffect, AfterRefusal
<1>2. ASSUME NEW s \in Slots, Continue(s) PROVE EvidenceInv'
  BY <1>2, ContinueRecorded
<1>3. ASSUME NEW g \in Gateways, Crash(g) PROVE EvidenceInv'
  <2>1. \A t \in Slots : call'[t] = call[t] \/ call'[t].pc = "idle"
    BY <1>3 DEF Crash, NoCall
  <2>2. UNCHANGED <<evidence, ran, answered>>
    BY <1>3 DEF Crash, tables, world
  <2> QED
    BY <2>1, <2>2, NothingRecorded DEF Late, AfterConsume, AfterEffect, AfterRefusal
<1>4. ASSUME NEW g \in Gateways, Boot(g) PROVE EvidenceInv'
  BY <1>4, NothingRecorded DEF Boot, Restart, Recover, DeliverReceipt, Serve, tables, world
<1>5. CASE Cleanup \/ Tick
  BY <1>5, NothingRecorded DEF Cleanup, Tick, tables, world
<1>6. CASE UNCHANGED vars
  BY <1>6, NothingRecorded DEF vars
<1> QED
  BY <1>1, <1>2, <1>3, <1>4, <1>5, <1>6 DEF Next

(* The record holds in every behaviour, journal or no journal. *)
LEMMA EvidenceInvariant == Spec => []EvidenceInv
<1>1. Init => EvidenceInv
  BY DEF Init, EvidenceInv, StagesRecorded, Backed, EffectsAuthorized, AnswerBacked, NoCall,
         Late, AfterConsume, AfterEffect, AfterRefusal
<1> QED
  BY <1>1, NextRecorded, TypeCorrect, PTL DEF Spec

(* perform answers performed: true only for an effect that happened and whose
   execution and result are in v2_evidence, whatever the journal replied. *)
THEOREM AnswersAreBacked == Spec => []AnswerBacked
<1>1. EvidenceInv => AnswerBacked
  BY DEF EvidenceInv
<1> QED
  BY <1>1, EvidenceInvariant, PTL

(* No effect without its authorization on record first. *)
THEOREM EffectsAreAuthorized == Spec => []EffectsAuthorized
<1>1. EvidenceInv => EffectsAuthorized
  BY DEF EvidenceInv
<1> QED
  BY <1>1, EvidenceInvariant, PTL

-----------------------------------------------------------------------------
(* The journal: what a row says is true *)

(* What the row of its permit says while a call waits where it does.  Another
   process that recovers may have turned it into uncertain meanwhile.        *)
RowFor(pc, p) ==
  /\ pc = "start" => journal[p] \in {"prepared", "uncertain"}
  /\ pc \in {"execute", "performed", "witness", "commit"} \cup AfterRefusal =>
       journal[p] \in {"executing", "uncertain"}

RowsFollowStages == Journaling => \A s \in Slots : RowFor(call[s].pc, call[s].permit)

JournalInv == RowsFollowStages /\ JournalTruthful

(* A transition touches its own row, and leaves it or takes it where it says. *)
LEMMA TransitionMoves ==
  ASSUME TypeOK, NEW p \in Permits, NEW to, NEW error, NEW reply,
         Transition(p, to, error, reply)
  PROVE  /\ \A q \in Permits : q # p => journal'[q] = journal[q]
         /\ \/ journal'[p] = journal[p]
            \/ journal'[p] = to /\ CanTransition(journal[p], to)
         /\ reply = "recorded" => journal'[p] = to /\ CanTransition(journal[p], to)
BY DEF TypeOK, Transition, WriteRow, Admits

(* A row is moved by the owner or by recovery, so a verdict that is true when
   it is written makes the journal no less truthful.                         *)
LEMMA TransitionTruthful ==
  ASSUME TypeOK, Journaling, JournalTruthful, NEW p \in Permits,
         NEW to \in {"executing", "committed", "failed", "uncertain"}, NEW error, NEW reply,
         Transition(p, to, error, reply), UNCHANGED <<ran, evidence>>,
         to = "committed" => ran[p] > 0 /\ <<"execution_ok", p>> \in evidence,
         to = "failed" => ran[p] = 0 /\ <<"execution_failed", p>> \in evidence
  PROVE  JournalTruthful'
<1>1. /\ \A q \in Permits : q # p => journal'[q] = journal[q]
      /\ \/ journal'[p] = journal[p]
         \/ journal'[p] = to /\ CanTransition(journal[p], to)
  BY TransitionMoves
<1>2. /\ journal'[p] = "committed" => ran[p] > 0 /\ <<"execution_ok", p>> \in evidence
      /\ journal'[p] = "failed" => ran[p] = 0 /\ <<"execution_failed", p>> \in evidence
  BY <1>1 DEF JournalTruthful
<1>3. ran[p] > 0 => journal'[p] \in {"executing", "committed", "uncertain"}
  <2>1. ran[p] > 0 => to # "failed"
    BY DEF TypeOK
  <2> QED
    BY <1>1, <2>1 DEF JournalTruthful
<1> QED
  BY <1>1, <1>2, <1>3 DEF JournalTruthful

(* When the rows of running calls stay as they are, so does what is known. *)
LEMMA RowsUntouched ==
  ASSUME TypeOK, EvidenceInv', JournalInv, evidence \subseteq evidence', UNCHANGED <<ran, journal>>,
         \A t \in Slots : \/ call'[t] = call[t]
                          \/ RowFor(call[t].pc, call[t].permit)'
  PROVE  JournalInv'
<1>1. RowsFollowStages'
  BY DEF JournalInv, RowsFollowStages, RowFor
<1>2. JournalTruthful'
  BY DEF JournalInv, JournalTruthful
<1> QED
  BY <1>1, <1>2 DEF JournalInv

(* A call that writes its own row: no other running call has that row. *)
LEMMA OwnRowMoves ==
  ASSUME TypeOK, TypeOK', OnceInv, OnceInv', JournalInv, JournalTruthful', Journaling,
         NEW s \in Slots, NEW p \in Permits, p = call[s].permit, call[s].pc \in Owning,
         NEW pc, Goto(s, pc) \/ Return(s), Return(s) \/ RowFor(pc, p)',
         \A q \in Permits : q # p => journal'[q] = journal[q]
  PROVE  JournalInv'
<1>1. ASSUME NEW t \in Slots, t # s PROVE RowFor(call[t].pc, call[t].permit)'
  <2>1. call'[t] = call[t]
    BY <1>1, OneCallMoves
  <2>2. CASE call[t].pc \in Owning
    <3>1. call[t].permit # p /\ call[t].permit \in Permits
      BY <1>1, <2>2 DEF OnceInv, OneOwner, TypeOK, CallTypeOK, Idle, Owning, Late, AfterConsume,
         AfterEffect, AfterRefusal
    <3> QED
      BY <2>1, <3>1 DEF JournalInv, RowsFollowStages, RowFor
  <2>3. CASE call[t].pc \notin Owning
    BY <2>1, <2>3 DEF RowFor, Owning, Late, AfterConsume, AfterEffect, AfterRefusal
  <2> QED
    BY <2>2, <2>3
<1>2. RowFor(call[s].pc, call[s].permit)'
  <2>1. CASE Return(s)
    BY <2>1 DEF Return, NoCall, TypeOK, CallTypeOK, RowFor, AfterRefusal
  <2>2. CASE Goto(s, pc) /\ RowFor(pc, p)'
    <3>1. call'[s].pc = pc /\ call'[s].permit = p
      BY <2>2 DEF Goto, TypeOK, CallTypeOK
    <3> QED
      BY <2>2, <3>1 DEF RowFor
  <2> QED
    BY <2>1, <2>2
<1>3. RowsFollowStages'
  BY <1>1, <1>2 DEF RowsFollowStages
<1> QED
  BY <1>3 DEF JournalInv

(* A call that moves on while the rows stay: its next await fits the row. *)
LEMMA RowStays ==
  ASSUME TypeOK, EvidenceInv', JournalInv, NEW s \in Slots, NEW p, p = call[s].permit,
         NEW pc, Goto(s, pc) \/ Return(s), Return(s) \/ RowFor(pc, p)',
         evidence \subseteq evidence', UNCHANGED <<ran, journal>>
  PROVE  JournalInv'
<1>1. \A t \in Slots : t # s => call'[t] = call[t]
  BY OneCallMoves
<1>2. RowFor(call[s].pc, call[s].permit)'
  <2>1. CASE Return(s)
    BY <2>1 DEF Return, NoCall, TypeOK, CallTypeOK, RowFor, AfterRefusal
  <2>2. CASE Goto(s, pc) /\ RowFor(pc, p)'
    <3>1. call'[s].pc = pc /\ call'[s].permit = p
      BY <2>2 DEF Goto, TypeOK, CallTypeOK
    <3> QED
      BY <2>2, <3>1 DEF RowFor
  <2> QED
    BY <2>1, <2>2
<1> QED
  BY <1>1, <1>2, RowsUntouched

(* Claiming acquires no row. *)
LEMMA ClaimsHaveNoRow ==
  ASSUME TypeOK, EvidenceInv', JournalInv, evidence \subseteq evidence', UNCHANGED <<ran, journal>>,
         \A t \in Slots : \/ call'[t] = call[t]
                          \/ call'[t].pc \in {"authorize", "violation", "idle", "consume"}
  PROVE  JournalInv'
BY RowsUntouched DEF RowFor, AfterRefusal

(* perform, step by step, with a journal. *)
LEMMA ContinueTruthful ==
  ASSUME TypeOK, TypeOK', OnceInv, OnceInv', EvidenceInv, EvidenceInv', JournalInv, Journaling,
         NEW s \in Slots, Continue(s)
  PROVE  JournalInv'
<1>1. PICK p \in Permits : p = call[s].permit
  <2>1. ~Idle(s)
    BY DEF Continue, RecordViolation, Consume, RecordPermit, Prepare, Start,
           ExecutorPerforms, ExecutorAnswers, RecordExecution, Commit,
           RecordResult, RecordFailure, Fail, Idle
  <2> QED
    BY <2>1, BusyPermit
<1>2. Backed(call[s].pc, p) /\ RowFor(call[s].pc, p)
  BY <1>1 DEF EvidenceInv, StagesRecorded, JournalInv, RowsFollowStages
<1>3. ASSUME NEW pc, Goto(s, pc) \/ Return(s), Return(s) \/ RowFor(pc, p),
             evidence \subseteq evidence', UNCHANGED <<ran, journal>>
      PROVE  JournalInv'
  <2>1. RowFor(pc, p) => RowFor(pc, p)'
    BY <1>3 DEF RowFor
  <2> QED
    BY <1>1, <1>3, <2>1, RowStays
<1>4. ASSUME Return(s), evidence \subseteq evidence', UNCHANGED <<ran, journal>>
      PROVE  JournalInv'
  BY <1>3, <1>4
<1>5. ran[p] \in Nat /\ ran[p] <= 1
  BY DEF TypeOK, OnceInv, RanMarked
<1>6. CASE RecordViolation(s)
  BY <1>4, <1>6, RecordAppends DEF RecordViolation, world
<1>7. CASE Consume(s)
  <2>1. \A t \in Slots : call'[t] = call[t] \/ call'[t].pc \in {"authorize", "violation", "idle"}
    <3>1. PICK c \in {Call("violation", p), Call("authorize", p), NoCall} :
            call' = [call EXCEPT ![s] = c]
      BY <1>1, <1>7 DEF Consume, Claimed
    <3>2. c.pc \in {"authorize", "violation", "idle"}
      BY <3>1 DEF Call, NoCall
    <3> QED
      BY <3>1, <3>2 DEF TypeOK, CallTypeOK
  <2>2. UNCHANGED <<evidence, ran, journal>>
    BY <1>7 DEF Consume, world
  <2> QED
    BY <2>1, <2>2, ClaimsHaveNoRow
<1>8. CASE RecordPermit(s)
  <2>1. evidence \subseteq evidence' /\ UNCHANGED <<ran, journal>>
    BY <1>1, <1>8, RecordAppends DEF RecordPermit, world
  <2>2. Goto(s, "prepare") \/ Return(s)
    BY <1>8 DEF RecordPermit
  <2>3. RowFor("prepare", p)
    BY DEF RowFor, AfterRefusal
  <2> QED
    BY <1>3, <2>1, <2>2, <2>3
<1>9. CASE Prepare(s)
  <2>1. UNCHANGED <<evidence, ran>>
    BY <1>9 DEF Prepare, world
  <2>2. CASE journal' = journal /\ Return(s)
    BY <1>4, <2>1, <2>2
  <2>3. CASE journal[p] = "absent" /\ journal' = [journal EXCEPT ![p] = "prepared"]
             /\ (Goto(s, "start") \/ Return(s))
    <3>1. journal'[p] = "prepared" /\ \A q \in Permits : q # p => journal'[q] = journal[q]
      BY <2>3 DEF TypeOK
    <3>2. JournalTruthful'
      BY <2>1, <2>3, <3>1 DEF JournalInv, JournalTruthful, TypeOK
    <3>3. \A t \in Slots : t # s => call'[t] = call[t]
      BY <2>3, OneCallMoves
    <3>4. ASSUME NEW t \in Slots, t # s PROVE RowFor(call[t].pc, call[t].permit)'
      <4>1. CASE call[t].pc \in Owning
        <5>1. call[t].permit # p /\ call[t].permit \in Permits
          BY <2>3, <4>1 DEF OnceInv, OwnersMarked, Marked, TypeOK, CallTypeOK, Idle, Owning, Late,
             AfterConsume, AfterEffect, AfterRefusal
        <5> QED
          BY <3>1, <3>3, <3>4, <5>1 DEF JournalInv, RowsFollowStages, RowFor
      <4>2. CASE call[t].pc \notin Owning
        BY <3>3, <3>4, <4>2 DEF RowFor, Owning, Late, AfterConsume, AfterEffect, AfterRefusal
      <4> QED
        BY <4>1, <4>2
    <3>5. RowFor(call[s].pc, call[s].permit)'
      <4>1. \/ call'[s].pc = "start" /\ call'[s].permit = p
            \/ call'[s].pc = "idle"
        BY <1>1, <2>3, OneCallMoves DEF NoCall
      <4> QED
        BY <3>1, <4>1 DEF RowFor, AfterRefusal
    <3>6. RowsFollowStages'
      BY <3>4, <3>5 DEF RowsFollowStages
    <3> QED
      BY <3>2, <3>6 DEF JournalInv
  <2> QED
    BY <1>1, <1>9, <2>2, <2>3 DEF Prepare
<1>10. CASE Start(s)
  <2>1. PICK reply \in Replies : /\ Transition(p, "executing", NoError, reply)
                                 /\ IF reply = "recorded" THEN Goto(s, "execute") ELSE Return(s)
    BY <1>1, <1>10 DEF Start
  <2>2. UNCHANGED <<evidence, ran>> /\ call[s].pc \in Owning
    BY <1>10 DEF Start, world, Owning, Late, AfterConsume
  <2>3. JournalTruthful'
    BY <2>1, <2>2, TransitionTruthful DEF JournalInv
  <2>4. /\ \A q \in Permits : q # p => journal'[q] = journal[q]
        /\ reply = "recorded" => journal'[p] = "executing"
    BY <2>1, TransitionMoves
  <2>5. Return(s) \/ (Goto(s, "execute") /\ RowFor("execute", p)')
    BY <2>1, <2>4 DEF RowFor, AfterRefusal
  <2> QED
    BY <1>1, <2>2, <2>3, <2>4, <2>5, OwnRowMoves
<1>11. CASE ExecutorPerforms(s)
  <2>1. ran' = [ran EXCEPT ![p] = @ + 1] /\ UNCHANGED <<evidence, journal>>
    BY <1>1, <1>11 DEF ExecutorPerforms, tables
  <2>2. journal[p] \in {"executing", "uncertain"}
    BY <1>2, <1>11 DEF ExecutorPerforms, RowFor
  <2>3. JournalTruthful'
    BY <1>5, <2>1, <2>2 DEF JournalInv, JournalTruthful, TypeOK
  <2>4. Goto(s, "performed") /\ RowFor("performed", p)'
    BY <1>11, <2>1, <2>2 DEF ExecutorPerforms, RowFor, AfterRefusal
  <2>5. call[s].pc \in Owning
    BY <1>11 DEF ExecutorPerforms, Owning, Late, AfterConsume
  <2> QED
    BY <1>1, <2>1, <2>3, <2>4, <2>5, OwnRowMoves
<1>12. CASE ExecutorAnswers(s)
  <2>1. UNCHANGED <<evidence, ran, journal>>
    BY <1>12 DEF ExecutorAnswers, tables, world
  <2>2. PICK pc : Return(s) \/ (Goto(s, pc) /\ RowFor(pc, p))
    BY <1>2, <1>12 DEF ExecutorAnswers, RowFor, AfterRefusal
  <2> QED
    BY <1>3, <2>1, <2>2
<1>13. CASE RecordExecution(s)
  <2>1. evidence \subseteq evidence' /\ UNCHANGED <<ran, journal>>
    BY <1>1, <1>13, RecordAppends DEF RecordExecution, world
  <2>2. Goto(s, "commit") \/ Return(s)
    BY <1>13 DEF RecordExecution
  <2>3. RowFor("commit", p)
    BY <1>2, <1>13 DEF RecordExecution, RowFor
  <2> QED
    BY <1>3, <2>1, <2>2, <2>3
<1>14. CASE Commit(s)
  <2>1. PICK reply \in Replies : Transition(p, "committed", NoError, reply)
    BY <1>1, <1>14 DEF Commit
  <2>2. UNCHANGED <<evidence, ran>> /\ call[s].pc \in Owning /\ Goto(s, "result")
    BY <1>14 DEF Commit, world, Owning, Late, AfterEffect
  <2>3. ran[p] > 0 /\ <<"execution_ok", p>> \in evidence
    BY <1>2, <1>14 DEF Commit, Backed, AfterEffect
  <2>4. JournalTruthful'
    BY <2>1, <2>2, <2>3, TransitionTruthful DEF JournalInv
  <2>5. \A q \in Permits : q # p => journal'[q] = journal[q]
    BY <2>1, TransitionMoves
  <2>6. RowFor("result", p)'
    BY DEF RowFor, AfterRefusal
  <2> QED
    BY <1>1, <2>2, <2>4, <2>5, <2>6, OwnRowMoves
<1>15. CASE RecordResult(s)
  BY <1>1, <1>4, <1>15, RecordAppends DEF RecordResult
<1>16. CASE RecordFailure(s)
  <2>1. evidence \subseteq evidence' /\ UNCHANGED <<ran, journal>>
    BY <1>1, <1>16, RecordAppends DEF RecordFailure, world
  <2>2. Goto(s, "fail") \/ Return(s)
    BY <1>16 DEF RecordFailure
  <2>3. RowFor("fail", p)
    BY <1>2, <1>16 DEF RecordFailure, RowFor, AfterRefusal
  <2> QED
    BY <1>3, <2>1, <2>2, <2>3
<1>17. CASE Fail(s)
  <2>1. PICK reply \in Replies : Transition(p, "failed", "executor", reply)
    BY <1>1, <1>17 DEF Fail
  <2>2. UNCHANGED <<evidence, ran>> /\ call[s].pc \in Owning \ AfterEffect /\ Return(s)
    BY <1>17 DEF Fail, world, Owning, Late, AfterRefusal, AfterEffect
  <2>3. ran[p] = 0 /\ <<"execution_failed", p>> \in evidence
    BY <1>1, <1>2, <1>17, <2>2 DEF Fail, Backed, OnceInv, OwnersFresh
  <2>4. JournalTruthful'
    BY <2>1, <2>2, <2>3, TransitionTruthful DEF JournalInv
  <2>5. \A q \in Permits : q # p => journal'[q] = journal[q]
    BY <2>1, TransitionMoves
  <2> QED
    BY <1>1, <2>2, <2>4, <2>5, OwnRowMoves
<1> QED
  BY <1>6, <1>7, <1>8, <1>9, <1>10, <1>11, <1>12, <1>13, <1>14, <1>15, <1>16, <1>17 DEF Continue

(* Recovery may overtake a call of another process; its row then says uncertain. *)
LEMMA RecoverTruthful ==
  ASSUME TypeOK, EvidenceInv', JournalInv, Journaling, NEW g \in Gateways, Recover(g)
  PROVE  JournalInv'
<1>1. PICK e \in gw[g].todo, reply \in Replies : Transition(e[1], "uncertain", e[2], reply)
  BY DEF Recover
<1>2. PICK p \in Permits : p = e[1]
  BY DEF TypeOK
<1>3. UNCHANGED <<evidence, ran, call>>
  BY DEF Recover, world
<1>4. JournalTruthful'
  BY <1>1, <1>2, <1>3, TransitionTruthful DEF JournalInv
<1>5. \A q \in Permits : journal'[q] \in {journal[q], "uncertain"}
  BY <1>1, <1>2, TransitionMoves
<1>6. \A t \in Slots : call[t].permit \in Permits \/ call[t].pc = "idle"
  BY DEF TypeOK, CallTypeOK, Idle
<1>7. RowsFollowStages'
  BY <1>3, <1>5, <1>6 DEF JournalInv, RowsFollowStages, RowFor, AfterRefusal
<1> QED
  BY <1>4, <1>7 DEF JournalInv

(* Every step keeps the journal truthful. *)
LEMMA NextTruthful ==
  ASSUME TypeOK, TypeOK', OnceInv, OnceInv', EvidenceInv, EvidenceInv', JournalInv, Journaling,
         [Next]_vars
  PROVE  JournalInv'
<1>1. ASSUME NEW s \in Slots, Begin(s) PROVE JournalInv'
  <2>1. \A t \in Slots : \/ call'[t] = call[t]
                         \/ call'[t].pc \in {"authorize", "violation", "idle", "consume"}
    <3>1. PICK p \in Permits :
            \/ call' = [call EXCEPT ![s] = Call("violation", p)]
            \/ call' = [call EXCEPT ![s] = [pc |-> "consume", permit |-> p, began |-> clock]]
            \/ Claimed(s, p)
      BY <1>1 DEF Begin
    <3>2. PICK c \in {Call("violation", p), Call("authorize", p), NoCall,
                      [pc |-> "consume", permit |-> p, began |-> clock]} :
            call' = [call EXCEPT ![s] = c]
      BY <3>1 DEF Claimed
    <3>3. c.pc \in {"authorize", "violation", "idle", "consume"}
      BY <3>2 DEF Call, NoCall
    <3> QED
      BY <3>2, <3>3 DEF TypeOK, CallTypeOK
  <2>2. UNCHANGED <<evidence, ran, journal>>
    BY <1>1 DEF Begin, tables, world
  <2> QED
    BY <2>1, <2>2, ClaimsHaveNoRow
<1>2. ASSUME NEW s \in Slots, Continue(s) PROVE JournalInv'
  BY <1>2, ContinueTruthful
<1>3. ASSUME NEW g \in Gateways, Crash(g) PROVE JournalInv'
  <2>1. \A t \in Slots : call'[t] = call[t] \/ call'[t].pc = "idle"
    BY <1>3 DEF Crash, NoCall
  <2>2. UNCHANGED <<evidence, ran, journal>>
    BY <1>3 DEF Crash, tables, world
  <2> QED
    BY <2>1, <2>2, ClaimsHaveNoRow
<1>4. ASSUME NEW g \in Gateways, Boot(g) PROVE JournalInv'
  BY <1>4, RecoverTruthful, RowsUntouched
     DEF Boot, Restart, DeliverReceipt, Serve, tables, world
<1>5. CASE Cleanup \/ Tick
  BY <1>5, RowsUntouched DEF Cleanup, Tick, tables, world
<1>6. CASE UNCHANGED vars
  BY <1>6, RowsUntouched DEF vars
<1> QED
  BY <1>1, <1>2, <1>3, <1>4, <1>5, <1>6 DEF Next

(* With a journal the rows are truthful in every behaviour. *)
LEMMA JournalInvariant == Journaling => (Spec => []JournalInv)
<1> SUFFICES ASSUME Journaling PROVE Spec => []JournalInv
  OBVIOUS
<1>1. Init => JournalInv
  BY DEF Init, JournalInv, RowsFollowStages, RowFor, JournalTruthful, NoCall, AfterRefusal
<1>2. Protected
  BY DEF Protected
<1>3. TypeOK /\ TypeOK' /\ OnceInv /\ OnceInv' /\ EvidenceInv /\ EvidenceInv' /\ JournalInv
        /\ [Next]_vars => JournalInv'
  BY NextTruthful
<1> QED
  BY <1>1, <1>2, <1>3, TypeCorrect, OnceInvariant, EvidenceInvariant, PTL DEF Spec

(* v2_effect_journal: a committed effect happened and is on record, a failed
   one did not happen, and one that happened was announced by its row.       *)
THEOREM JournalsAreTruthful == Spec => []JournalTruthful
<1>1. CASE Journaling
  <2>1. JournalInv => JournalTruthful
    BY DEF JournalInv
  <2> QED
    BY <1>1, <2>1, JournalInvariant, PTL
<1>2. CASE ~Journaling
  <2>1. JournalTruthful
    BY <1>2 DEF JournalTruthful
  <2> QED
    BY <2>1, PTL
<1> QED
  BY <1>1, <1>2

-----------------------------------------------------------------------------
(* Verdicts and receipts *)

VerdictsStep ==
  \A p \in Permits : journal[p] \in Terminal =>
    journal'[p] = journal[p] /\ cause'[p] = cause[p]

(* describeRefusal: a terminal row admits only what it already says. *)
LEMMA TransitionFinal ==
  ASSUME TypeOK, NEW p \in Permits, NEW to, NEW error, NEW reply,
         Transition(p, to, error, reply)
  PROVE  VerdictsStep
<1> SUFFICES ASSUME NEW q \in Permits, journal[q] \in Terminal
             PROVE  journal'[q] = journal[q] /\ cause'[q] = cause[q]
  BY DEF VerdictsStep
<1>1. CASE UNCHANGED <<journal, cause>>
  BY <1>1
<1>2. CASE Admits(p, to, error) /\ WriteRow(p, to, error)
  <2>1. p = q => to = journal[q] /\ (error # NoError => error = cause[q])
    BY <1>2 DEF Admits, CanTransition, Unfinished, Terminal
  <2>2. /\ journal'[q] = IF q = p THEN to ELSE journal[q]
        /\ cause'[q] = IF q = p /\ error # NoError THEN error ELSE cause[q]
    BY <1>2 DEF WriteRow, TypeOK
  <2> QED
    BY <2>1, <2>2
<1> QED
  BY <1>1, <1>2 DEF Transition

(* No step of a call, of recovery or of the rest overturns a verdict. *)
LEMMA NextFinal ==
  ASSUME TypeOK, [Next]_vars
  PROVE  VerdictsStep
<1>1. ASSUME UNCHANGED <<journal, cause>> PROVE VerdictsStep
  BY <1>1 DEF VerdictsStep
<1>2. ASSUME NEW s \in Slots, Start(s) \/ Commit(s) \/ Fail(s) PROVE VerdictsStep
  <2>1. PICK p \in Permits : p = call[s].permit
    <3>1. ~Idle(s)
      BY <1>2 DEF Start, Commit, Fail, Idle
    <3> QED
      BY <3>1, BusyPermit
  <2>2. PICK to, error, reply : Transition(p, to, error, reply)
    BY <1>2, <2>1 DEF Start, Commit, Fail
  <2> QED
    BY <2>2, TransitionFinal
<1>3. ASSUME NEW s \in Slots, Prepare(s) PROVE VerdictsStep
  BY <1>3 DEF Prepare, VerdictsStep, Terminal, TypeOK
<1>4. ASSUME NEW s \in Slots,
             \/ Begin(s) \/ RecordViolation(s) \/ Consume(s) \/ RecordPermit(s)
             \/ ExecutorPerforms(s) \/ ExecutorAnswers(s) \/ RecordExecution(s)
             \/ RecordResult(s) \/ RecordFailure(s)
      PROVE  UNCHANGED <<journal, cause>>
  BY <1>4 DEF Begin, RecordViolation, Consume, RecordPermit, ExecutorPerforms,
     ExecutorAnswers, RecordExecution, RecordResult, RecordFailure, tables
<1>5. ASSUME NEW g \in Gateways, Recover(g) PROVE VerdictsStep
  <2>1. PICK e \in gw[g].todo, reply \in Replies : Transition(e[1], "uncertain", e[2], reply)
    BY <1>5 DEF Recover
  <2>2. e[1] \in Permits
    BY DEF TypeOK
  <2> QED
    BY <2>1, <2>2, TransitionFinal
<1>6. ASSUME NEW g \in Gateways, Crash(g) \/ Restart(g) \/ DeliverReceipt(g) \/ Serve(g)
      PROVE  UNCHANGED <<journal, cause>>
  BY <1>6 DEF Crash, Restart, DeliverReceipt, Serve, tables
<1>7. CASE Cleanup \/ Tick \/ UNCHANGED vars
  BY <1>1, <1>7 DEF Cleanup, Tick, tables, vars
<1> QED
  BY <1>1, <1>2, <1>3, <1>4, <1>5, <1>6, <1>7 DEF Next, Continue, Boot

(* effect-commit.ts, canRestateOutcome: whoever writes and however often, in
   whatever order, a row that is committed, failed or uncertain stays as it is. *)
THEOREM VerdictsAreFinal == Spec => VerdictsFinal
<1>1. TypeOK /\ [Next]_vars => [VerdictsStep]_vars
  BY NextFinal
<1> QED
  BY <1>1, TypeCorrect, PTL DEF Spec, VerdictsFinal, VerdictsStep

(* What a process has signed is resolved, with the state it was found in. *)
SignedRows ==
  \A g \in Gateways : \A p \in gw[g].signed :
    journal[p] = "uncertain" /\ cause[p] \in Unfinished

ReceiptInv == SignedRows /\ ReceiptsTruthful

(* Signing follows the row's resolution, and delivery follows signing. *)
LEMMA NextReceipts ==
  ASSUME TypeOK, TypeOK', ReceiptInv, [Next]_vars
  PROVE  ReceiptInv'
<1>1. \A p \in Permits : journal[p] = "uncertain" =>
        journal'[p] = "uncertain" /\ cause'[p] = cause[p]
  BY NextFinal DEF VerdictsStep, Terminal
<1>2. ASSUME UNCHANGED receipts PROVE ReceiptsTruthful'
  BY <1>1, <1>2 DEF ReceiptInv, ReceiptsTruthful
<1>3. ASSUME \A g \in Gateways : gw'[g].signed \subseteq gw[g].signed PROVE SignedRows'
  BY <1>1, <1>3 DEF ReceiptInv, SignedRows, TypeOK
<1>4. ASSUME UNCHANGED <<gw, receipts>> PROVE ReceiptInv'
  BY <1>2, <1>3, <1>4 DEF ReceiptInv
<1>5. ASSUME NEW s \in Slots, Begin(s) \/ Continue(s) PROVE UNCHANGED <<gw, receipts>>
  BY <1>5 DEF Begin, Continue, RecordViolation, Consume, RecordPermit, Prepare, Start,
     ExecutorPerforms, ExecutorAnswers, RecordExecution, Commit, RecordResult,
     RecordFailure, Fail, world
<1>6. ASSUME NEW g \in Gateways, Recover(g) PROVE ReceiptInv'
  <2>1. PICK e \in gw[g].todo, reply \in Replies :
          /\ Transition(e[1], "uncertain", e[2], reply)
          /\ gw' = [gw EXCEPT ![g] =
               IF reply = "unavailable"
                 THEN [mode |-> "down", todo |-> {}, signed |-> {}]
                 ELSE [mode |-> "recovering", todo |-> gw[g].todo \ {e},
                       signed |-> IF reply = "recorded" THEN {e[1]} ELSE {}]]
    BY <1>6 DEF Recover
  <2>2. PICK p \in Permits : p = e[1] /\ e[2] \in Unfinished
    BY DEF TypeOK
  <2>3. reply = "recorded" => journal'[p] = "uncertain" /\ cause'[p] = e[2]
    BY <2>1, <2>2 DEF Transition, WriteRow, Unfinished, NoError, TypeOK
  <2>4. \A h \in Gateways : h # g => gw'[h] = gw[h]
    BY <2>1 DEF TypeOK
  <2>5. gw'[g].signed = IF reply = "recorded" THEN {p} ELSE {}
    BY <2>1, <2>2 DEF TypeOK
  <2>6. SignedRows'
    BY <1>1, <2>2, <2>3, <2>4, <2>5 DEF ReceiptInv, SignedRows, TypeOK
  <2>7. UNCHANGED receipts
    BY <1>6 DEF Recover, world
  <2> QED
    BY <1>2, <2>6, <2>7 DEF ReceiptInv
<1>7. ASSUME NEW g \in Gateways, DeliverReceipt(g) PROVE ReceiptInv'
  <2>1. PICK p \in gw[g].signed : receipts' = [receipts EXCEPT ![p] = @ + 1] \/ UNCHANGED receipts
    BY <1>7 DEF DeliverReceipt
  <2>2. p \in Permits /\ journal[p] = "uncertain" /\ cause[p] \in Unfinished
    BY DEF ReceiptInv, SignedRows, TypeOK
  <2>3. ReceiptsTruthful'
    BY <1>1, <2>1, <2>2 DEF ReceiptInv, ReceiptsTruthful, TypeOK
  <2>4. \A h \in Gateways : gw'[h].signed \subseteq gw[h].signed
    BY <1>7 DEF DeliverReceipt, TypeOK
  <2> QED
    BY <1>3, <2>3, <2>4 DEF ReceiptInv
<1>8. ASSUME NEW g \in Gateways, Crash(g) \/ Restart(g) \/ Serve(g) PROVE ReceiptInv'
  <2>1. \A h \in Gateways : gw'[h].signed \subseteq gw[h].signed
    <3>1. \A h \in Gateways : h # g => gw'[h] = gw[h]
      BY <1>8 DEF Crash, Restart, Serve, TypeOK
    <3>2. CASE Crash(g) \/ Restart(g)
      <4>1. gw'[g].signed = {}
        BY <3>2 DEF Crash, Restart, TypeOK
      <4> QED
        BY <3>1, <4>1
    <3>3. CASE Serve(g)
      BY <3>1, <3>3 DEF Serve, TypeOK
    <3> QED
      BY <1>8, <3>2, <3>3
  <2>2. UNCHANGED receipts
    BY <1>8 DEF Crash, Restart, Serve, world
  <2> QED
    BY <1>2, <1>3, <2>1, <2>2 DEF ReceiptInv
<1>9. CASE Cleanup \/ Tick \/ UNCHANGED vars
  BY <1>4, <1>9 DEF Cleanup, Tick, world, vars
<1> QED
  BY <1>4, <1>5, <1>6, <1>7, <1>8, <1>9 DEF Next, Boot

(* What is signed, and what was delivered, is true in every behaviour. *)
LEMMA ReceiptInvariant == Spec => []ReceiptInv
<1>1. Init => ReceiptInv
  BY DEF Init, ReceiptInv, SignedRows, ReceiptsTruthful
<1>2. TypeOK /\ TypeOK' /\ ReceiptInv /\ [Next]_vars => ReceiptInv'
  BY NextReceipts
<1> QED
  BY <1>1, <1>2, TypeCorrect, PTL DEF Spec

(* effect-commit.ts, recoverUnfinished: however recoveries and live calls cross,
   a receipt speaks of a row that is uncertain, and stays so, and names the
   unfinished state it was found in. *)
THEOREM ReceiptsAreTruthful == Spec => []ReceiptsTruthful
<1>1. ReceiptInv => ReceiptsTruthful
  BY DEF ReceiptInv
<1> QED
  BY <1>1, ReceiptInvariant, PTL

-----------------------------------------------------------------------------
(* The gateway implements EffectOnce *)

Recorded    == {p \in Permits : <<"effect_permit", p>> \in evidence}
Says(state) == CASE state = "committed" -> "done"
                 [] state = "failed"    -> "notdone"
                 [] state = "uncertain" -> "unknown"
                 [] OTHER               -> "open"

(* A step that authorizes, performs and concludes nothing is a stutter. *)
LEMMA OnceStutters ==
  ASSUME UNCHANGED <<Recorded, ran>>,
         \A p \in Permits : Says(journal'[p]) = Says(journal[p])
  PROVE  UNCHANGED Once!vars
<1>1. [p \in Permits |-> Says(journal'[p])] = [p \in Permits |-> Says(journal[p])]
  OBVIOUS
<1> QED
  BY <1>1 DEF Once!vars, Recorded, Says

(* A transition of a row concludes its permit, or says no more than before. *)
LEMMA TransitionConcludes ==
  ASSUME TypeOK, NEW p \in Permits, NEW to \in {"executing", "committed", "failed", "uncertain"},
         NEW error, NEW reply, Transition(p, to, error, reply), UNCHANGED <<evidence, ran>>,
         to = "committed" => ran[p] = 1, to = "failed" => ran[p] = 0
  PROVE  [Once!Next]_(Once!vars)
<1>1. /\ \A q \in Permits : q # p => journal'[q] = journal[q]
      /\ \/ journal'[p] = journal[p]
         \/ journal'[p] = to /\ CanTransition(journal[p], to)
  BY TransitionMoves
<1>2. UNCHANGED Recorded
  BY DEF Recorded
<1>3. CASE Says(journal'[p]) = Says(journal[p])
  BY <1>1, <1>2, <1>3, OnceStutters
<1>4. CASE journal'[p] = to /\ to # "executing" /\ Says(journal[p]) = "open"
  <2>1. [q \in Permits |-> Says(journal'[q])]
          = [[q \in Permits |-> Says(journal[q])] EXCEPT ![p] = Says(to)]
    BY <1>1, <1>4
  <2>2. \/ ran[p] = 1 /\ Says(to) = "done"
        \/ ran[p] = 0 /\ Says(to) = "notdone"
        \/ Says(to) = "unknown"
    BY <1>4 DEF Says
  <2>3. Once!Conclude(p)
    BY <1>2, <1>4, <2>1, <2>2 DEF Once!Conclude, Recorded, Says
  <2> QED
    BY <2>3 DEF Once!Next
<1> QED
  BY <1>1, <1>3, <1>4 DEF CanTransition, LegalTransitions, Unfinished, Says

(* perform, step by step: each await's step is one of EffectOnce or a stutter. *)
LEMMA ContinueImplements ==
  ASSUME TypeOK, OnceInv, EvidenceInv, JournalInv, Journaling, NEW s \in Slots, Continue(s)
  PROVE  [Once!Next]_(Once!vars)
<1>1. PICK p \in Permits : p = call[s].permit
  <2>1. ~Idle(s)
    BY DEF Continue, RecordViolation, Consume, RecordPermit, Prepare, Start,
           ExecutorPerforms, ExecutorAnswers, RecordExecution, Commit,
           RecordResult, RecordFailure, Fail, Idle
  <2> QED
    BY <2>1, BusyPermit
<1>2. Backed(call[s].pc, p) /\ RowFor(call[s].pc, p)
  BY <1>1 DEF EvidenceInv, StagesRecorded, JournalInv, RowsFollowStages
<1>3. ran[p] \in Nat /\ ran[p] <= 1
  BY DEF TypeOK, OnceInv, RanMarked
<1>4. ASSUME UNCHANGED <<ran, journal, Recorded>> PROVE UNCHANGED Once!vars
  BY <1>4, OnceStutters
<1>5. ASSUME UNCHANGED <<ran, journal>>, NEW type \in EvidenceTypes \ {"effect_permit"}, NEW ok,
             Record(type, p, ok)
      PROVE  UNCHANGED Once!vars
  BY <1>4, <1>5 DEF Record, Recorded
<1>6. CASE RecordViolation(s) \/ RecordExecution(s) \/ RecordResult(s) \/ RecordFailure(s)
  <2>1. UNCHANGED <<ran, journal>>
    BY <1>6 DEF RecordViolation, RecordExecution, RecordResult, RecordFailure, world
  <2>2. PICK type \in EvidenceTypes \ {"effect_permit"}, ok \in BOOLEAN : Record(type, p, ok)
    BY <1>1, <1>6 DEF RecordViolation, RecordExecution, RecordResult, RecordFailure, EvidenceTypes
  <2> QED
    BY <1>5, <2>1, <2>2
<1>7. CASE Consume(s) \/ ExecutorAnswers(s)
  BY <1>4, <1>7 DEF Consume, ExecutorAnswers, tables, world, Recorded
<1>8. CASE RecordPermit(s)
  <2>1. UNCHANGED <<ran, journal>>
    BY <1>8 DEF RecordPermit, world
  <2>2. evidence' \in {evidence, evidence \cup {<<"effect_permit", p>>}}
    BY <1>1, <1>8 DEF RecordPermit, Record
  <2>3. CASE evidence' = evidence \/ p \in Recorded
    BY <1>4, <2>1, <2>2, <2>3 DEF Recorded
  <2>4. CASE evidence' = evidence \cup {<<"effect_permit", p>>} /\ p \notin Recorded
    <3>1. Recorded' = Recorded \cup {p}
      BY <2>4 DEF Recorded
    <3>2. Once!Authorize(p)
      BY <2>1, <2>4, <3>1 DEF Once!Authorize, Recorded
    <3> QED
      BY <3>2 DEF Once!Next
  <2> QED
    BY <2>2, <2>3, <2>4
<1>9. CASE Prepare(s)
  <2>1. UNCHANGED <<Recorded, ran>>
    BY <1>9 DEF Prepare, world, Recorded
  <2>2. \A q \in Permits : \/ journal'[q] = journal[q]
                           \/ journal[q] = "absent" /\ journal'[q] = "prepared"
    BY <1>1, <1>9 DEF Prepare, TypeOK
  <2>3. \A q \in Permits : Says(journal'[q]) = Says(journal[q])
    BY <2>2 DEF Says
  <2> QED
    BY <2>1, <2>3, OnceStutters
<1>10. CASE Start(s)
  <2>1. PICK reply : Transition(p, "executing", NoError, reply)
    BY <1>1, <1>10 DEF Start
  <2> QED
    BY <1>10, <2>1, TransitionConcludes DEF Start, world
<1>11. CASE ExecutorPerforms(s)
  <2>1. UNCHANGED <<evidence, journal>> /\ ran' = [ran EXCEPT ![p] = @ + 1]
    BY <1>1, <1>11 DEF ExecutorPerforms, tables
  <2>2. ran[p] = 0
    BY <1>1, <1>11 DEF ExecutorPerforms, OnceInv, OwnersFresh, Owning, Late, AfterConsume, AfterEffect
  <2>3. p \in Recorded
    BY <1>2, <1>11 DEF ExecutorPerforms, Backed, Late, AfterConsume, Recorded
  <2>4. Says(journal[p]) \in {"open", "unknown"}
    BY <1>2, <1>11 DEF ExecutorPerforms, RowFor, Says
  <2>5. Once!Perform(p)
    BY <2>1, <2>2, <2>3, <2>4 DEF Once!Perform, Recorded, Says
  <2> QED
    BY <2>5 DEF Once!Next
<1>12. CASE Commit(s)
  <2>1. PICK reply : Transition(p, "committed", NoError, reply)
    BY <1>1, <1>12 DEF Commit
  <2>2. ran[p] = 1
    BY <1>2, <1>3, <1>12 DEF Commit, Backed, AfterEffect
  <2> QED
    BY <1>12, <2>1, <2>2, TransitionConcludes DEF Commit, world
<1>13. CASE Fail(s)
  <2>1. PICK reply : Transition(p, "failed", "executor", reply)
    BY <1>1, <1>13 DEF Fail
  <2>2. ran[p] = 0
    BY <1>1, <1>13 DEF Fail, OnceInv, OwnersFresh, Owning, Late, AfterRefusal, AfterEffect
  <2> QED
    BY <1>13, <2>1, <2>2, TransitionConcludes DEF Fail, world
<1> QED
  BY <1>6, <1>7, <1>8, <1>9, <1>10, <1>11, <1>12, <1>13 DEF Continue

(* Every step of the gateway is a step of EffectOnce or a stutter. *)
LEMMA NextImplements ==
  ASSUME TypeOK, OnceInv, EvidenceInv, JournalInv, Journaling, [Next]_vars
  PROVE  [Once!Next]_(Once!vars)
<1>1. ASSUME UNCHANGED <<ran, journal, evidence>> PROVE UNCHANGED Once!vars
  BY <1>1, OnceStutters DEF Recorded
<1>2. ASSUME NEW s \in Slots, Begin(s) PROVE UNCHANGED Once!vars
  BY <1>1, <1>2 DEF Begin, tables, world
<1>3. ASSUME NEW s \in Slots, Continue(s) PROVE [Once!Next]_(Once!vars)
  BY <1>3, ContinueImplements
<1>4. ASSUME NEW g \in Gateways, Recover(g) PROVE [Once!Next]_(Once!vars)
  <2>1. PICK e \in gw[g].todo, reply \in Replies :
          Transition(e[1], "uncertain", e[2], reply)
    BY <1>4 DEF Recover
  <2>2. e[1] \in Permits
    BY DEF TypeOK
  <2> QED
    BY <1>4, <2>1, <2>2, TransitionConcludes DEF Recover, world
<1>5. ASSUME NEW g \in Gateways, Crash(g) \/ Restart(g) \/ DeliverReceipt(g) \/ Serve(g)
      PROVE  UNCHANGED Once!vars
  BY <1>1, <1>5 DEF Crash, Restart, DeliverReceipt, Serve, tables, world
<1>6. CASE Cleanup \/ Tick \/ UNCHANGED vars
  BY <1>1, <1>6 DEF Cleanup, Tick, tables, world, vars
<1> QED
  BY <1>2, <1>3, <1>4, <1>5, <1>6 DEF Next, Boot

(* With a journal the gateway implements EffectOnce, whatever the number of
   processes, calls and permits: an effect happens at most once, after its
   authorization is on record, and never after a verdict that rules it out. *)
THEOREM GatewayImplementsEffectOnce == Journaling => (Spec => ImplementsEffectOnce)
<1> SUFFICES ASSUME Journaling PROVE Spec => ImplementsEffectOnce
  OBVIOUS
<1>1. Init => Once!Init
  BY DEF Init, Once!Init
<1>2. TypeOK /\ OnceInv /\ EvidenceInv /\ JournalInv /\ [Next]_vars => [Once!Next]_(Once!vars)
  BY NextImplements
<1>3. Protected
  BY DEF Protected
<1> QED
  BY <1>1, <1>2, <1>3, TypeCorrect, OnceInvariant, EvidenceInvariant, JournalInvariant, PTL
     DEF Spec, ImplementsEffectOnce, Once!Spec

-----------------------------------------------------------------------------
(* One process: recovery comes first *)

OneProcess == \A g, h \in Gateways : g = h

(* A process has calls only while it is up, and recovers only while it boots. *)
ServingIsUp == \A s \in Slots : ~Idle(s) => gw[HomeOf[s]].mode = "up"
RecoveryIsBooting ==
  \A g \in Gateways : gw[g].mode # "recovering" => gw[g].todo = {} /\ gw[g].signed = {}
ModeInv == ServingIsUp /\ RecoveryIsBooting

(* Recovery works on rows as they are, and signs each once. *)
TodoIsOpen  == \A g \in Gateways : \A e \in gw[g].todo : journal[e[1]] = e[2]
Unreceipted == \A g \in Gateways : \A p \in gw[g].signed : receipts[p] = 0

(* Unless the database fails, recovery has every unfinished row on its list. *)
NoneMissed ==
  Journaling /\ MaxOutages = 0 =>
    \A g \in Gateways : gw[g].mode = "recovering" =>
      \A p \in Permits : journal[p] \in Unfinished => <<p, journal[p]>> \in gw[g].todo

(* Nobody takes a row from a call on its way to the executor. *)
RowOpen(pc, p) ==
  /\ pc = "start" => journal[p] = "prepared"
  /\ pc = "execute" => journal[p] = "executing"
RowsAreOpen == Journaling => \A s \in Slots : RowOpen(call[s].pc, call[s].permit)

SoloInv == TodoIsOpen /\ Unreceipted /\ NoneMissed /\ RowsAreOpen

(* Only serving admits calls, and a crash takes the calls of its process. *)
LEMMA NextMode ==
  ASSUME TypeOK, ModeInv, [Next]_vars
  PROVE  ModeInv'
<1>1. ASSUME NEW s \in Slots, Begin(s) \/ Continue(s) PROVE ModeInv'
  <2>1. gw[HomeOf[s]].mode = "up"
    BY <1>1 DEF ModeInv, ServingIsUp, Begin, Continue, RecordViolation, Consume, RecordPermit,
       Prepare, Start, ExecutorPerforms, ExecutorAnswers, RecordExecution, Commit,
       RecordResult, RecordFailure, Fail, Idle
  <2>2. \A t \in Slots : t # s => call'[t] = call[t]
    <3>1. (\E c : call' = [call EXCEPT ![s] = c]) \/ \E pc : Goto(s, pc)
      BY <1>1 DEF Begin, Continue, Claimed, Return, RecordViolation, Consume, RecordPermit,
         Prepare, Start, ExecutorPerforms, ExecutorAnswers, RecordExecution, Commit,
         RecordResult, RecordFailure, Fail
    <3> QED
      BY <3>1 DEF Goto, TypeOK, CallTypeOK
  <2>3. gw' = gw
    BY <1>1 DEF Begin, Continue, RecordViolation, Consume, RecordPermit, Prepare, Start,
       ExecutorPerforms, ExecutorAnswers, RecordExecution, Commit, RecordResult,
       RecordFailure, Fail
  <2> QED
    BY <2>1, <2>2, <2>3 DEF ModeInv, ServingIsUp, RecoveryIsBooting, Idle
<1>2. ASSUME NEW g \in Gateways, Crash(g) PROVE ModeInv'
  <2>1. gw' = [gw EXCEPT ![g] = [mode |-> "down", todo |-> {}, signed |-> {}]]
    BY <1>2 DEF Crash
  <2>2. \A t \in Slots : call'[t] = IF HomeOf[t] = g THEN NoCall ELSE call[t]
    BY <1>2 DEF Crash
  <2>3. ServingIsUp'
    BY <2>1, <2>2, ConstantsAssumption DEF ModeInv, ServingIsUp, Idle, NoCall, TypeOK
  <2>4. RecoveryIsBooting'
    BY <2>1 DEF ModeInv, RecoveryIsBooting, TypeOK
  <2> QED
    BY <2>3, <2>4 DEF ModeInv
<1>3. ASSUME NEW g \in Gateways, Boot(g) PROVE ModeInv'
  <2>1. call' = call /\ gw[g].mode # "up"
    BY <1>3 DEF Boot, Restart, Recover, DeliverReceipt, Serve
  <2>2. \A h \in Gateways : h # g => gw'[h] = gw[h]
    BY <1>3 DEF Boot, Restart, Recover, DeliverReceipt, Serve, TypeOK
  <2>3. ServingIsUp'
    BY <2>1, <2>2, ConstantsAssumption DEF ModeInv, ServingIsUp, Idle
  <2>4. gw'[g].mode # "recovering" => gw'[g].todo = {} /\ gw'[g].signed = {}
    <3>1. CASE Restart(g)
      BY <3>1 DEF Restart, TypeOK
    <3>2. CASE Recover(g)
      BY <3>2 DEF Recover, TypeOK
    <3>3. CASE DeliverReceipt(g)
      BY <3>3 DEF DeliverReceipt, TypeOK
    <3>4. CASE Serve(g)
      BY <3>4 DEF Serve, TypeOK
    <3> QED
      BY <1>3, <3>1, <3>2, <3>3, <3>4 DEF Boot
  <2>5. RecoveryIsBooting'
    BY <2>2, <2>4 DEF ModeInv, RecoveryIsBooting
  <2> QED
    BY <2>3, <2>5 DEF ModeInv
<1>4. CASE Cleanup \/ Tick \/ UNCHANGED vars
  BY <1>4 DEF Cleanup, Tick, vars, ModeInv, ServingIsUp, RecoveryIsBooting, Idle
<1> QED
  BY <1>1, <1>2, <1>3, <1>4 DEF Next

(* A call of the only process: nothing is being recovered, and the rows of the
   other calls stay as they are. *)
LEMMA ContinueSolo ==
  ASSUME TypeOK, Journaling => OnceInv, ModeInv, SoloInv, OneProcess, NEW s \in Slots, Continue(s)
  PROVE  SoloInv'
<1>1. PICK p \in Permits : p = call[s].permit
  <2>1. ~Idle(s)
    BY DEF Continue, RecordViolation, Consume, RecordPermit, Prepare, Start,
           ExecutorPerforms, ExecutorAnswers, RecordExecution, Commit,
           RecordResult, RecordFailure, Fail, Idle
  <2> QED
    BY <2>1, BusyPermit
<1>2. gw' = gw /\ gw[HomeOf[s]].mode = "up"
  BY DEF ModeInv, ServingIsUp, Continue, RecordViolation, Consume, RecordPermit,
     Prepare, Start, ExecutorPerforms, ExecutorAnswers, RecordExecution, Commit,
     RecordResult, RecordFailure, Fail, Idle
<1>3. \A g \in Gateways : gw'[g].mode = "up" /\ gw'[g].todo = {} /\ gw'[g].signed = {}
  BY <1>2, ConstantsAssumption DEF OneProcess, ModeInv, RecoveryIsBooting
<1>4. TodoIsOpen' /\ Unreceipted' /\ NoneMissed'
  BY <1>3 DEF TodoIsOpen, Unreceipted, NoneMissed
<1>5. ASSUME Journaling PROVE RowsAreOpen'
  <2>1. ASSUME \A q \in Permits : q # p => journal'[q] = journal[q],
               \A t \in Slots : t # s => call'[t] = call[t],
               call[s].pc \in Owning \/ UNCHANGED journal,
               RowOpen(call[s].pc, call[s].permit)'
        PROVE  RowsAreOpen'
    <3>1. ASSUME NEW t \in Slots, t # s PROVE RowOpen(call[t].pc, call[t].permit)'
      <4>1. call[t].pc \in {"start", "execute"} =>
              /\ call[t].pc \in Owning /\ call[t].permit \in Permits
              /\ call[s].pc \in Owning => call[t].permit # p
        BY <1>1, <1>5, <3>1 DEF OnceInv, OneOwner, Owning, Late, AfterConsume, TypeOK, CallTypeOK, Idle
      <4> QED
        BY <1>5, <2>1, <3>1, <4>1 DEF SoloInv, RowsAreOpen, RowOpen
    <3> QED
      BY <2>1, <3>1 DEF RowsAreOpen
  <2>2. ASSUME UNCHANGED journal, NEW pc, Goto(s, pc) \/ Return(s), pc \notin {"start", "execute"}
        PROVE  RowsAreOpen'
    BY <2>1, <2>2, OneCallMoves DEF RowOpen, NoCall
  <2>3. CASE \/ RecordViolation(s) \/ RecordPermit(s) \/ ExecutorPerforms(s) \/ ExecutorAnswers(s)
             \/ RecordExecution(s) \/ RecordResult(s) \/ RecordFailure(s)
    <3>1. UNCHANGED journal
      BY <2>3 DEF RecordViolation, RecordPermit, ExecutorPerforms, ExecutorAnswers,
         RecordExecution, RecordResult, RecordFailure, tables
    <3>2. PICK pc : pc \notin {"start", "execute"} /\ (Goto(s, pc) \/ Return(s))
      BY <1>5, <2>3 DEF RecordViolation, RecordPermit, ExecutorPerforms, ExecutorAnswers,
         RecordExecution, RecordResult, RecordFailure
    <3> QED
      BY <2>2, <3>1, <3>2
  <2>4. CASE Consume(s)
    <3>1. PICK c \in {Call("violation", p), Call("authorize", p), NoCall} :
            call' = [call EXCEPT ![s] = c]
      BY <1>1, <2>4 DEF Consume, Claimed
    <3>2. c.pc \notin {"start", "execute"}
      BY <3>1 DEF Call, NoCall
    <3>3. call'[s].pc \notin {"start", "execute"} /\ \A t \in Slots : t # s => call'[t] = call[t]
      BY <3>1, <3>2 DEF TypeOK, CallTypeOK
    <3> QED
      BY <2>1, <2>4, <3>3 DEF Consume, RowOpen
  <2>5. CASE Prepare(s)
    <3>1. CASE UNCHANGED journal /\ Return(s)
      <4>1. "idle" \notin {"start", "execute"}
        OBVIOUS
      <4> QED
        BY <2>2, <3>1, <4>1
    <3>2. CASE /\ journal[p] = "absent" /\ journal' = [journal EXCEPT ![p] = "prepared"]
               /\ Goto(s, "start") \/ Return(s)
      <4>1. journal'[p] = "prepared" /\ \A q \in Permits : q # p => journal'[q] = journal[q]
        BY <3>2 DEF TypeOK
      <4>2. /\ \A t \in Slots : t # s => call'[t] = call[t]
            /\ \/ call'[s] = NoCall
               \/ call'[s].pc = "start" /\ call'[s].permit = p
        BY <1>1, <3>2, OneCallMoves
      <4>3. RowOpen(call[s].pc, call[s].permit)'
        BY <4>1, <4>2 DEF RowOpen, NoCall
      <4>4. ASSUME NEW t \in Slots, t # s PROVE RowOpen(call[t].pc, call[t].permit)'
        <5>1. call[t].pc \in {"start", "execute"} => call[t].permit \in Permits /\ call[t].permit # p
          BY <1>5, <3>2 DEF SoloInv, RowsAreOpen, RowOpen, TypeOK, CallTypeOK, Idle
        <5> QED
          BY <1>5, <4>1, <4>2, <4>4, <5>1 DEF SoloInv, RowsAreOpen, RowOpen
      <4> QED
        BY <4>3, <4>4 DEF RowsAreOpen
    <3> QED
      BY <1>1, <2>5, <3>1, <3>2 DEF Prepare
  <2>6. CASE Start(s)
    <3>1. PICK reply \in Replies : /\ Transition(p, "executing", NoError, reply)
                                   /\ IF reply = "recorded" THEN Goto(s, "execute") ELSE Return(s)
      BY <1>1, <2>6 DEF Start
    <3>2. /\ \A q \in Permits : q # p => journal'[q] = journal[q]
          /\ reply = "recorded" => journal'[p] = "executing"
      BY <3>1, TransitionMoves
    <3>3. /\ \A t \in Slots : t # s => call'[t] = call[t]
          /\ \/ call'[s] = NoCall
             \/ reply = "recorded" /\ call'[s].pc = "execute" /\ call'[s].permit = p
      BY <1>1, <3>1 DEF Goto, Return, TypeOK, CallTypeOK
    <3>4. RowOpen(call[s].pc, call[s].permit)'
      BY <3>2, <3>3 DEF RowOpen, NoCall
    <3>5. call[s].pc \in Owning
      BY <2>6 DEF Start, Owning, Late, AfterConsume
    <3> QED
      BY <2>1, <3>2, <3>3, <3>4, <3>5
  <2>7. CASE Commit(s) \/ Fail(s)
    <3>1. PICK to, error, reply : Transition(p, to, error, reply)
      BY <1>1, <2>7 DEF Commit, Fail
    <3>2. Goto(s, "result") \/ Return(s)
      BY <2>7 DEF Commit, Fail
    <3>3. RowOpen(call[s].pc, call[s].permit)'
      BY <3>2, OneCallMoves DEF RowOpen, NoCall
    <3>4. call[s].pc \in Owning
      BY <2>7 DEF Commit, Fail, Owning, Late, AfterEffect, AfterRefusal
    <3> QED
      BY <2>1, <3>1, <3>2, <3>3, <3>4, TransitionMoves, OneCallMoves
  <2> QED
    BY <2>3, <2>4, <2>5, <2>6, <2>7 DEF Continue
<1>6. RowsAreOpen'
  BY <1>5 DEF RowsAreOpen
<1> QED
  BY <1>4, <1>6 DEF SoloInv

(* Start-up of the only process: no call runs, so every row stays as listed
   until recovery itself closes it. *)
LEMMA BootSolo ==
  ASSUME TypeOK, ModeInv, SoloInv, ReceiptInv, OneProcess, NEW g \in Gateways, Boot(g)
  PROVE  SoloInv'
<1>1. \A h \in Gateways : h = g
  BY DEF OneProcess
<1>2. RowsAreOpen'
  <2>1. call' = call /\ gw[g].mode # "up"
    BY DEF Boot, Restart, Recover, DeliverReceipt, Serve
  <2>2. \A s \in Slots : call[s].pc = "idle"
    BY <1>1, <2>1, ConstantsAssumption DEF ModeInv, ServingIsUp, Idle
  <2> QED
    BY <2>1, <2>2 DEF RowsAreOpen, RowOpen
<1>3. MaxOutages = 0 => ~Outage
  BY DEF Outage, TypeOK
<1>4. CASE Restart(g)
  <2>1. PICK rows : /\ gw' = [gw EXCEPT ![g] = [mode |-> "recovering", signed |-> {}, todo |-> rows]]
                    /\ rows \in {{}, UnfinishedRows}
                    /\ Journaling /\ MaxOutages = 0 => rows = UnfinishedRows
    BY <1>3, <1>4 DEF Restart
  <2>2. gw'[g].todo = rows /\ gw'[g].signed = {}
    BY <2>1 DEF TypeOK
  <2>3. UNCHANGED <<journal, receipts>>
    BY <1>4 DEF Restart, tables, world
  <2> QED
    BY <1>1, <1>2, <2>1, <2>2, <2>3
       DEF SoloInv, TodoIsOpen, Unreceipted, NoneMissed, UnfinishedRows
<1>5. CASE Recover(g)
  <2>1. PICK e \in gw[g].todo, reply \in Replies :
          /\ Transition(e[1], "uncertain", e[2], reply)
          /\ gw' = [gw EXCEPT ![g] =
               IF reply = "unavailable"
                 THEN [mode |-> "down", todo |-> {}, signed |-> {}]
                 ELSE [mode |-> "recovering", todo |-> gw[g].todo \ {e},
                       signed |-> IF reply = "recorded" THEN {e[1]} ELSE {}]]
    BY <1>5 DEF Recover
  <2>2. gw[g].todo \subseteq Permits \X Unfinished
    BY DEF TypeOK
  <2>3. PICK p \in Permits : p = e[1] /\ journal[p] = e[2] /\ e[2] \in Unfinished /\ e = <<p, e[2]>>
    BY <2>2 DEF SoloInv, TodoIsOpen
  <2>4. gw'[g] = IF reply = "unavailable"
                   THEN [mode |-> "down", todo |-> {}, signed |-> {}]
                   ELSE [mode |-> "recovering", todo |-> gw[g].todo \ {e},
                         signed |-> IF reply = "recorded" THEN {p} ELSE {}]
    BY <2>1, <2>3 DEF TypeOK
  <2>5. /\ \A q \in Permits : q # p => journal'[q] = journal[q]
        /\ reply = "recorded" => journal'[p] = "uncertain"
    BY <2>1, <2>3, TransitionMoves
  <2>6. TodoIsOpen'
    <3>1. \A f \in gw'[g].todo : f \in gw[g].todo /\ f # e
      BY <2>4
    <3>2. ASSUME NEW f \in gw'[g].todo PROVE journal'[f[1]] = f[2]
      <4>1. f[1] \in Permits /\ f = <<f[1], f[2]>> /\ journal[f[1]] = f[2] /\ f # e
        BY <2>2, <3>1 DEF SoloInv, TodoIsOpen
      <4> QED
        BY <2>3, <2>5, <4>1
    <3> QED
      BY <1>1, <3>2 DEF TodoIsOpen
  <2>7. Unreceipted'
    <3>1. receipts[p] = 0
      BY <2>3 DEF ReceiptInv, ReceiptsTruthful, Unfinished, TypeOK
    <3> QED
      BY <1>1, <1>5, <2>4, <3>1 DEF Unreceipted, Recover, world
  <2>8. NoneMissed'
    <3> SUFFICES ASSUME Journaling, MaxOutages = 0, NEW q \in Permits, journal'[q] \in Unfinished
                 PROVE  <<q, journal'[q]>> \in gw'[g].todo
      BY <1>1 DEF NoneMissed
    <3>1. Admits(p, "uncertain", e[2])
      BY <2>3 DEF Admits, CanTransition, LegalTransitions, Unfinished, Terminal
    <3>2. reply = "recorded"
      BY <1>3, <2>1, <2>3, <3>1 DEF Transition
    <3>3. q # p /\ journal'[q] = journal[q]
      BY <2>5, <3>2 DEF Unfinished
    <3>4. <<q, journal[q]>> \in gw[g].todo
      BY <1>5, <3>3 DEF SoloInv, NoneMissed, Recover
    <3> QED
      BY <2>3, <2>4, <3>2, <3>3, <3>4
  <2> QED
    BY <1>2, <2>6, <2>7, <2>8 DEF SoloInv
<1>6. CASE DeliverReceipt(g)
  <2>1. /\ gw'[g].signed = {}
        /\ \/ gw'[g].todo = gw[g].todo /\ gw[g].mode = "recovering"
           \/ gw'[g].todo = {} /\ gw'[g].mode = "down"
    BY <1>6 DEF DeliverReceipt, TypeOK
  <2>2. UNCHANGED journal
    BY <1>6 DEF DeliverReceipt, tables
  <2> QED
    BY <1>1, <1>2, <2>1, <2>2 DEF SoloInv, TodoIsOpen, Unreceipted, NoneMissed
<1>7. CASE Serve(g)
  <2>1. gw'[g].mode = "up" /\ gw'[g].todo = {} /\ gw'[g].signed = {}
    BY <1>7 DEF Serve, TypeOK
  <2> QED
    BY <1>1, <1>2, <2>1 DEF SoloInv, TodoIsOpen, Unreceipted, NoneMissed
<1> QED
  BY <1>4, <1>5, <1>6, <1>7 DEF Boot

(* Every step of a deployment with one process keeps recovery ahead of calls. *)
LEMMA NextSolo ==
  ASSUME TypeOK, Journaling => OnceInv, ModeInv, SoloInv, ReceiptInv, OneProcess, [Next]_vars
  PROVE  SoloInv'
<1>1. ASSUME UNCHANGED <<gw, journal, receipts>>,
             \A s \in Slots : call'[s] = call[s] \/ call'[s].pc \notin {"start", "execute"}
      PROVE  SoloInv'
  BY <1>1 DEF SoloInv, TodoIsOpen, Unreceipted, NoneMissed, RowsAreOpen, RowOpen
<1>2. ASSUME NEW s \in Slots, Begin(s) PROVE SoloInv'
  <2>1. PICK p \in Permits :
          \/ call' = [call EXCEPT ![s] = Call("violation", p)]
          \/ call' = [call EXCEPT ![s] = [pc |-> "consume", permit |-> p, began |-> clock]]
          \/ Claimed(s, p)
    BY <1>2 DEF Begin
  <2>2. PICK c \in {Call("violation", p), Call("authorize", p), NoCall,
                    [pc |-> "consume", permit |-> p, began |-> clock]} :
          call' = [call EXCEPT ![s] = c]
    BY <2>1 DEF Claimed
  <2>3. c.pc \notin {"start", "execute"}
    BY <2>2 DEF Call, NoCall
  <2>4. \A t \in Slots : call'[t] = call[t] \/ call'[t].pc \notin {"start", "execute"}
    BY <2>2, <2>3 DEF TypeOK, CallTypeOK
  <2> QED
    BY <1>1, <1>2, <2>4 DEF Begin, tables, world
<1>3. ASSUME NEW s \in Slots, Continue(s) PROVE SoloInv'
  BY <1>3, ContinueSolo
<1>4. ASSUME NEW g \in Gateways, Crash(g) PROVE SoloInv'
  <2>1. UNCHANGED <<journal, receipts>>
    BY <1>4 DEF Crash, tables, world
  <2>2. \A h \in Gateways : gw'[h] = [mode |-> "down", todo |-> {}, signed |-> {}]
    BY <1>4 DEF Crash, OneProcess, TypeOK
  <2>3. RowsAreOpen'
    BY <1>4, <2>1 DEF Crash, SoloInv, RowsAreOpen, RowOpen, NoCall
  <2> QED
    BY <2>2, <2>3 DEF SoloInv, TodoIsOpen, Unreceipted, NoneMissed
<1>5. ASSUME NEW g \in Gateways, Boot(g) PROVE SoloInv'
  BY <1>5, BootSolo
<1>6. CASE Cleanup \/ Tick \/ UNCHANGED vars
  BY <1>1, <1>6 DEF Cleanup, Tick, tables, world, vars
<1> QED
  BY <1>2, <1>3, <1>4, <1>5, <1>6 DEF Next

(* What the modes say holds in every behaviour. *)
LEMMA ModeInvariant == Spec => []ModeInv
<1>1. Init => ModeInv
  BY DEF Init, ModeInv, ServingIsUp, RecoveryIsBooting, Idle, NoCall
<1>2. TypeOK /\ ModeInv /\ [Next]_vars => ModeInv'
  BY NextMode
<1> QED
  BY <1>1, <1>2, TypeCorrect, PTL DEF Spec

(* One process, with or without a journal. *)
LEMMA SoloInvariant == OneProcess => (Spec => []SoloInv)
<1> SUFFICES ASSUME OneProcess PROVE Spec => []SoloInv
  OBVIOUS
<1>1. Init => SoloInv
  BY DEF Init, SoloInv, TodoIsOpen, Unreceipted, NoneMissed, RowsAreOpen, RowOpen, NoCall
<1>2. TypeOK /\ (Journaling => OnceInv) /\ ModeInv /\ SoloInv /\ ReceiptInv /\ [Next]_vars => SoloInv'
  BY NextSolo
<1>3. CASE Journaling
  <2>1. Protected
    BY <1>3 DEF Protected
  <2>2. OnceInv => (Journaling => OnceInv)
    OBVIOUS
  <2> QED
    BY <1>1, <1>2, <2>1, <2>2, TypeCorrect, OnceInvariant, ModeInvariant, ReceiptInvariant, PTL DEF Spec
<1>4. CASE ~Journaling
  <2>1. Journaling => OnceInv
    BY <1>4
  <2> QED
    BY <1>1, <1>2, <2>1, TypeCorrect, ModeInvariant, ReceiptInvariant, PTL DEF Spec
<1> QED
  BY <1>3, <1>4

(* With one process a call reaches its executor only while its row says
   executing: recovery, which could close the row, is over by then. *)
THEOREM EffectsOnlyWhileOpen ==
  OneProcess /\ Journaling => (Spec => EffectsWhileOpen)
<1> SUFFICES ASSUME OneProcess, Journaling PROVE Spec => EffectsWhileOpen
  OBVIOUS
<1>1. TypeOK /\ SoloInv /\ [Next]_vars => [EffectsStep]_vars
  <2> SUFFICES ASSUME TypeOK, SoloInv, Next PROVE EffectsStep
    BY DEF EffectsStep, vars
  <2>1. ASSUME NEW s \in Slots, ExecutorPerforms(s) PROVE EffectsStep
    BY <2>1 DEF ExecutorPerforms, EffectsStep, SoloInv, RowsAreOpen, RowOpen, TypeOK
  <2>2. CASE ran' = ran
    BY <2>2 DEF EffectsStep
  <2> QED
    BY <2>1, <2>2 DEF Next, Begin, Continue, RecordViolation, Consume, RecordPermit, Prepare,
       Start, ExecutorAnswers, RecordExecution, Commit, RecordResult, RecordFailure, Fail,
       Crash, Boot, Restart, Recover, DeliverReceipt, Serve, Cleanup, Tick, world
<1> QED
  BY <1>1, TypeCorrect, SoloInvariant, PTL DEF Spec, EffectsWhileOpen

(* With one process, a row gets at most one receipt, however often the process
   dies during its recovery and whatever the database does. *)
THEOREM OneProcessSignsOnce ==
  OneProcess => (Spec => []OneReceipt)
<1> SUFFICES ASSUME OneProcess PROVE Spec => []OneReceipt
  OBVIOUS
<1>1. Init => OneReceipt
  BY DEF Init, OneReceipt
<1>2. TypeOK /\ SoloInv /\ OneReceipt /\ [Next]_vars => OneReceipt'
  <2> SUFFICES ASSUME TypeOK, SoloInv, OneReceipt, [Next]_vars PROVE OneReceipt'
    OBVIOUS
  <2>1. ASSUME NEW g \in Gateways, DeliverReceipt(g) PROVE OneReceipt'
    <3>1. PICK p \in gw[g].signed : receipts' = [receipts EXCEPT ![p] = @ + 1] \/ UNCHANGED receipts
      BY <2>1 DEF DeliverReceipt
    <3>2. receipts[p] = 0
      BY DEF SoloInv, Unreceipted
    <3> QED
      BY <3>1, <3>2 DEF OneReceipt, TypeOK
  <2>2. CASE receipts' = receipts
    BY <2>2 DEF OneReceipt
  <2> QED
    BY <2>1, <2>2 DEF Next, Begin, Continue, RecordViolation, Consume, RecordPermit, Prepare,
       Start, ExecutorPerforms, ExecutorAnswers, RecordExecution, Commit, RecordResult,
       RecordFailure, Fail, Crash, Boot, Restart, Recover, Serve, Cleanup, Tick, world, vars
<1> QED
  BY <1>1, <1>2, TypeCorrect, SoloInvariant, PTL DEF Spec

(* With one process and a database that answers, a gateway that begins to serve
   has left no row prepared or executing.  A database that fails once is enough
   to break this: unfinished() then reports an empty journal. *)
THEOREM OneProcessRecoversFirst ==
  OneProcess /\ Journaling /\ MaxOutages = 0 => (Spec => ServesRecovered)
<1> SUFFICES ASSUME OneProcess, Journaling, MaxOutages = 0 PROVE Spec => ServesRecovered
  OBVIOUS
<1>1. TypeOK /\ SoloInv /\ [Next]_vars => [ServesStep]_vars
  <2> SUFFICES ASSUME TypeOK, SoloInv, Next, NEW g \in Gateways,
                      gw[g].mode = "recovering", gw'[g].mode = "up",
                      NEW p \in Permits, journal[p] \in Unfinished
               PROVE  FALSE
    BY DEF ServesStep, vars
  <2>1. <<p, journal[p]>> \in gw[g].todo
    BY DEF SoloInv, NoneMissed
  <2>2. gw' # gw
    OBVIOUS
  <2>3. PICK h \in Gateways : Crash(h) \/ Boot(h)
    BY <2>2 DEF Next, Begin, Continue, RecordViolation, Consume, RecordPermit, Prepare, Start,
       ExecutorPerforms, ExecutorAnswers, RecordExecution, Commit, RecordResult,
       RecordFailure, Fail, Cleanup, Tick
  <2>4. h = g
    BY DEF OneProcess
  <2>5. Serve(g)
    BY <2>3, <2>4 DEF Crash, Boot, Restart, Recover, DeliverReceipt, TypeOK
  <2> QED
    BY <2>1, <2>5 DEF Serve
<1> QED
  BY <1>1, TypeCorrect, SoloInvariant, PTL DEF Spec, ServesRecovered

=============================================================================
