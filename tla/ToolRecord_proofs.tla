-------------------------- MODULE ToolRecord_proofs --------------------------
(***************************************************************************)
(* Proofs about ToolRecord, for any number of calls, connections and       *)
(* executors, any number of events and any number of failures.             *)
(***************************************************************************)
EXTENDS ToolRecord, SequenceTheorems, TLAPS

USE ConstantsAssumption

-----------------------------------------------------------------------------
(* Types *)

(* A well-formed transaction, as TxTypeOK has it. *)
GoodTx(r) ==
    /\ r \in TxRecord
    /\ r.kind = "none" => r = NoTx
    /\ r.kind # "none" => r.call \in Calls
    /\ r.kind = "save" => r.says \in Verdicts
    /\ r.kind = "result" => r.says \in Results

LEMMA TxGood == TxTypeOK <=> /\ tx \in [Txs -> TxRecord]
                             /\ \A t \in Txs : GoodTx(tx[t])
BY DEF TxTypeOK, GoodTx

LEMMA SetTx ==
    ASSUME TxTypeOK, NEW t \in Txs, NEW r, GoodTx(r), tx' = [tx EXCEPT ![t] = r]
    PROVE  TxTypeOK'
<1>1. r \in TxRecord
  BY DEF GoodTx
<1>2. tx' \in [Txs -> TxRecord]
  BY <1>1 DEF TxTypeOK
<1>3. ASSUME NEW u \in Txs PROVE GoodTx(tx'[u])
  BY TxGood
<1> QED BY <1>2, <1>3 DEF TxTypeOK, GoodTx

LEMMA NoTxGood == GoodTx(NoTx)
<1>1. <<>> \in Seq(Bodies)
  OBVIOUS
<1> QED BY <1>1 DEF GoodTx, NoTx, TxRecord, Heads, Genesis

LEMMA ForwardTypes ==
    ASSUME TxTypeOK, NEW t \in Txs, tx[t].at # 5, tx[t].kind # "none", Forward(t)
    PROVE  TxTypeOK'
<1> DEFINE r == [tx[t] EXCEPT !.at = @ + 1]
<1>1. tx[t] \in TxRecord
  BY DEF TxTypeOK
<1>2. tx[t].at \in 1..5 /\ tx[t].at + 1 \in 1..5
  BY <1>1 DEF TxRecord
<1>3. r \in TxRecord /\ r.kind = tx[t].kind /\ r.call = tx[t].call /\ r.says = tx[t].says
  BY <1>1, <1>2 DEF TxRecord
<1>4. GoodTx(r)
  BY <1>3 DEF GoodTx, TxTypeOK
<1>5. tx' = [tx EXCEPT ![t] = r]
  BY DEF Forward
<1> QED BY <1>4, <1>5, SetTx

LEMMA RollbackTypes ==
    ASSUME TxTypeOK, NEW t \in Txs, Rollback(t)
    PROVE  TxTypeOK'
BY NoTxGood, SetTx DEF Rollback

(* A transaction that is past a row has something to do with it. *)
LEMMA Busy ==
    ASSUME TxTypeOK, NEW t \in Txs, tx[t].at # 1 \/ tx[t].kind # "none"
    PROVE  /\ tx[t].kind \in {"save", "result"} /\ tx[t].call \in Calls
           /\ tx[t].kind = "save" => tx[t].says \in Verdicts
           /\ tx[t].kind = "result" => tx[t].says \in Results
           /\ tx[t] \in TxRecord
BY DEF TxTypeOK, TxRecord, NoTx

LEMMA BodyType ==
    ASSUME TxTypeOK, NEW t \in Txs, tx[t].kind # "none"
    PROVE  /\ <<tx[t].call, tx[t].says>> \in Bodies
           /\ \A h \in Seq(Bodies) : Hash(h, <<tx[t].call, tx[t].says>>) \in Seq(Bodies)
<1>1. <<tx[t].call, tx[t].says>> \in Bodies
  BY Busy DEF Bodies
<1> QED BY <1>1 DEF Hash

LEMMA BeginTypes ==
    ASSUME TypeOK, NEW t \in Txs, Begin(t) PROVE TxTypeOK'
<1>1. PICK c \in Calls, says \in Verdicts \cup Results, token \in BOOLEAN :
        tx' = [tx EXCEPT ![t] = Fresh(c, says, token)]
  BY DEF Begin
<1>2. NoTx.seen \in Heads
  BY NoTxGood DEF GoodTx, TxRecord
<1>3. GoodTx(Fresh(c, says, token))
  BY <1>2 DEF GoodTx, Fresh, TxRecord
<1> QED BY <1>1, <1>3, SetTx DEF TypeOK

LEMMA TakeHeadTypes ==
    ASSUME TypeOK, NEW t \in Txs, TakeHead(t) PROVE TxTypeOK'
<1> DEFINE r == [tx[t] EXCEPT !.at = 5, !.seen = head]
<1>1. tx[t] \in TxRecord /\ tx[t].kind # "none" /\ head \in Heads
  <2>1. tx[t].at = 4
    BY DEF TakeHead
  <2> QED BY <2>1, Busy DEF TypeOK, ChainTypeOK
<1>2. r \in TxRecord
  <2>1. [tx[t] EXCEPT !.at = 5] \in TxRecord
    BY <1>1 DEF TxRecord
  <2> DEFINE q == [tx[t] EXCEPT !.at = 5]
  <2>2. [q EXCEPT !.seen = head] = r
    OBVIOUS
  <2> HIDE DEF q, r
  <2>3. q \in TxRecord
    BY <2>1 DEF q
  <2>4. [q EXCEPT !.seen = head] \in TxRecord
    BY <1>1, <2>3 DEF TxRecord
  <2> QED BY <2>2, <2>4
<1>3. r.kind = tx[t].kind /\ r.call = tx[t].call /\ r.says = tx[t].says
  BY <1>1 DEF TxRecord
<1>4. GoodTx(r)
  BY <1>1, <1>2, <1>3 DEF GoodTx, TypeOK, TxTypeOK
<1>5. tx' = [tx EXCEPT ![t] = r]
  BY DEF TakeHead
<1> QED BY <1>4, <1>5, SetTx DEF TypeOK

LEMMA CommitTypes ==
    ASSUME TypeOK, NEW t \in Txs, Commit(t)
    PROVE  CallTypeOK' /\ ChainTypeOK' /\ TxTypeOK'
<1> DEFINE c == tx[t].call
           body == <<c, tx[t].says>>
           hash == Hash(tx[t].seen.hash, body)
<1>1. tx[t].kind \in {"save", "result"} /\ c \in Calls /\ tx[t] \in TxRecord
  BY Busy DEF TypeOK, Commit
<1>2. tx[t].seen.hash \in Seq(Bodies) /\ tx[t].seen.seq \in Nat
  BY <1>1 DEF TxRecord, Heads
<1>3. body \in Bodies /\ hash \in Seq(Bodies)
  BY <1>1, <1>2, BodyType DEF TypeOK
<1>4. TxTypeOK'
  BY RollbackTypes DEF TypeOK, Commit
<1>5. ChainTypeOK'
  <2>1. head' = [hash |-> hash, seq |-> tx[t].seen.seq + 1]
        /\ events' = Append(events, [body |-> body, prev |-> tx[t].seen.hash, hash |-> hash])
    BY DEF Commit
  <2> HIDE DEF body, hash
  <2> QED BY <2>1, <1>2, <1>3 DEF Heads, Events, ChainTypeOK, TypeOK
<1>6. CallTypeOK'
  <2>1. CASE tx[t].kind = "save"
    <3>1. tx[t].says \in Verdicts /\ StatusOf(tx[t].says) \in Statuses
      BY <2>1, Busy DEF TypeOK, StatusOf, Statuses
    <3> QED BY <2>1, <3>1, <1>1 DEF Commit, TypeOK, CallTypeOK
  <2>2. CASE tx[t].kind = "result"
    <3>1. tx[t].says \in Statuses
      BY <2>2, Busy DEF TypeOK, Statuses
    <3> QED BY <2>2, <3>1, <1>1 DEF Commit, TypeOK, CallTypeOK
  <2> QED BY <2>1, <2>2, <1>1
<1> QED BY <1>4, <1>5, <1>6

(* What was lost or altered is still a sequence of events. *)
LEMMA DamageTypes ==
    ASSUME events \in Events, Damage PROVE events' \in Events
<1>1. PICK i \in 1..Len(events) :
         \/ events' = SubSeq(events, 1, i - 1) \o SubSeq(events, i + 1, Len(events))
         \/ \E b \in Bodies \ {events[i].body} : events' = [events EXCEPT ![i].body = b]
  BY DEF Damage
<1> DEFINE E == [body : Bodies, prev : Seq(Bodies), hash : Seq(Bodies)]
<1>2. events \in Seq(E) /\ Len(events) \in Nat /\ i \in Int
  BY DEF Events
<1>3. ASSUME events' = SubSeq(events, 1, i - 1) \o SubSeq(events, i + 1, Len(events))
      PROVE  events' \in Seq(E)
  <2> HIDE DEF E
  <2>1. \A j \in 1..Len(events) : events[j] \in E
    BY <1>2, ElementOfSeq
  <2>2. SubSeq(events, 1, i - 1) \in Seq(E)
    BY <1>1, <1>2, <2>1, SubSeqProperties
  <2>3. SubSeq(events, i + 1, Len(events)) \in Seq(E)
    BY <1>1, <1>2, <2>1, SubSeqProperties
  <2> QED BY <1>3, <2>2, <2>3, ConcatProperties
<1>4. ASSUME NEW b \in Bodies, events' = [events EXCEPT ![i].body = b]
      PROVE  events' \in Seq(E)
  <2>1. events[i] \in E
    BY <1>2, ElementOfSeq
  <2>2. [events[i] EXCEPT !.body = b] \in E
    BY <2>1
  <2>3. events' = [events EXCEPT ![i] = [events[i] EXCEPT !.body = b]]
    BY <1>4
  <2> HIDE DEF E
  <2> QED BY <1>1, <1>2, <2>2, <2>3, ExceptSeq
<1> QED BY <1>1, <1>3, <1>4 DEF Events

(* What a step leaves alone stays well-formed. *)
LEMMA FrameTypes ==
    ASSUME TypeOK
    PROVE  /\ UNCHANGED call => CallTypeOK'
           /\ UNCHANGED <<events, head>> => ChainTypeOK'
           /\ UNCHANGED tx => TxTypeOK'
           /\ UNCHANGED verifier => VerifierTypeOK'
           /\ UNCHANGED <<spent, exec, ran>> => ExecTypeOK'
           /\ UNCHANGED damaged => damaged' \in BOOLEAN
           /\ UNCHANGED faults => faults' \in 0..MaxFaults
           /\ Fault => faults' \in 0..MaxFaults
<1>1. UNCHANGED call => CallTypeOK'
  BY DEF TypeOK, CallTypeOK
<1>2. UNCHANGED <<events, head>> => ChainTypeOK'
  BY DEF TypeOK, ChainTypeOK
<1>3. UNCHANGED tx => TxTypeOK'
  BY DEF TypeOK, TxTypeOK
<1>4. UNCHANGED verifier => VerifierTypeOK'
  BY DEF TypeOK, VerifierTypeOK
<1>5. UNCHANGED <<spent, exec, ran>> => ExecTypeOK'
  BY DEF TypeOK, ExecTypeOK
<1>6. UNCHANGED damaged => damaged' \in BOOLEAN
  BY DEF TypeOK
<1>7. UNCHANGED faults \/ Fault => faults' \in 0..MaxFaults
  BY DEF TypeOK, Fault
<1> QED BY <1>1, <1>2, <1>3, <1>4, <1>5, <1>6, <1>7

(* A transaction's steps keep the records well-formed. *)
LEMMA TxStepTypes ==
    ASSUME TypeOK, NEW t \in Txs,
           Begin(t) \/ TakeRow(t) \/ TakeParent(t) \/ TakeHead(t) \/ Commit(t) \/ Abort(t)
    PROVE  TypeOK'
<1>1. CASE Begin(t)
  BY <1>1, BeginTypes, FrameTypes DEF TypeOK, Begin, records
<1>2. CASE TakeRow(t)
  <2>1. TxTypeOK'
    BY <1>2, ForwardTypes, RollbackTypes DEF TakeRow, TypeOK
  <2> QED BY <1>2, <2>1, FrameTypes DEF TypeOK, TakeRow, records
<1>3. CASE TakeParent(t)
  <2>1. TxTypeOK'
    BY <1>3, Busy, ForwardTypes, RollbackTypes DEF TakeParent, TypeOK
  <2> QED BY <1>3, <2>1, FrameTypes DEF TypeOK, TakeParent, records
<1>4. CASE TakeHead(t)
  BY <1>4, TakeHeadTypes, FrameTypes DEF TypeOK, TakeHead, records
<1>5. CASE Commit(t)
  BY <1>5, CommitTypes, FrameTypes DEF TypeOK, Commit
<1>6. CASE Abort(t)
  <2>1. TxTypeOK'
    BY <1>6, RollbackTypes DEF Abort, TypeOK
  <2> QED BY <1>6, <2>1, FrameTypes DEF TypeOK, Abort, records
<1> QED BY <1>1, <1>2, <1>3, <1>4, <1>5, <1>6

(* The executor's steps keep its own state well-formed. *)
LEMMA ExecStepTypes ==
    ASSUME TypeOK, NEW x \in Executors, LookUp(x) \/ Claim(x) \/ Run(x)
    PROVE  TypeOK'
<1>1. ASSUME NEW pc \in {"idle", "claim", "run"}, NEW c \in Calls \cup {NoCall},
             pc = "idle" \/ c \in Calls, exec' = [exec EXCEPT ![x] = [pc |-> pc, call |-> c]],
             spent' \subseteq Calls, ran' \in [Calls -> Nat]
      PROVE  ExecTypeOK'
  BY <1>1 DEF TypeOK, ExecTypeOK
<1>2. exec[x].pc # "idle" => exec[x].call \in Calls
  BY DEF TypeOK, ExecTypeOK
<1>3. \A pc : exec' = [exec EXCEPT ![x].pc = pc]
                => exec' = [exec EXCEPT ![x] = [pc |-> pc, call |-> exec[x].call]]
  <2>1. exec[x] \in [pc : {"idle", "claim", "run"}, call : Calls \cup {NoCall}]
    BY DEF TypeOK, ExecTypeOK
  <2>2. \A pc : [exec[x] EXCEPT !.pc = pc] = [pc |-> pc, call |-> exec[x].call]
    BY <2>1
  <2> QED BY <2>2
<1>4. exec[x].call \in Calls \cup {NoCall} /\ spent \subseteq Calls /\ ran \in [Calls -> Nat]
  BY DEF TypeOK, ExecTypeOK
<1>5. CASE LookUp(x)
  <2>1. ExecTypeOK'
    BY <1>1, <1>4, <1>5 DEF LookUp
  <2> QED BY <1>5, <2>1, FrameTypes DEF TypeOK, LookUp, records
<1>6. CASE Claim(x)
  <2>1. spent' \subseteq Calls
    BY <1>2, <1>4, <1>6 DEF Claim
  <2>2. ExecTypeOK'
    BY <1>1, <1>2, <1>3, <1>4, <1>6, <2>1 DEF Claim, Leave
  <2>3. faults' \in 0..MaxFaults
    BY <1>6, FrameTypes DEF Claim
  <2> QED BY <1>6, <2>2, <2>3, FrameTypes DEF TypeOK, Claim, records
<1>7. CASE Run(x)
  <2>1. ran' \in [Calls -> Nat]
    BY <1>2, <1>4, <1>7 DEF Run
  <2>2. ExecTypeOK'
    BY <1>1, <1>3, <1>4, <1>7, <2>1 DEF Run, Leave
  <2> QED BY <1>7, <2>2, FrameTypes DEF TypeOK, Run, records
<1> QED BY <1>5, <1>6, <1>7

LEMMA TypeStep == ASSUME TypeOK, [Next]_vars PROVE TypeOK'
<1>1. CASE \E t \in Txs : Begin(t) \/ TakeRow(t) \/ TakeParent(t) \/ TakeHead(t)
                           \/ Commit(t) \/ Abort(t)
  BY <1>1, TxStepTypes
<1>2. CASE ReadEvents
  <2>1. events \in Events /\ damaged \in BOOLEAN
    BY DEF TypeOK, ChainTypeOK
  <2>2. VerifierTypeOK'
    BY <1>2, <2>1 DEF ReadEvents, VerifierTypeOK
  <2> QED BY <1>2, <2>2, FrameTypes DEF ReadEvents, TypeOK, records
<1>3. CASE ReadHead
  <2> DEFINE alarm == ~Verifies(verifier.saw, head)
  <2>1. alarm \in BOOLEAN
    OBVIOUS
  <2>2. verifier' = [verifier EXCEPT !.pc = "done", !.alarm = alarm]
    BY <1>3 DEF ReadHead
  <2> HIDE DEF alarm
  <2>3. VerifierTypeOK'
    BY <2>1, <2>2 DEF TypeOK, VerifierTypeOK
  <2> QED BY <1>3, <2>3, FrameTypes DEF ReadHead, TypeOK, records
<1>4. CASE Damage
  <2>1. ChainTypeOK'
    BY <1>4, DamageTypes DEF TypeOK, Damage, ChainTypeOK
  <2>2. damaged' \in BOOLEAN /\ faults' \in 0..MaxFaults
    BY <1>4, FrameTypes DEF Damage
  <2> QED BY <1>4, <2>1, <2>2, FrameTypes DEF Damage, TypeOK
<1>5. CASE \E x \in Executors : LookUp(x) \/ Claim(x) \/ Run(x)
  BY <1>5, ExecStepTypes
<1>6. CASE UNCHANGED vars
  BY <1>6, FrameTypes DEF TypeOK, vars
<1> QED BY <1>1, <1>2, <1>3, <1>4, <1>5, <1>6 DEF Next

LEMMA TypeInit == ASSUME Init PROVE TypeOK
<1>1. TxTypeOK
  BY NoTxGood, TxGood DEF Init, GoodTx
<1>2. ChainTypeOK /\ VerifierTypeOK
  BY DEF Init, ChainTypeOK, VerifierTypeOK, Heads, Events, Genesis
<1>3. CallTypeOK /\ ExecTypeOK
  BY DEF Init, CallTypeOK, ExecTypeOK, Statuses
<1>4. faults \in 0..MaxFaults
  <2>1. faults = 0
    BY DEF Init
  <2> QED BY <2>1
<1>5. damaged \in BOOLEAN
  <2>1. damaged = FALSE
    BY DEF Init
  <2> QED BY <2>1
<1> QED BY <1>1, <1>2, <1>3, <1>4, <1>5 DEF TypeOK

(* Rows, events, locks, executors and the verifier stay well-formed. *)
THEOREM TypeCorrect == Spec => []TypeOK
BY TypeInit, TypeStep, PTL DEF Spec

-----------------------------------------------------------------------------
(* Locks *)

(* A transaction that is past a row keeps another out of it. *)
LEMMA RowBlocks ==
    ASSUME TxTypeOK, NEW t \in Txs, NEW u \in Txs, t # u,
           tx[t].kind # "none", tx[t].at = 1, Past(u, 1),
           tx[t].kind = tx[u].kind, tx[t].call = tx[u].call
    PROVE  Waiting(t)
<1>1. tx[t].kind \in {"save", "result"} /\ tx[u].at \in 1..5
  BY Busy DEF TxTypeOK, TxRecord
<1>2. Lock(t, 1) = Lock(u, 1)
  BY DEF Lock
<1>3. 1 \in 1..(tx[u].at - 1)
  BY <1>1 DEF Past
<1>4. Lock(t, 1) \in Held(u)
  BY <1>2, <1>3 DEF Held
<1>5. ~Shares(t, Lock(t, 1))
  BY <1>1 DEF Shares, Lock
<1> QED BY <1>4, <1>5 DEF Blocks, Waiting

LEMMA HeadBlocks ==
    ASSUME TxTypeOK, NEW t \in Txs, NEW u \in Txs, t # u,
           tx[t].kind # "none", tx[t].at = 4, Past(u, 4)
    PROVE  Waiting(t)
<1>1. tx[u].at = 5
  BY DEF Past, TxTypeOK, TxRecord
<1>2. \A v \in Txs : Lock(v, 4) = <<"chain", NoCall>>
  BY DEF Lock, Path
<1>3. Lock(t, 4) \in Held(u)
  BY <1>1, <1>2 DEF Held
<1>4. ~Shares(t, Lock(t, 4))
  BY <1>2 DEF Shares
<1> QED BY <1>3, <1>4 DEF Blocks, Waiting

(* What a step that only moves one transaction must establish of it. *)
LEMMA MoveTx ==
    ASSUME TxTypeOK, LockInv, UNCHANGED <<call, head>>, NEW t \in Txs,
           \A u \in Txs \ {t} : tx'[u] = tx[u],
           tx'[t].at = 1 \/
             /\ Found(tx'[t])
             /\ \A u \in Txs :
                  (/\ Past(u, 1) /\ tx[u].kind = tx'[t].kind
                   /\ tx[u].call = tx'[t].call) => u = t
             /\ \/ tx'[t].at \in {2, 3, 4}
                \/ /\ tx'[t].at = 5 /\ tx'[t].seen = head
                   /\ \A u \in Txs : Past(u, 4) => u = t
    PROVE  LockInv'
<1> DEFINE r == tx'[t]
<1>1. tx'[t] = r /\ \A u \in Txs : u # t => tx'[u] = tx[u]
  OBVIOUS
<1>2. \A u \in Txs : u # t => (Found(tx[u])' <=> Found(tx[u]))
                         /\ \A i : Past(u, i)' <=> Past(u, i)
  BY <1>1 DEF Found, Past
<1>3. \A i : Past(t, i)' <=> r.at > i
  BY <1>1 DEF Past
<1>4. ASSUME NEW u \in Txs, Past(u, 1)' PROVE Found(tx[u])'
  <2>1. CASE u = t
    BY <1>1, <1>3, <1>4, <2>1 DEF Found
  <2>2. CASE u # t
    BY <1>2, <1>4, <2>2 DEF LockInv
  <2> QED BY <2>1, <2>2
<1>5. RowsOwned'
  <2> SUFFICES ASSUME NEW u \in Txs, NEW v \in Txs, Past(u, 1)', Past(v, 1)',
                      tx'[u].kind = tx'[v].kind, tx'[u].call = tx'[v].call
               PROVE  u = v
    BY DEF RowsOwned
  <2> QED BY <1>1, <1>2, <1>3 DEF LockInv, RowsOwned
<1>6. HeadOwned'
  <2> SUFFICES ASSUME NEW u \in Txs, NEW v \in Txs, Past(u, 4)', Past(v, 4)'
               PROVE  u = v
    BY DEF HeadOwned
  <2> QED BY <1>1, <1>2, <1>3 DEF LockInv, HeadOwned
<1>7. HeadHeld'
  BY <1>1 DEF LockInv, HeadHeld
<1> QED BY <1>4, <1>5, <1>6, <1>7 DEF LockInv

LEMMA RollbackLocks ==
    ASSUME TxTypeOK, LockInv, UNCHANGED <<call, head>>, NEW t \in Txs, Rollback(t)
    PROVE  LockInv'
<1>1. tx'[t].at = 1 /\ \A u \in Txs \ {t} : tx'[u] = tx[u]
  BY DEF Rollback, TxTypeOK, NoTx
<1> QED BY <1>1, MoveTx

LEMMA TakeRowLocks ==
    ASSUME TypeOK, LockInv, NEW t \in Txs, TakeRow(t) PROVE LockInv'
<1>1. CASE Rollback(t)
  BY <1>1, RollbackLocks DEF TakeRow, records, TypeOK
<1>2. CASE Forward(t)
  <2> DEFINE r == [tx[t] EXCEPT !.at = @ + 1]
  <2>1. tx[t] \in TxRecord /\ tx[t].at = 1 /\ tx[t].kind # "none" /\ tx[t].kind \in {"save", "result"}
    BY Busy DEF TakeRow, TypeOK
  <2>2. r.at = 2 /\ r.kind = tx[t].kind /\ r.call = tx[t].call
    BY <2>1 DEF TxRecord
  <2>3. tx' = [tx EXCEPT ![t] = r] /\ UNCHANGED <<call, head>>
    BY <1>2 DEF Forward, TakeRow, records
  <2>4. (tx[t].kind = "save") = (call[tx[t].call].status = "none")
    <3>1. tx'[t].at = 2
      BY <2>2, <2>3 DEF TypeOK, TxTypeOK
    <3>2. ~Rollback(t)
      BY <3>1 DEF Rollback, NoTx, TypeOK, TxTypeOK
    <3> QED BY <3>2 DEF TakeRow
  <2>5. Found(r)
    <3> HIDE DEF r
    <3> QED BY <2>1, <2>2, <2>4 DEF Found
  <2>6. \A u \in Txs : Past(u, 1) /\ tx[u].kind = r.kind /\ tx[u].call = r.call => u = t
    BY <2>1, <2>2, RowBlocks DEF TakeRow, TypeOK
  <2>7. tx'[t] = r /\ \A u \in Txs \ {t} : tx'[u] = tx[u]
    BY <2>3 DEF TypeOK, TxTypeOK
  <2> HIDE DEF r
  <2> QED BY <2>2, <2>3, <2>5, <2>6, <2>7, MoveTx DEF TypeOK
<1> QED BY <1>1, <1>2 DEF TakeRow

LEMMA TakeParentLocks ==
    ASSUME TypeOK, LockInv, NEW t \in Txs, TakeParent(t) PROVE LockInv'
<1>1. CASE Rollback(t)
  BY <1>1, RollbackLocks DEF TakeParent, records, TypeOK
<1>2. CASE Forward(t)
  <2> DEFINE r == [tx[t] EXCEPT !.at = @ + 1]
  <2>1. tx[t] \in TxRecord /\ tx[t].at \in {2, 3} /\ tx[t].kind \in {"save", "result"}
    BY Busy DEF TakeParent, TypeOK
  <2>2. /\ r.at = tx[t].at + 1 /\ r.kind = tx[t].kind /\ r.call = tx[t].call
        /\ r.says = tx[t].says
    BY <2>1 DEF TxRecord
  <2>3. tx' = [tx EXCEPT ![t] = r] /\ UNCHANGED <<call, head>>
    BY <1>2 DEF Forward, TakeParent, records
  <2>4. tx'[t] = r /\ \A u \in Txs \ {t} : tx'[u] = tx[u]
    BY <2>3 DEF TypeOK, TxTypeOK
  <2>5. Past(t, 1) /\ Found(tx[t])
    BY <2>1 DEF Past, LockInv
  <2> HIDE DEF r
  <2>6. tx[t].kind = "save" \/ tx[t].at = 2 \/ Legal(call[tx[t].call].status, tx[t].says)
    <3>1. tx'[t].at # 1
      BY <2>1, <2>2, <2>4
    <3>2. ~Rollback(t)
      BY <3>1 DEF Rollback, NoTx, TypeOK, TxTypeOK
    <3> QED BY <3>2 DEF TakeParent
  <2>7. Found(r)
    BY <2>1, <2>2, <2>5, <2>6 DEF Found, Past
  <2>8. \A u \in Txs : Past(u, 1) /\ tx[u].kind = r.kind /\ tx[u].call = r.call => u = t
    BY <2>2, <2>5 DEF LockInv, RowsOwned
  <2>9. r.at \in {3, 4}
    BY <2>1, <2>2
  <2> QED BY <2>3, <2>4, <2>7, <2>8, <2>9, MoveTx DEF TypeOK
<1> QED BY <1>1, <1>2 DEF TakeParent

LEMMA TakeHeadLocks ==
    ASSUME TypeOK, LockInv, NEW t \in Txs, TakeHead(t) PROVE LockInv'
<1> DEFINE r == [tx[t] EXCEPT !.at = 5, !.seen = head]
<1>1. tx[t] \in TxRecord /\ tx[t].at = 4 /\ tx[t].kind \in {"save", "result"}
  BY Busy DEF TakeHead, TypeOK
<1>2. /\ r.at = 5 /\ r.kind = tx[t].kind /\ r.call = tx[t].call
      /\ r.says = tx[t].says /\ r.seen = head
  BY <1>1 DEF TxRecord
<1>3. tx' = [tx EXCEPT ![t] = r] /\ UNCHANGED <<call, head>>
  BY DEF TakeHead, records
<1> HIDE DEF r
<1>4. tx'[t] = r /\ \A u \in Txs \ {t} : tx'[u] = tx[u]
  BY <1>3 DEF TypeOK, TxTypeOK
<1>5. Past(t, 1) /\ Found(tx[t])
  BY <1>1 DEF Past, LockInv
<1>6. Found(r)
  BY <1>1, <1>2, <1>5 DEF Found, Past
<1>7. \A u \in Txs : Past(u, 1) /\ tx[u].kind = r.kind /\ tx[u].call = r.call => u = t
  BY <1>2, <1>5 DEF LockInv, RowsOwned
<1>8. \A u \in Txs : Past(u, 4) => u = t
  BY <1>1, HeadBlocks DEF TakeHead, TypeOK
<1> QED BY <1>2, <1>3, <1>4, <1>6, <1>7, <1>8, MoveTx DEF TypeOK

LEMMA CommitLocks ==
    ASSUME TypeOK, LockInv, NEW t \in Txs, Commit(t) PROVE LockInv'
<1>1. tx[t].at = 5 /\ tx[t].kind \in {"save", "result"} /\ Past(t, 1) /\ Past(t, 4) /\ Found(tx[t])
  BY Busy DEF Commit, TypeOK, Past, LockInv
<1>2. tx'[t] = NoTx /\ \A u \in Txs : u # t => tx'[u] = tx[u]
  BY DEF Commit, Rollback, TypeOK, TxTypeOK
<1>3. \A u \in Txs : Past(u, 1)' \/ Past(u, 4)' \/ tx'[u].at = 5 => u # t
  BY <1>2 DEF Past, NoTx
<1>4. \A u \in Txs : u # t => /\ (Past(u, 1)' <=> Past(u, 1))
                              /\ (Past(u, 4)' <=> Past(u, 4))
  BY <1>2 DEF Past
<1>5. ASSUME NEW u \in Txs, Past(u, 1)' PROVE Found(tx[u])'
  <2>1. u # t /\ tx'[u] = tx[u] /\ Past(u, 1) /\ Found(tx[u])
    BY <1>2, <1>3, <1>4, <1>5 DEF LockInv
  <2>2. tx[u].kind \in {"save", "result"}
    BY <2>1, Busy DEF TypeOK, Past
  <2>3. tx[u].call # tx[t].call
    BY <1>1, <2>1, <2>2 DEF Found, LockInv, RowsOwned
  <2>4. call'[tx[u].call] = call[tx[u].call]
    BY <2>1, <2>2, <2>3, Busy DEF Commit, TypeOK, CallTypeOK
  <2> QED BY <2>1, <2>4 DEF Found, Past
<1>6. RowsOwned'
  BY <1>2, <1>3, <1>4 DEF LockInv, RowsOwned
<1>7. HeadOwned'
  BY <1>3, <1>4 DEF LockInv, HeadOwned
<1>8. HeadHeld'
  <2>1. ASSUME NEW u \in Txs, tx'[u].at = 5 PROVE FALSE
    <3>1. u # t /\ Past(u, 4)
      BY <1>2, <1>3, <2>1 DEF Past
    <3> QED BY <1>1, <3>1 DEF LockInv, HeadOwned
  <2> QED BY <2>1 DEF HeadHeld
<1> QED BY <1>5, <1>6, <1>7, <1>8 DEF LockInv

LEMMA LockStep == ASSUME TypeOK, LockInv, [Next]_vars PROVE LockInv'
<1>1. ASSUME UNCHANGED <<call, head, tx>> PROVE LockInv'
  BY <1>1 DEF LockInv, Found, Past, RowsOwned, HeadOwned, HeadHeld
<1>2. ASSUME NEW t \in Txs, Begin(t) PROVE LockInv'
  <2>1. PICK c \in Calls, says \in Verdicts \cup Results, token \in BOOLEAN :
          tx' = [tx EXCEPT ![t] = Fresh(c, says, token)]
    BY <1>2 DEF Begin
  <2>2. tx'[t].at = 1 /\ \A u \in Txs \ {t} : tx'[u] = tx[u]
    BY <1>2, <2>1 DEF Fresh, TypeOK, TxTypeOK
  <2> QED BY <1>2, <2>1, <2>2, MoveTx DEF Begin, records, TypeOK
<1>3. ASSUME NEW t \in Txs, Abort(t) PROVE LockInv'
  BY <1>3, RollbackLocks DEF Abort, records, TypeOK
<1>4. CASE ReadEvents \/ ReadHead \/ Damage \/ UNCHANGED vars
  BY <1>1, <1>4 DEF ReadEvents, ReadHead, Damage, records, vars
<1>5. ASSUME NEW x \in Executors, LookUp(x) \/ Claim(x) \/ Run(x) PROVE LockInv'
  BY <1>1, <1>5 DEF LookUp, Claim, Run, records
<1> QED BY <1>2, <1>3, <1>4, <1>5, TakeRowLocks, TakeParentLocks, TakeHeadLocks, CommitLocks
        DEF Next

LEMMA LockInit == ASSUME Init PROVE LockInv
<1>1. \A t \in Txs : tx[t].at = 1
  BY DEF Init, NoTx
<1> QED BY <1>1 DEF LockInv, Past, RowsOwned, HeadOwned, HeadHeld

(* Whoever is past a row, or past the head of the chain, is alone there. *)
THEOREM LocksExclude == Spec => []LockInv
BY TypeInit, TypeStep, LockInit, LockStep, PTL DEF Spec

(* Nobody appends to the chain over a head that has moved on. *)
THEOREM HeadStaysHeld == Spec => []HeadHeld
<1>1. LockInv => HeadHeld
  BY DEF LockInv
<1> QED BY <1>1, LocksExclude, PTL

-----------------------------------------------------------------------------
(* The chain *)

(* An event hashed over the head of a chain that verifies makes a longer chain
   that verifies. *)
LEMMA AppendVerifies ==
    ASSUME NEW E \in Events, NEW h \in Heads, Verifies(E, h), NEW body \in Bodies,
           NEW e, e = [body |-> body, prev |-> h.hash, hash |-> Hash(h.hash, body)],
           e \in [body : Bodies, prev : Seq(Bodies), hash : Seq(Bodies)]
    PROVE  Verifies(Append(E, e), [hash |-> e.hash, seq |-> h.seq + 1])
<1> DEFINE F == Append(E, e)
           n == Len(E)
<1>1. /\ n \in Nat /\ Len(F) = n + 1 /\ F[n + 1] = e
      /\ \A i \in 1..n : F[i] = E[i]
  BY DEF Events
<1>2. e.prev = (IF E = <<>> THEN Genesis ELSE E[n].hash) /\ e.hash = Hash(e.prev, body)
      /\ e.body = body
  BY DEF Verifies
<1>3. h.seq = n
  BY DEF Verifies
<1>4. E = <<>> <=> n = 0
  BY DEF Events
<1> HIDE DEF F, n
<1>5. ASSUME NEW i \in 1..(n + 1)
      PROVE  /\ F[i].prev = IF i = 1 THEN Genesis ELSE F[i - 1].hash
             /\ F[i].hash = Hash(F[i].prev, F[i].body)
  <2>1. CASE i \in 1..n
    <3>1. /\ E[i].prev = IF i = 1 THEN Genesis ELSE E[i - 1].hash
          /\ E[i].hash = Hash(E[i].prev, E[i].body)
      BY <2>1 DEF Verifies, Linked, n
    <3>2. i # 1 => i - 1 \in 1..n
      BY <1>1, <2>1
    <3> QED BY <1>1, <2>1, <3>1, <3>2
  <2>2. CASE i = n + 1
    <3>1. i # 1 => n \in 1..n /\ i - 1 = n
      BY <1>1, <2>2
    <3>2. i = 1 <=> E = <<>>
      BY <1>1, <1>4, <2>2
    <3>3. F[i].prev = IF i = 1 THEN Genesis ELSE F[i - 1].hash
      BY <1>1, <1>2, <2>2, <3>1, <3>2
    <3> QED BY <1>1, <1>2, <2>2, <3>3
  <2> QED BY <1>1, <2>1, <2>2
<1>6. Linked(F)
  BY <1>1, <1>5 DEF Linked
<1>7. F # <<>>
  BY <1>1
<1> DEFINE g == [hash |-> e.hash, seq |-> h.seq + 1]
<1>8. g.seq = Len(F) /\ g.hash = F[Len(F)].hash
  BY <1>1, <1>3
<1> HIDE DEF g
<1>9. Verifies(F, g)
  BY <1>6, <1>7, <1>8 DEF Verifies
<1> QED BY <1>9 DEF F, g

LEMMA CommitAppends ==
    ASSUME TypeOK, LockInv, NEW t \in Txs, Commit(t)
    PROVE  \E body \in Bodies, e \in [body : Bodies, prev : Seq(Bodies), hash : Seq(Bodies)] :
             /\ body = <<tx[t].call, tx[t].says>>
             /\ e = [body |-> body, prev |-> head.hash, hash |-> Hash(head.hash, body)]
             /\ events' = Append(events, e)
             /\ head' = [hash |-> e.hash, seq |-> head.seq + 1]
             /\ e.hash = Append(head.hash, body)
<1> DEFINE body == <<tx[t].call, tx[t].says>>
           hash == Hash(head.hash, body)
           e == [body |-> body, prev |-> head.hash, hash |-> hash]
<1>1. tx[t].seen = head
  BY DEF Commit, LockInv, HeadHeld
<1>2. head.hash \in Seq(Bodies)
  BY DEF TypeOK, ChainTypeOK, Heads
<1>3. body \in Bodies /\ hash \in Seq(Bodies)
  <2>1. tx[t].kind # "none" /\ TxTypeOK
    BY Busy DEF TypeOK, Commit
  <2> QED BY <1>2, <2>1, BodyType
<1>4. hash = Append(head.hash, body)
  BY DEF Hash
<1>5. events' = Append(events, e) /\ head' = [hash |-> hash, seq |-> head.seq + 1]
  BY <1>1 DEF Commit
<1> HIDE DEF body, hash
<1>6. e \in [body : Bodies, prev : Seq(Bodies), hash : Seq(Bodies)] /\ e.hash = hash
  BY <1>2, <1>3
<1>7. body = <<tx[t].call, tx[t].says>> /\ e.hash = Append(head.hash, body)
      /\ e = [body |-> body, prev |-> head.hash, hash |-> Hash(head.hash, body)]
      /\ events' = Append(events, e) /\ head' = [hash |-> e.hash, seq |-> head.seq + 1]
  BY <1>4, <1>5, <1>6 DEF hash, body
<1> HIDE DEF e
<1> QED BY <1>3, <1>6, <1>7

LEMMA ChainStep ==
    ASSUME TypeOK, LockInv, ChainVerifies, [Next]_vars PROVE ChainVerifies'
<1>1. ASSUME UNCHANGED <<events, head, damaged>> PROVE ChainVerifies'
  BY <1>1 DEF ChainVerifies, Verifies, Linked
<1>2. ASSUME NEW t \in Txs, Commit(t) PROVE ChainVerifies'
  <2>1. PICK body \in Bodies, e \in [body : Bodies, prev : Seq(Bodies), hash : Seq(Bodies)] :
          /\ e = [body |-> body, prev |-> head.hash, hash |-> Hash(head.hash, body)]
          /\ events' = Append(events, e)
          /\ head' = [hash |-> e.hash, seq |-> head.seq + 1]
    BY <1>2, CommitAppends
  <2>2. events \in Events /\ head \in Heads
    BY DEF TypeOK, ChainTypeOK
  <2>3. damaged' = damaged
    BY <1>2 DEF Commit
  <2>4. ASSUME ~damaged PROVE Verifies(Append(events, e), [hash |-> e.hash, seq |-> head.seq + 1])
    BY <2>1, <2>2, <2>4, AppendVerifies DEF ChainVerifies
  <2>5. ASSUME ~damaged' PROVE Verifies(events', head')
    BY <2>1, <2>3, <2>4, <2>5
  <2> QED BY <2>5 DEF ChainVerifies
<1>3. CASE Damage
  <2>1. damaged' = TRUE
    BY <1>3 DEF Damage
  <2> QED BY <2>1 DEF ChainVerifies
<1>4. ASSUME NEW t \in Txs,
             Begin(t) \/ TakeRow(t) \/ TakeParent(t) \/ TakeHead(t) \/ Abort(t)
      PROVE  ChainVerifies'
  BY <1>1, <1>4 DEF Begin, TakeRow, TakeParent, TakeHead, Abort, records
<1>5. CASE ReadEvents \/ ReadHead \/ UNCHANGED vars
  BY <1>1, <1>5 DEF ReadEvents, ReadHead, records, vars
<1>6. ASSUME NEW x \in Executors, LookUp(x) \/ Claim(x) \/ Run(x) PROVE ChainVerifies'
  BY <1>1, <1>6 DEF LookUp, Claim, Run, records
<1> QED BY <1>2, <1>3, <1>4, <1>5, <1>6 DEF Next

LEMMA ChainInit == ASSUME Init PROVE ChainVerifies
<1>1. events = <<>> /\ head.seq = 0 /\ head.hash = Genesis /\ Len(<<>>) = 0
  BY DEF Init
<1>2. Linked(<<>>)
  BY DEF Linked
<1> QED BY <1>1, <1>2 DEF ChainVerifies, Verifies

(* However many transactions append at once, and whichever of them fail, the
   chain verifies until a row of it is damaged. *)
THEOREM ChainHolds == Spec => []ChainVerifies
BY TypeInit, TypeStep, LockInit, LockStep, ChainInit, ChainStep, PTL DEF Spec

-----------------------------------------------------------------------------
(* The history of the calls *)

LEMMA CommitRecords ==
    ASSUME TypeOK, LockInv, NEW t \in Txs, Commit(t)
    PROVE  History!Next
<1> DEFINE c == tx[t].call
<1>1. tx[t].kind \in {"save", "result"} /\ c \in Calls /\ Found(tx[t]) /\ tx[t].at = 5
  BY Busy DEF TypeOK, Commit, LockInv, Past
<1>2. head'.hash = Append(head.hash, <<c, tx[t].says>>)
  BY CommitAppends
<1>3. \A d \in Calls : call'[d].status =
        IF d = c THEN IF tx[t].kind = "save" THEN StatusOf(tx[t].says) ELSE tx[t].says
                 ELSE call[d].status
  BY <1>1 DEF Commit, TypeOK, CallTypeOK
<1>4. CASE tx[t].kind = "save"
  <2>1. tx[t].says \in Verdicts /\ call[c].status = "none"
    BY <1>1, <1>4, Busy DEF TypeOK, Found
  <2>2. [d \in Calls |-> call'[d].status]
          = [[d \in Calls |-> call[d].status] EXCEPT ![c] = StatusOf(tx[t].says)]
    BY <1>1, <1>3, <1>4
  <2>3. \A d \in Calls, v \in Verdicts :
          d = c /\ v = tx[t].says => History!Decide(d, v)
    BY <1>1, <1>2, <2>1, <2>2 DEF History!Decide
  <2> QED BY <1>1, <2>1, <2>3 DEF History!Next
<1>5. CASE tx[t].kind = "result"
  <2>1. tx[t].says \in Results /\ Legal(call[c].status, tx[t].says)
    BY <1>1, <1>5, Busy DEF TypeOK, Found
  <2>2. [d \in Calls |-> call'[d].status]
          = [[d \in Calls |-> call[d].status] EXCEPT ![c] = tx[t].says]
    BY <1>1, <1>3, <1>5
  <2>3. \A d \in Calls, r \in Results :
          d = c /\ r = tx[t].says => History!Report(d, r)
    BY <1>1, <1>2, <2>1, <2>2 DEF History!Report
  <2> QED BY <1>1, <2>1, <2>3 DEF History!Next
<1> QED BY <1>1, <1>4, <1>5

LEMMA HistoryStep ==
    ASSUME TypeOK, LockInv, [Next]_vars PROVE [History!Next]_(History!vars)
<1>1. ASSUME UNCHANGED <<call, head>> PROVE UNCHANGED History!vars
  BY <1>1 DEF History!vars
<1>2. ASSUME NEW t \in Txs,
             Begin(t) \/ TakeRow(t) \/ TakeParent(t) \/ TakeHead(t) \/ Abort(t)
      PROVE  UNCHANGED <<call, head>>
  BY <1>2 DEF Begin, TakeRow, TakeParent, TakeHead, Abort, records
<1>3. CASE ReadEvents \/ ReadHead \/ Damage \/ UNCHANGED vars
  BY <1>1, <1>3 DEF ReadEvents, ReadHead, Damage, records, vars
<1>4. ASSUME NEW x \in Executors, LookUp(x) \/ Claim(x) \/ Run(x)
      PROVE  UNCHANGED <<call, head>>
  BY <1>4 DEF LookUp, Claim, Run, records
<1> QED BY <1>1, <1>2, <1>3, <1>4, CommitRecords DEF Next

LEMMA HistoryInit == ASSUME Init PROVE History!Init
BY DEF Init, History!Init, Genesis

(* The rows and the chain implement AuditLog: every change of a call is one
   the state machine allows, and has its event in the same instant. *)
THEOREM RecordsImplementHistory == Spec => ImplementsAuditLog
<1>1. ASSUME TypeOK, LockInv, [Next]_vars PROVE [History!Next]_(History!vars)
  BY <1>1, HistoryStep
<1>2. Init => History!Init
  BY HistoryInit
<1> QED BY <1>1, <1>2, TypeCorrect, LocksExclude, PTL
        DEF Spec, ImplementsAuditLog, History!Spec

-----------------------------------------------------------------------------
(* Execution *)

(* A commit changes no decision that an executor may rely on. *)
LEMMA CommitKeepsDecisions ==
    ASSUME TypeOK, LockInv, ExecInv, NEW t \in Txs, Commit(t), NEW c \in Calls
    PROVE  /\ call'[c].status = "none" => call'[c].verdict = "none"
           /\ call[c].verdict = "allow" => call'[c].verdict = "allow"
<1>1. tx[t].kind \in {"save", "result"} /\ tx[t].call \in Calls /\ Found(tx[t])
  BY Busy DEF TypeOK, Commit, LockInv, Past
<1>2. CASE c # tx[t].call
  BY <1>1, <1>2 DEF Commit, TypeOK, CallTypeOK, ExecInv
<1>3. CASE c = tx[t].call /\ tx[t].kind = "save"
  <2>1. call[c].status = "none" /\ call[c].verdict = "none"
    BY <1>1, <1>3 DEF Found, ExecInv
  <2>2. call'[c] = [status |-> StatusOf(tx[t].says), verdict |-> tx[t].says]
    BY <1>1, <1>3 DEF Commit, TypeOK, CallTypeOK
  <2>3. StatusOf(tx[t].says) # "none"
    BY DEF StatusOf
  <2> QED BY <2>1, <2>2, <2>3
<1>4. CASE c = tx[t].call /\ tx[t].kind = "result"
  <2>1. tx[t].says # "none"
    BY <1>4, Busy DEF TypeOK, Commit, Results
  <2>2. call'[c].status = tx[t].says /\ call'[c].verdict = call[c].verdict
    BY <1>1, <1>4 DEF Commit, TypeOK, CallTypeOK
  <2> QED BY <2>1, <2>2
<1> QED BY <1>1, <1>2, <1>3, <1>4

LEMMA ExecStep == ASSUME TypeOK, LockInv, ExecInv, [Next]_vars PROVE ExecInv'
<1>1. ASSUME UNCHANGED <<call, spent, exec, ran>> PROVE ExecInv'
  BY <1>1 DEF ExecInv
<1>2. /\ \A x \in Executors : exec[x].pc # "idle" => exec[x].call \in Calls
      /\ ran \in [Calls -> Nat]
  BY DEF TypeOK, ExecTypeOK
<1>3. ASSUME NEW t \in Txs, Commit(t) PROVE ExecInv'
  <2>1. \A c \in Calls :
          /\ call'[c].status = "none" => call'[c].verdict = "none"
          /\ call[c].verdict = "allow" => call'[c].verdict = "allow"
    BY <1>3, CommitKeepsDecisions
  <2>2. UNCHANGED <<spent, exec, ran>>
    BY <1>3 DEF Commit
  <2> QED BY <1>2, <2>1, <2>2 DEF ExecInv
<1>4. ASSUME NEW t \in Txs,
             Begin(t) \/ TakeRow(t) \/ TakeParent(t) \/ TakeHead(t) \/ Abort(t)
      PROVE  ExecInv'
  BY <1>1, <1>4 DEF Begin, TakeRow, TakeParent, TakeHead, Abort, records
<1>5. CASE ReadEvents \/ ReadHead \/ Damage \/ UNCHANGED vars
  BY <1>1, <1>5 DEF ReadEvents, ReadHead, Damage, records, vars
<1>6. ASSUME NEW x \in Executors, LookUp(x) PROVE ExecInv'
  <2>1. PICK c \in Calls : /\ call[c].verdict = "allow"
                           /\ exec' = [exec EXCEPT ![x] = [pc |-> "claim", call |-> c]]
    BY <1>6 DEF LookUp
  <2>2. UNCHANGED <<call, spent, ran>>
    BY <1>6 DEF LookUp, records
  <2>3. \A y \in Executors :
          exec'[y] = IF y = x THEN [pc |-> "claim", call |-> c] ELSE exec[y]
    BY <2>1 DEF TypeOK, ExecTypeOK
  <2> QED BY <2>1, <2>2, <2>3 DEF ExecInv
<1>7. ASSUME NEW x \in Executors, Claim(x) PROVE ExecInv'
  <2> DEFINE c == exec[x].call
  <2>1. UNCHANGED <<call, ran>> /\ exec[x].pc = "claim" /\ c \in Calls
    BY <1>2, <1>7 DEF Claim, records
  <2>2. CASE Leave(x) /\ spent \subseteq spent'
    <3>1. \A y \in Executors : exec'[y].pc # "idle" => y # x /\ exec'[y] = exec[y]
      BY <2>2 DEF Leave, TypeOK, ExecTypeOK
    <3> QED BY <2>1, <2>2, <3>1 DEF ExecInv
  <2>3. CASE c \notin spent /\ spent' = spent \cup {c}
             /\ exec' = [exec EXCEPT ![x].pc = "run"]
    <3>1. ran[c] = 0 /\ call[c].verdict = "allow"
      BY <1>2, <2>1, <2>3 DEF ExecInv
    <3>2. exec'[x].pc = "run" /\ exec'[x].call = c
          /\ \A y \in Executors : y # x => exec'[y] = exec[y]
      BY <2>3 DEF TypeOK, ExecTypeOK
    <3>3. \A y \in Executors : exec[y].pc = "run" => exec[y].call # c
      BY <2>3 DEF ExecInv
    <3> QED BY <2>1, <2>3, <3>1, <3>2, <3>3 DEF ExecInv
  <2> QED BY <1>7, <2>2, <2>3 DEF Claim
<1>8. ASSUME NEW x \in Executors, Run(x) PROVE ExecInv'
  <2> DEFINE c == exec[x].call
  <2>1. UNCHANGED <<call, spent>> /\ exec[x].pc = "run" /\ c \in Calls
    BY <1>2, <1>8 DEF Run, records
  <2>2. c \in spent /\ ran[c] = 0 /\ call[c].verdict = "allow"
    BY <2>1 DEF ExecInv
  <2>3. \A y \in Executors : exec'[y].pc # "idle" => y # x /\ exec'[y] = exec[y]
    BY <1>8 DEF Run, Leave, TypeOK, ExecTypeOK
  <2>4. \A y \in Executors : y # x /\ exec[y].pc = "run" => exec[y].call # c
    BY <2>1 DEF ExecInv
  <2>5. ran' \in {ran, [ran EXCEPT ![c] = @ + 1]}
    BY <1>8 DEF Run
  <2>6. \A d \in Calls : /\ d # c => ran'[d] = ran[d]
                         /\ ran'[c] \in {0, 1}
    BY <1>2, <2>1, <2>2, <2>5
  <2> HIDE DEF c
  <2>7. \A d \in Calls :
          /\ ran'[d] > 0 => d \in spent /\ call[d].verdict = "allow"
          /\ ran'[d] <= 1
    BY <2>1, <2>2, <2>6 DEF ExecInv
  <2>8. \A y \in Executors : exec'[y].pc = "run" => ran'[exec'[y].call] = 0
    BY <1>2, <2>3, <2>4, <2>6 DEF ExecInv
  <2> QED BY <2>1, <2>3, <2>7, <2>8 DEF ExecInv
<1> QED BY <1>3, <1>4, <1>5, <1>6, <1>7, <1>8 DEF Next

LEMMA ExecInit == ASSUME Init PROVE ExecInv
BY DEF Init, ExecInv

(* However many executors race for a decision token, and whatever replay guard
   or process fails, it starts at most one container. *)
THEOREM TokensRunOnce == Spec => []RunsOnce
<1>1. ASSUME TypeOK, ExecInv PROVE RunsOnce
  <2> SUFFICES ASSUME NEW c \in Calls
               PROVE  ran[c] <= (IF call[c].verdict = "allow" THEN 1 ELSE 0)
    BY DEF RunsOnce
  <2>1. ran[c] \in Nat
    BY <1>1 DEF TypeOK, ExecTypeOK
  <2>2. ran[c] <= 1 /\ (ran[c] > 0 => call[c].verdict = "allow")
    BY <1>1 DEF ExecInv
  <2> QED BY <2>1, <2>2
<1> QED BY <1>1, TypeInit, TypeStep, LockInit, LockStep, ExecInit, ExecStep, PTL DEF Spec

-----------------------------------------------------------------------------
(* The verifier *)

Event == [body : Bodies, prev : Seq(Bodies), hash : Seq(Bodies)]

(* What no later append repairs: the head counts more events than there are,
   or the hash of an event is not that of its body. *)
Broken(E, h) ==
    \/ Len(E) < h.seq
    \/ \E i \in 1..Len(E) : E[i].hash # Hash(E[i].prev, E[i].body)

Begins(E, F) == Len(E) <= Len(F) /\ \A i \in 1..Len(E) : E[i] = F[i]

(* A chain that was damaged stays broken, and so does what the verifier read of
   it; what it read of an undamaged one is how the chain still begins. *)
VerifierInv ==
    /\ damaged => Broken(events, head)
    /\ verifier.damaged => damaged
    /\ verifier.alarm => verifier.pc = "done"
    /\ verifier.pc = "head" =>
         /\ verifier.damaged => Broken(verifier.saw, head)
         /\ ~damaged => Begins(verifier.saw, events)
    /\ DamageReported /\ AlarmMeansMoved

LEMMA BrokenFails ==
    ASSUME NEW E \in Events, NEW h \in Heads, Broken(E, h)
    PROVE  ~Verifies(E, h)
<1>1. Len(E) \in Nat /\ h.seq \in Nat
  BY DEF Events, Heads
<1> QED BY <1>1 DEF Broken, Verifies, Linked

(* An altered body no longer makes the hash that was stored with it. *)
LEMMA DamageBreaks ==
    ASSUME TypeOK, ChainVerifies, Damage
    PROVE  Broken(events', head')
<1>1. /\ events \in Seq(Event) /\ Len(events) \in Nat
      /\ Verifies(events, head) /\ head' = head
  BY DEF TypeOK, ChainTypeOK, Events, Event, ChainVerifies, Damage
<1>2. PICK i \in 1..Len(events) :
         \/ events' = SubSeq(events, 1, i - 1) \o SubSeq(events, i + 1, Len(events))
         \/ \E b \in Bodies \ {events[i].body} : events' = [events EXCEPT ![i].body = b]
  BY DEF Damage
<1>3. i \in Int /\ 1 <= i /\ i <= Len(events) /\ events[i] \in Event
  BY <1>1, <1>2, ElementOfSeq
<1>4. ASSUME events' = SubSeq(events, 1, i - 1) \o SubSeq(events, i + 1, Len(events))
      PROVE  Broken(events', head')
  <2>1. \A j \in 1..Len(events) : events[j] \in Event
    BY <1>1, ElementOfSeq
  <2>2. /\ SubSeq(events, 1, i - 1) \in Seq(Event)
        /\ Len(SubSeq(events, 1, i - 1)) = i - 1
    <3>1. 1 <= (i - 1) + 1 /\ \A j \in 1..(i - 1) : events[j] \in Event
      BY <1>1, <1>3, <2>1
    <3>2. i = 1 \/ 1 <= i - 1
      BY <1>3
    <3> QED BY <1>1, <1>3, <3>1, <3>2, SubSeqProperties
  <2>3. /\ SubSeq(events, i + 1, Len(events)) \in Seq(Event)
        /\ Len(SubSeq(events, i + 1, Len(events))) = Len(events) - i
    <3>1. \A j \in (i + 1)..Len(events) : events[j] \in Event
      BY <1>1, <1>3, <2>1
    <3>2. i = Len(events) \/ i + 1 <= Len(events)
      BY <1>1, <1>3
    <3> QED BY <1>1, <1>3, <3>1, <3>2, SubSeqProperties
  <2>4. Len(events') = (i - 1) + (Len(events) - i)
    <3> DEFINE p == SubSeq(events, 1, i - 1)  q == SubSeq(events, i + 1, Len(events))
    <3>1. p \in Seq(Event) /\ q \in Seq(Event) /\ events' = p \o q
      BY <1>4, <2>2, <2>3
    <3>2. Len(p) = i - 1 /\ Len(q) = Len(events) - i
      BY <2>2, <2>3
    <3> HIDE DEF p, q
    <3>3. Len(p \o q) = Len(p) + Len(q)
      BY <3>1, ConcatProperties
    <3> QED BY <3>1, <3>2, <3>3
  <2>5. Len(events') < head.seq
    BY <1>1, <1>3, <2>4 DEF Verifies
  <2> QED BY <1>1, <2>5 DEF Broken
<1>5. ASSUME NEW b \in Bodies \ {events[i].body}, events' = [events EXCEPT ![i].body = b]
      PROVE  Broken(events', head')
  <2>1. events[i].hash = Append(events[i].prev, events[i].body)
    BY <1>1, <1>2 DEF Verifies, Linked, Hash
  <2>2. events'[i] = [events[i] EXCEPT !.body = b] /\ Len(events') = Len(events)
    BY <1>1, <1>2, <1>5
  <2>3. /\ events'[i].hash = events[i].hash /\ events'[i].prev = events[i].prev
        /\ events'[i].body = b
    BY <1>3, <2>2 DEF Event
  <2>4. Append(events[i].prev, events[i].body) # Append(events[i].prev, b)
    <3> DEFINE p == events[i].prev
    <3>1. p \in Seq(Bodies) /\ Len(p) \in Nat
      BY <1>3 DEF Event
    <3> HIDE DEF p
    <3>2. \A x \in Bodies : Append(p, x)[Len(p) + 1] = x
      BY <3>1
    <3>3. events[i].body \in Bodies
      BY <1>3 DEF Event
    <3>4. Append(p, events[i].body) # Append(p, b)
      BY <3>2, <3>3
    <3> QED BY <3>4 DEF p
  <2>5. events'[i].hash # Hash(events'[i].prev, events'[i].body)
    BY <2>1, <2>3, <2>4 DEF Hash
  <2> QED BY <1>2, <2>2, <2>5 DEF Broken
<1> QED BY <1>2, <1>4, <1>5

LEMMA AppendStays ==
    ASSUME NEW E \in Events, NEW F \in Events, NEW h \in Heads, NEW g \in Heads,
           NEW e, E = Append(F, e), e \in Event, g.seq = h.seq + 1
    PROVE  /\ Broken(F, h) => Broken(E, g)
           /\ \A S \in Events : Broken(S, h) => Broken(S, g)
           /\ \A S \in Events : Begins(S, F) => Begins(S, E)
<1>1. /\ Len(E) = Len(F) + 1 /\ Len(F) \in Nat /\ h.seq \in Nat
      /\ \A i \in 1..Len(F) : E[i] = F[i]
      /\ \A S \in Events : Len(S) \in Nat
  BY DEF Events, Heads, Event
<1>2. Broken(F, h) => Broken(E, g)
  BY <1>1 DEF Broken
<1>3. ASSUME NEW S \in Events, Broken(S, h) PROVE Broken(S, g)
  BY <1>1, <1>3 DEF Broken
<1>4. ASSUME NEW S \in Events, Begins(S, F) PROVE Begins(S, E)
  BY <1>1, <1>4 DEF Begins
<1> QED BY <1>2, <1>3, <1>4

(* What was read is all there is, or the chain has grown. *)
LEMMA BeginsVerifies ==
    ASSUME NEW E \in Events, NEW F \in Events, NEW h \in Heads, Begins(E, F), Verifies(F, h)
    PROVE  Verifies(E, h) \/ Len(E) < h.seq
<1>1. Len(E) \in Nat /\ Len(F) \in Nat /\ h.seq = Len(F) /\ Len(E) <= Len(F)
  BY DEF Events, Begins, Verifies
<1>2. CASE Len(E) = Len(F)
  <2>1. E = F
    BY <1>2, SeqEqual DEF Begins, Events
  <2> QED BY <2>1
<1> QED BY <1>1, <1>2

LEMMA VerifierStep ==
    ASSUME TypeOK, TypeOK', LockInv, ChainVerifies, VerifierInv, [Next]_vars
    PROVE  VerifierInv'
<1>0. /\ events \in Events /\ events' \in Events /\ head \in Heads /\ head' \in Heads
      /\ verifier.saw \in Events
      /\ verifier.pc \in {"idle", "head", "done"}
  BY DEF TypeOK, ChainTypeOK, VerifierTypeOK
<1>1. ASSUME UNCHANGED <<events, head, verifier, damaged>> PROVE VerifierInv'
  BY <1>1 DEF VerifierInv, DamageReported, AlarmMeansMoved, Broken, Begins
<1>2. ASSUME NEW t \in Txs, Commit(t) PROVE VerifierInv'
  <2>1. PICK e \in Event :
          events' = Append(events, e) /\ head' = [hash |-> e.hash, seq |-> head.seq + 1]
    BY <1>2, CommitAppends DEF Event
  <2>2. UNCHANGED <<verifier, damaged>> /\ head'.seq = head.seq + 1
    BY <1>2, <2>1 DEF Commit
  <2>3. /\ Broken(events, head) => Broken(events', head')
        /\ Broken(verifier.saw, head) => Broken(verifier.saw, head')
        /\ Begins(verifier.saw, events) => Begins(verifier.saw, events')
    <3> SUFFICES ASSUME NEW E \in Events, NEW g \in Heads, E = events', g = head'
                 PROVE  /\ Broken(events, head) => Broken(E, g)
                        /\ Broken(verifier.saw, head) => Broken(verifier.saw, g)
                        /\ Begins(verifier.saw, events) => Begins(verifier.saw, E)
      BY <1>0, <2>2
    <3>1. E = Append(events, e) /\ g.seq = head.seq + 1
      BY <2>1, <2>2
    <3> QED BY <1>0, <3>1, AppendStays
  <2>4. AlarmMeansMoved'
    <3>1. Len(verifier.saw) \in Nat /\ head.seq \in Nat
      BY <1>0 DEF Events, Heads
    <3> QED BY <2>2, <3>1 DEF VerifierInv, AlarmMeansMoved
  <2>5. /\ verifier'.pc = verifier.pc /\ verifier'.saw = verifier.saw
        /\ verifier'.alarm = verifier.alarm /\ verifier'.damaged = verifier.damaged
        /\ damaged' = damaged
    BY <2>2
  <2> QED BY <2>3, <2>4, <2>5 DEF VerifierInv, DamageReported
<1>3. ASSUME Damage PROVE VerifierInv'
  <2>1. damaged' = TRUE /\ ~damaged /\ verifier' = verifier
    BY <1>3 DEF Damage
  <2>2. Broken(events', head')
    BY <1>3, DamageBreaks
  <2>3. ~verifier.damaged
    BY <2>1 DEF VerifierInv
  <2> QED BY <2>1, <2>2, <2>3 DEF VerifierInv, DamageReported, AlarmMeansMoved
<1>4. ASSUME ReadEvents PROVE VerifierInv'
  <2>1. /\ verifier'.pc = "head" /\ verifier'.saw = events /\ verifier'.alarm = FALSE
        /\ verifier'.damaged = damaged /\ UNCHANGED <<events, head, damaged>>
    BY <1>4 DEF ReadEvents, records
  <2>2. Begins(events, events)
    BY <1>0 DEF Begins, Events
  <2>3. /\ Broken(events, head) => Broken(verifier'.saw, head')
        /\ Begins(verifier'.saw, events')
        /\ Broken(events, head) => Broken(events', head')
    BY <2>1, <2>2
  <2> QED BY <2>1, <2>3 DEF VerifierInv, DamageReported, AlarmMeansMoved
<1>5. ASSUME ReadHead PROVE VerifierInv'
  <2>1. /\ verifier.pc = "head" /\ UNCHANGED <<events, head, damaged>>
        /\ verifier'.pc = "done" /\ verifier'.saw = verifier.saw
        /\ verifier'.alarm = ~Verifies(verifier.saw, head)
        /\ verifier'.damaged = verifier.damaged
    BY <1>5 DEF ReadHead, records, TypeOK, VerifierTypeOK
  <2>2. verifier.damaged => ~Verifies(verifier.saw, head)
    BY <1>0, <2>1, BrokenFails DEF VerifierInv
  <2>3. ~damaged /\ ~Verifies(verifier.saw, head) => Len(verifier.saw) < head.seq
    BY <1>0, <2>1, BeginsVerifies DEF VerifierInv, ChainVerifies
  <2>4. Broken(events, head) => Broken(events', head')
    BY <2>1
  <2> QED BY <2>1, <2>2, <2>3, <2>4 DEF VerifierInv, DamageReported, AlarmMeansMoved
<1>6. ASSUME NEW t \in Txs,
             Begin(t) \/ TakeRow(t) \/ TakeParent(t) \/ TakeHead(t) \/ Abort(t)
      PROVE  VerifierInv'
  BY <1>1, <1>6 DEF Begin, TakeRow, TakeParent, TakeHead, Abort, records
<1>7. ASSUME NEW x \in Executors, LookUp(x) \/ Claim(x) \/ Run(x) PROVE VerifierInv'
  BY <1>1, <1>7 DEF LookUp, Claim, Run, records
<1>8. CASE UNCHANGED vars
  BY <1>1, <1>8 DEF vars
<1> QED BY <1>2, <1>3, <1>4, <1>5, <1>6, <1>7, <1>8 DEF Next

LEMMA VerifierInvariant == Spec => []VerifierInv
<1>1. Init => VerifierInv
  BY DEF Init, VerifierInv, DamageReported, AlarmMeansMoved
<1>2. TypeOK /\ TypeOK' /\ LockInv /\ ChainVerifies /\ VerifierInv /\ [Next]_vars
        => VerifierInv'
  BY VerifierStep
<1> QED BY <1>1, <1>2, TypeCorrect, LocksExclude, ChainHolds, PTL DEF Spec

(* A row of audit_events that was lost or altered before a verification began
   is reported by it, however many events were appended in between and while
   it reads: no append repairs a chain. *)
THEOREM DamageIsReported == Spec => []DamageReported
<1>1. VerifierInv => DamageReported
  BY DEF VerifierInv
<1> QED BY <1>1, VerifierInvariant, PTL

(* The verifier's two queries see two snapshots; if nothing was damaged, the
   only thing it can mistake for damage is a chain that grew between them. *)
THEOREM AlarmsExplained == Spec => []AlarmMeansMoved
<1>1. VerifierInv => AlarmMeansMoved
  BY DEF VerifierInv
<1> QED BY <1>1, VerifierInvariant, PTL
=============================================================================
