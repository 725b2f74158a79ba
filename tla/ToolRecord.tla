------------------------------ MODULE ToolRecord ------------------------------
(***************************************************************************)
(* The v1 control plane's records of a tool call: its row and status, the  *)
(* hash chain of audit events, the verifier that reads the chain back, and *)
(* the executor that runs what a stored decision allows.                   *)
(*                                                                         *)
(*   tool-call-repository.ts   saveDecision                                *)
(*   tool-result-service.ts    recordToolResult                            *)
(*   sql/migrations/007        the transition trigger on tool_calls        *)
(*   audit-chain-verifier.ts   verifyTenantAuditChain                      *)
(*   decision-execution.ts, docker-executor.ts, decision-nonce-store.ts    *)
(*                                                                         *)
(* All calls are of one tenant, one agent and one session.  A transaction  *)
(* is followed from lock to lock, since that is where another one can come *)
(* between; its writes become visible together when it commits.            *)
(***************************************************************************)
EXTENDS Naturals, Sequences

CONSTANTS
    Calls,          \* tool calls, by request id
    NoCall,
    Txs,            \* connections that run saveDecision or recordToolResult
    Executors,      \* running calls of execute
    Signing,        \* how decision tokens are signed: "hmac" or "ed25519"
    Auditing,       \* the verifier is run, and audit_events may be tampered with
    Outcomes,       \* bound: decisions taken and results reported in this model
    MaxEvents, MaxFaults    \* bounds of the model

ASSUME ConstantsAssumption ==
    /\ NoCall \notin Calls
    /\ Signing \in {"hmac", "ed25519"} /\ Auditing \in BOOLEAN
    /\ MaxEvents \in Nat /\ MaxFaults \in Nat

VARIABLES
    call,       \* tool_calls and policy_decisions: status, and what was decided
    events,     \* audit_events of the tenant, by seq
    head,       \* audit_chain_state
    tx,         \* each connection: its transaction and how far it is
    verifier,   \* the verifier: what it has read, and what it concluded
    spent,      \* nonces of decision tokens that the replay guard holds
    exec,       \* each running call of execute
    ran,        \* how many containers were started for each call
    damaged,    \* a row of audit_events was lost or altered behind the program
    faults

records == <<call, events, head>>
vars == <<call, events, head, tx, verifier, spent, exec, ran, damaged, faults>>

Verdicts == {"allow", "dry", "deny", "pending"}
Results  == {"executed", "failed", "timeout", "blocked"}
Statuses == {"none", "decision_created", "approval_pending", "denied"} \cup Results

(* The status saveDecision gives the row.  A dry run that would be allowed is
   stored as an allow, with no token. *)
StatusOf(verdict) ==
    CASE verdict = "deny" -> "denied"
      [] verdict = "pending" -> "approval_pending"
      [] OTHER -> "decision_created"

(* The trigger of migration 007, for the statuses this code writes. *)
Legal(from, to) ==
    \/ from = "decision_created" /\ to = "blocked"
    \/ from \in {"blocked", "executed", "failed", "timeout"} /\ to = from

(* An event hash stands for everything that went into it. *)
Genesis == <<>>
Hash(prev, body) == Append(prev, body)

NoTx == [kind |-> "none", call |-> NoCall, says |-> "none", token |-> FALSE,
         at |-> 1, seen |-> [hash |-> Genesis, seq |-> 0]]

Fresh(c, says, token) ==
    [kind |-> IF says \in Verdicts THEN "save" ELSE "result", call |-> c, says |-> says,
     token |-> token, at |-> 1, seen |-> NoTx.seen]

Bodies == Calls \X (Verdicts \cup Results)
Heads  == [hash : Seq(Bodies), seq : Nat]
Events == Seq([body : Bodies, prev : Seq(Bodies), hash : Seq(Bodies)])
TxRecord == [kind : {"none", "save", "result"}, call : Calls \cup {NoCall},
             says : Verdicts \cup Results \cup {"none"}, token : BOOLEAN,
             at : 1..5, seen : Heads]

TxTypeOK ==
    /\ tx \in [Txs -> TxRecord]
    /\ \A t \in Txs :
         /\ tx[t].kind = "none" => tx[t] = NoTx
         /\ tx[t].kind # "none" => tx[t].call \in Calls
         /\ tx[t].kind = "save" => tx[t].says \in Verdicts
         /\ tx[t].kind = "result" => tx[t].says \in Results

CallTypeOK == call \in [Calls -> [status : Statuses, verdict : Verdicts \cup {"none"}]]

ChainTypeOK == events \in Events /\ head \in Heads

VerifierTypeOK ==
    verifier \in [pc : {"idle", "head", "done"}, saw : Events,
                  alarm : BOOLEAN, damaged : BOOLEAN]

ExecTypeOK ==
    /\ exec \in [Executors -> [pc : {"idle", "claim", "run"}, call : Calls \cup {NoCall}]]
    /\ \A x \in Executors : exec[x].pc # "idle" => exec[x].call \in Calls
    /\ spent \subseteq Calls
    /\ ran \in [Calls -> Nat]

TypeOK ==
    /\ CallTypeOK /\ ChainTypeOK /\ TxTypeOK /\ VerifierTypeOK /\ ExecTypeOK
    /\ damaged \in BOOLEAN /\ faults \in 0..MaxFaults

Init ==
    /\ call = [c \in Calls |-> [status |-> "none", verdict |-> "none"]]
    /\ events = <<>> /\ head = [hash |-> Genesis, seq |-> 0]
    /\ tx = [t \in Txs |-> NoTx]
    /\ verifier = [pc |-> "idle", saw |-> <<>>, alarm |-> FALSE, damaged |-> FALSE]
    /\ spent = {}
    /\ exec = [x \in Executors |-> [pc |-> "idle", call |-> NoCall]]
    /\ ran = [c \in Calls |-> 0]
    /\ damaged = FALSE /\ faults = 0

Fault == faults < MaxFaults /\ faults' = faults + 1

-----------------------------------------------------------------------------
(* Locks.  The rows a transaction locks, in order; it holds those it is past.
   saveDecision inserts the call (unique on the request id), whose foreign keys
   share-lock the session and the agent; recordToolResult selects the call,
   its agent and its session FOR UPDATE; both then lock the chain's head.  An
   INSERT waits for another of the same request id, but a SELECT does not wait
   for a row that is not yet committed: it does not see it. *)

Path(kind) == IF kind = "save" THEN <<"row", "session", "agent", "chain">>
                               ELSE <<"row", "agent", "session", "chain">>
Lock(t, i) == IF i = 1 THEN <<tx[t].kind, tx[t].call>> ELSE <<Path(tx[t].kind)[i], NoCall>>
Held(t)    == {Lock(t, i) : i \in 1..(tx[t].at - 1)}
Shares(t, r) == tx[t].kind = "save" /\ r[1] \in {"session", "agent"}

Blocks(u, t) ==
    /\ u # t /\ tx[t].kind # "none" /\ tx[t].at <= 4
    /\ Lock(t, tx[t].at) \in Held(u)
    /\ ~(Shares(t, Lock(t, tx[t].at)) /\ Shares(u, Lock(t, tx[t].at)))

Waiting(t) == \E u \in Txs : Blocks(u, t)

(* Every one of these transactions waits for another of them. *)
Deadlocked(t) ==
    \E W \in SUBSET Txs : t \in W /\ \A a \in W : \E b \in W : Blocks(b, a)

Forward(t)  == tx' = [tx EXCEPT ![t].at = @ + 1]
(* Faulty: the connection keeps the locks of the transaction it gave up. *)
RollbackUnreset(t) == tx' = [tx EXCEPT ![t].kind = "none"]

Rollback(t) == tx' = [tx EXCEPT ![t] = NoTx]

-----------------------------------------------------------------------------
(* saveDecision and recordToolResult *)

(* A decision is taken for a call, or a result of it is reported, with the
   call's genuine token or with none. *)
Begin(t) ==
    /\ tx[t].kind = "none" /\ head.seq < MaxEvents
    /\ \E c \in Calls, says \in Outcomes \cap (Verdicts \cup Results), token \in BOOLEAN :
         /\ token => says \in Results /\ call[c].verdict = "allow"
         /\ tx' = [tx EXCEPT ![t] = Fresh(c, says, token)]
    /\ UNCHANGED <<records, verifier, spent, exec, ran, damaged, faults>>

(* Faulty: a decision for a known request id overwrites the first one. *)
TakeRowTwice(t) ==
    /\ tx[t].kind # "none" /\ tx[t].at = 1 /\ ~Waiting(t)
    /\ IF tx[t].kind = "save" \/ call[tx[t].call].status # "none"
         THEN Forward(t) ELSE Rollback(t)
    /\ UNCHANGED <<records, verifier, spent, exec, ran, damaged, faults>>

(* The INSERT finds no row of this request id; the SELECT finds one. *)
TakeRow(t) ==
    /\ tx[t].kind # "none" /\ tx[t].at = 1 /\ ~Waiting(t)
    /\ IF (tx[t].kind = "save") = (call[tx[t].call].status = "none")
         THEN Forward(t) ELSE Rollback(t)
    /\ UNCHANGED <<records, verifier, spent, exec, ran, damaged, faults>>

(* What a report must show: a token, which is verified as an HMAC, unless it
   says that nothing was run. *)
Vouched(t) == tx[t].says = "blocked" \/ (tx[t].token /\ Signing = "hmac")

(* Faulty: a refused report leaves its transaction open. *)
TakeParentOpen(t) ==
    LET accepted == Vouched(t) /\ Legal(call[tx[t].call].status, tx[t].says) IN
    /\ tx[t].at \in {2, 3} /\ ~Waiting(t)
    /\ IF tx[t].kind = "save" \/ tx[t].at = 2 \/ accepted
         THEN Forward(t) ELSE UNCHANGED tx
    /\ UNCHANGED <<records, verifier, spent, exec, ran, damaged, faults>>

(* With its last row locked, a report is checked and the status written, which
   the trigger may refuse. *)
TakeParent(t) ==
    LET accepted == Vouched(t) /\ Legal(call[tx[t].call].status, tx[t].says) IN
    /\ tx[t].at \in {2, 3} /\ ~Waiting(t)
    /\ IF tx[t].kind = "save" \/ tx[t].at = 2 \/ accepted
         THEN Forward(t) ELSE Rollback(t)
    /\ UNCHANGED <<records, verifier, spent, exec, ran, damaged, faults>>

(* Faulty: the head is read without FOR UPDATE. *)
TakeHeadUnlocked(t) ==
    /\ tx[t].at = 4
    /\ tx' = [tx EXCEPT ![t].at = 5, ![t].seen = head]
    /\ UNCHANGED <<records, verifier, spent, exec, ran, damaged, faults>>

(* SELECT ... FROM audit_chain_state FOR UPDATE *)
TakeHead(t) ==
    /\ tx[t].at = 4 /\ ~Waiting(t)
    /\ tx' = [tx EXCEPT ![t].at = 5, ![t].seen = head]
    /\ UNCHANGED <<records, verifier, spent, exec, ran, damaged, faults>>

(* The event and the new head are written and the transaction commits. *)
Commit(t) ==
    LET c    == tx[t].call
        body == <<c, tx[t].says>>
        hash == Hash(tx[t].seen.hash, body)
    IN
    /\ tx[t].at = 5
    /\ events' = Append(events, [body |-> body, prev |-> tx[t].seen.hash, hash |-> hash])
    /\ head' = [hash |-> hash, seq |-> tx[t].seen.seq + 1]
    /\ call' = [call EXCEPT ![c] =
         IF tx[t].kind = "save"
           THEN [status |-> StatusOf(tx[t].says), verdict |-> tx[t].says]
           ELSE [@ EXCEPT !.status = tx[t].says]]
    /\ Rollback(t)
    /\ UNCHANGED <<verifier, spent, exec, ran, damaged, faults>>

(* The database ends one transaction of a deadlock; or a statement fails, or
   the connection or the process is lost. *)
Abort(t) ==
    /\ tx[t].kind # "none" /\ Rollback(t)
    /\ IF Deadlocked(t) THEN UNCHANGED faults ELSE Fault
    /\ UNCHANGED <<records, verifier, spent, exec, ran, damaged>>

-----------------------------------------------------------------------------
(* verifyTenantAuditChain: two queries, each with a snapshot of its own *)

(* Faulty: the hash of an event is trusted, not computed again. *)
LinkedOnly(E) ==
    \A i \in 1..Len(E) : E[i].prev = IF i = 1 THEN Genesis ELSE E[i - 1].hash

Linked(E) ==
    \A i \in 1..Len(E) :
        /\ E[i].prev = IF i = 1 THEN Genesis ELSE E[i - 1].hash
        /\ E[i].hash = Hash(E[i].prev, E[i].body)

(* Faulty: a chain with no event yet does not verify. *)
VerifiesStarted(E, h) ==
    E # <<>> /\ Linked(E) /\ h.seq = Len(E) /\ h.hash = E[Len(E)].hash

Verifies(E, h) ==
    /\ Linked(E)
    /\ h.seq = Len(E)
    /\ h.hash = IF E = <<>> THEN Genesis ELSE E[Len(E)].hash

ReadEvents ==
    /\ Auditing /\ verifier.pc # "head"
    /\ verifier' = [pc |-> "head", saw |-> events, alarm |-> FALSE, damaged |-> damaged]
    /\ UNCHANGED <<records, tx, spent, exec, ran, damaged, faults>>

ReadHead ==
    /\ verifier.pc = "head"
    /\ verifier' = [verifier EXCEPT !.pc = "done", !.alarm = ~Verifies(verifier.saw, head)]
    /\ UNCHANGED <<records, tx, spent, exec, ran, damaged, faults>>

(* One row of audit_events is lost, or its body altered, by something that is
   not this program. *)
Damage ==
    /\ Auditing /\ ~damaged /\ damaged' = TRUE
    /\ \E i \in 1..Len(events) :
         \/ events' = SubSeq(events, 1, i - 1) \o SubSeq(events, i + 1, Len(events))
         \/ \E b \in Bodies \ {events[i].body} :
              b[2] \in Outcomes /\ events' = [events EXCEPT ![i].body = b]
    /\ UNCHANGED <<call, head, tx, verifier, spent, exec, ran, faults>>

-----------------------------------------------------------------------------
(* execute and executeDockerCommand *)

(* The stored decision must be an enforced allow with an ed25519 token. *)
LookUp(x) ==
    /\ exec[x].pc = "idle"
    /\ \E c \in Calls :
         /\ call[c].verdict = "allow" /\ Signing = "ed25519"
         /\ exec' = [exec EXCEPT ![x] = [pc |-> "claim", call |-> c]]
    /\ UNCHANGED <<records, tx, verifier, spent, ran, damaged, faults>>

Leave(x) == exec' = [exec EXCEPT ![x].pc = "idle"]

(* Faulty: a replay guard that cannot answer lets the call through. *)
ClaimFailsOpen(x) ==
    LET c == exec[x].call IN
    /\ exec[x].pc = "claim"
    /\ \/ /\ c \notin spent /\ spent' = spent \cup {c}
          /\ exec' = [exec EXCEPT ![x].pc = "run"] /\ UNCHANGED faults
       \/ Leave(x) /\ UNCHANGED <<spent, faults>>
       \/ exec' = [exec EXCEPT ![x].pc = "run"] /\ Fault /\ UNCHANGED spent
    /\ UNCHANGED <<records, tx, verifier, ran, damaged>>

(* The claims may not match or may have expired; then the nonce is claimed,
   and a guard that cannot answer refuses. *)
Claim(x) ==
    LET c == exec[x].call IN
    /\ exec[x].pc = "claim"
    /\ \/ /\ c \notin spent /\ spent' = spent \cup {c}
          /\ exec' = [exec EXCEPT ![x].pc = "run"] /\ UNCHANGED faults
       \/ Leave(x) /\ UNCHANGED <<spent, faults>>
       \/ Leave(x) /\ Fault /\ spent' \in {spent, spent \cup {c}}
    /\ UNCHANGED <<records, tx, verifier, ran, damaged>>

(* The container is started, or sandbox, network or image are refused, or the
   process dies first. *)
Run(x) ==
    /\ exec[x].pc = "run" /\ Leave(x)
    /\ ran' \in {ran, [ran EXCEPT ![exec[x].call] = @ + 1]}
    /\ UNCHANGED <<records, tx, verifier, spent, damaged, faults>>

Proceed(t) == TakeRow(t) \/ TakeParent(t) \/ TakeHead(t) \/ Commit(t)
                \/ (Deadlocked(t) /\ Abort(t))

Next ==
    \/ \E t \in Txs : Begin(t) \/ TakeRow(t) \/ TakeParent(t) \/ TakeHead(t)
                       \/ Commit(t) \/ Abort(t)
    \/ ReadEvents \/ ReadHead \/ Damage
    \/ \E x \in Executors : LookUp(x) \/ Claim(x) \/ Run(x)

Spec == Init /\ [][Next]_vars

(* Waiting for a lock is served in order, a statement settles, and deadlocks
   are detected; nothing is assumed about callers. *)
FairSpec == Spec /\ \A t \in Txs : SF_vars(Proceed(t))

-----------------------------------------------------------------------------
(* Properties *)

(* The audit log is the history of the calls: every change of a call and its
   audit event become visible together, whatever transactions run at once. *)
History == INSTANCE AuditLog WITH log <- head.hash,
                                  status <- [c \in Calls |-> call[c].status]
ImplementsAuditLog == History!Spec

(* Whoever is about to append to the chain has hashed the event over the head
   that the chain still has. *)
HeadHeld == \A t \in Txs : tx[t].at = 5 => tx[t].seen = head

(* Concurrent appends leave one chain that verifies. *)
ChainVerifies == ~damaged => Verifies(events, head)

(* Damage done before a verification began is reported, however many events
   were appended after it. *)
DamageReported == verifier.pc = "done" /\ verifier.damaged => verifier.alarm

(* Without damage, the verifier reports only a chain that grew as it read. *)
AlarmMeansMoved ==
    verifier.alarm /\ ~damaged => Len(verifier.saw) < head.seq

(* A decision token starts at most one container, and only an enforced allow
   starts any, whatever executors race for it. *)
RunsOnce == \A c \in Calls : ran[c] <= (IF call[c].verdict = "allow" THEN 1 ELSE 0)

(* No transaction waits for ever. *)
TxsEnd == \A t \in Txs : tx[t].kind # "none" ~> tx[t].kind = "none"

(* "before recording outcome evidence": a report that shows the genuine token
   of an allowed call, and meets no fault, is recorded. *)
VouchedIsRecorded ==
    [][\A t \in Txs :
         tx[t].token /\ Vouched(t) /\ tx'[t].kind = "none" /\ faults' = faults
             => call'[tx[t].call].status = tx[t].says]_vars

(* Why the record is consistent: whoever is past a row is alone with it, so
   what a transaction found in the row still holds when it commits; whoever is
   past the chain's head is alone with it too. *)
Past(t, i) == tx[t].at > i
Found(r) ==
    LET status == call[r.call].status IN
    /\ r.kind = "save" => status = "none"
    /\ r.kind = "result" =>
         /\ status # "none"
         /\ r.at > 3 => Legal(status, r.says)
RowsOwned ==
    \A t, u \in Txs :
        (/\ Past(t, 1) /\ Past(u, 1)
         /\ tx[t].kind = tx[u].kind /\ tx[t].call = tx[u].call) => t = u
HeadOwned == \A t, u \in Txs : Past(t, 4) /\ Past(u, 4) => t = u
LockInv ==
    /\ \A t \in Txs : Past(t, 1) => Found(tx[t])
    /\ RowsOwned /\ HeadOwned /\ HeadHeld

(* Why a token runs once: it is spent before anything runs, by one executor,
   for a decision that is never taken again. *)
ExecInv ==
    /\ \A c \in Calls :
         /\ call[c].status = "none" => call[c].verdict = "none"
         /\ ran[c] > 0 => c \in spent /\ call[c].verdict = "allow"
         /\ ran[c] <= 1
    /\ \A x \in Executors : exec[x].pc # "idle" => call[exec[x].call].verdict = "allow"
    /\ \A x \in Executors : exec[x].pc = "run" =>
         exec[x].call \in spent /\ ran[exec[x].call] = 0
    /\ \A x, y \in Executors :
         (/\ exec[x].pc = "run" /\ exec[y].pc = "run"
          /\ exec[x].call = exec[y].call) => x = y
=============================================================================
