---------------------------- MODULE EffectGateway ----------------------------
(***************************************************************************)
(* The v2 effect gateway: what happens between an agent presenting a       *)
(* signed permit and an effect existing in the outside world.              *)
(*                                                                         *)
(*   v2/effect-gateway.ts  EffectGateway.perform                           *)
(*   v2/effect-permit.ts   verifyEffectPermit, NonceStore                  *)
(*   v2/replay-store.ts    PostgreSQLReplayStore                           *)
(*   v2/effect-commit.ts   PostgreSQLEffectJournal, recoverUnfinished      *)
(*                                                                         *)
(* A slot is one running call of perform; its pc names the await it is     *)
(* suspended on.  Several slots may live in one gateway process and a      *)
(* crash of the process ends them all.  The replay guard, the evidence log *)
(* and the effect journal are tables shared by every process.  A database  *)
(* call may fail, and a failed call may nevertheless have been applied.    *)
(***************************************************************************)
EXTENDS Naturals, FiniteSets

CONSTANTS
    Permits,        \* permits issued to agents of one tenant
    NoPermit,       \* what an idle slot carries
    Gateways,       \* gateway processes (replicas) sharing one database
    Slots,          \* concurrent calls of perform
    HomeOf,         \* the process each slot runs in
    Nonces,         \* nonces carried by permits
    NonceOf,        \* the nonce of each permit
    Issued,         \* permit.issued_at
    Expires,        \* permit.expires_at
    DurableReplay,  \* options.replayStore is configured
    Journaling,     \* options.journal is configured
    Retention,      \* DEFAULT_REPLAY_RETENTION_MS, in ticks
    Skew,           \* how far two clocks of the deployment may disagree
    MaxStall,       \* longest pause of a call between verify and consume
    ExecutorMayThrow,
    MaxClock, MaxCrashes, MaxOutages    \* bounds of the model

ASSUME ConstantsAssumption ==
    /\ NoPermit \notin Permits
    /\ HomeOf \in [Slots -> Gateways]
    /\ NonceOf \in [Permits -> Nonces]
    /\ Issued \in [Permits -> Nat] /\ Expires \in [Permits -> Nat]
    /\ DurableReplay \in BOOLEAN /\ Journaling \in BOOLEAN
    /\ ExecutorMayThrow \in BOOLEAN
    /\ Retention \in Nat /\ Skew \in Nat /\ MaxStall \in Nat
    /\ MaxClock \in Nat /\ MaxCrashes \in Nat /\ MaxOutages \in Nat

VARIABLES
    clock,      \* the database's clock
    gw,         \* each process: its mode and the progress of its recovery
    call,       \* each slot: the await it is suspended on, and its permit
    nonces,     \* each process: NonceStore, its in-memory consumed nonces
    guard,      \* table v2_replay_guard
    evidence,   \* table v2_evidence, as the set of facts it holds
    journal,    \* table v2_effect_journal: state
    cause,      \* table v2_effect_journal: error
    ran,        \* how many times each permit's effect really happened
    answered,   \* permits for which some call returned performed: true
    receipts,   \* recovery receipts handed to onRecovered
    crashes, outages

tables == <<guard, evidence, journal, cause>>
world  == <<ran, answered, receipts>>
vars   == <<clock, gw, call, nonces, guard, evidence, journal, cause, ran,
            answered, receipts, crashes, outages>>

Unfinished == {"prepared", "executing"}
Terminal   == {"committed", "failed", "uncertain"}
RowStates  == {"absent"} \cup Unfinished \cup Terminal
NoError    == "none"
Causes     == {NoError, "executor"} \cup Unfinished

EvidenceTypes == {"security_violation", "effect_permit", "execution_ok",
                  "execution_failed", "tool_result_commitment"}

(* The awaits of perform, in the order the code reaches them. *)
AfterConsume == {"authorize", "prepare", "start", "execute"}
AfterEffect  == {"performed", "witness", "commit", "result"}
AfterRefusal == {"unwitness", "fail"}
PCs == {"idle", "violation", "consume"} \cup AfterConsume
          \cup AfterEffect \cup AfterRefusal

Idle(s) == call[s].pc = "idle"
NoCall  == [pc |-> "idle", permit |-> NoPermit, began |-> 0]

CallTypeOK ==
    /\ call \in [Slots -> [pc : PCs, permit : Permits \cup {NoPermit},
                           began : 0..MaxClock]]
    /\ \A s \in Slots : call[s].permit = NoPermit => Idle(s)

TypeOK ==
    /\ clock \in 0..MaxClock
    /\ gw \in [Gateways -> [mode   : {"down", "recovering", "up"},
                            todo   : SUBSET (Permits \X Unfinished),
                            signed : SUBSET Permits]]
    /\ CallTypeOK
    /\ nonces \in [Gateways -> SUBSET Nonces]
    /\ guard \in SUBSET Permits
    /\ evidence \in SUBSET (EvidenceTypes \X Permits)
    /\ journal \in [Permits -> RowStates]
    /\ cause \in [Permits -> Causes]
    /\ ran \in [Permits -> Nat]
    /\ answered \in SUBSET Permits
    /\ receipts \in [Permits -> Nat]
    /\ crashes \in 0..MaxCrashes
    /\ outages \in 0..MaxOutages

Init ==
    /\ clock = 0
    /\ gw = [g \in Gateways |-> [mode |-> "down", todo |-> {}, signed |-> {}]]
    /\ call = [s \in Slots |-> NoCall]
    /\ nonces = [g \in Gateways |-> {}]
    /\ guard = {} /\ evidence = {}
    /\ journal = [p \in Permits |-> "absent"]
    /\ cause = [p \in Permits |-> NoError]
    /\ ran = [p \in Permits |-> 0]
    /\ answered = {}
    /\ receipts = [p \in Permits |-> 0]
    /\ crashes = 0 /\ outages = 0

-----------------------------------------------------------------------------
(* Helpers *)

Goto(s, pc) == call' = [call EXCEPT ![s].pc = pc]
(* Faulty: a return that forgets to leave the await. *)
ReturnUnreset(s) == call' = [call EXCEPT ![s].permit = NoPermit]
Return(s)   == call' = [call EXCEPT ![s] = NoCall]
Call(pc, p) == [pc |-> pc, permit |-> p, began |-> 0]

Outage == outages < MaxOutages /\ outages' = outages + 1

(* EffectGateway#record: a failed append may still have committed. *)
Record(type, p, ok) ==
    \/ /\ ok
       /\ evidence' = evidence \cup {<<type, p>>}
       /\ UNCHANGED outages
    \/ /\ ~ok /\ Outage
       /\ evidence' \in {evidence, evidence \cup {<<type, p>>}}

LegalTransitions == [prepared  |-> {"executing", "failed", "uncertain"},
                     executing |-> {"committed", "failed", "uncertain"}]

(* Faulty: a verdict may be overturned. *)
CanTransitionAnyhow(from, to) == TRUE

CanTransition(from, to) ==
    from = to \/ (from \in Unfinished /\ to \in LegalTransitions[from])

(* describeRefusal, the UPDATE's guards and the trigger agree on this. *)
Admits(p, to, error) ==
    /\ journal[p] # "absent"
    /\ CanTransition(journal[p], to)
    /\ journal[p] \in Terminal /\ error # NoError => error = cause[p]

WriteRow(p, to, error) ==
    /\ journal' = [journal EXCEPT ![p] = to]
    /\ cause' = [cause EXCEPT ![p] = IF error = NoError THEN @ ELSE error]

(* PostgreSQLEffectJournal.transition.  read() turns a failed SELECT into
   "no such row", so an outage can also come back as a rejection. *)
Transition(p, to, error, reply) ==
    \/ /\ reply = "recorded" /\ Admits(p, to, error)
       /\ WriteRow(p, to, error) /\ UNCHANGED outages
    \/ /\ reply = "rejected" /\ ~Admits(p, to, error)
       /\ UNCHANGED <<journal, cause, outages>>
    \/ /\ reply = "rejected" /\ Outage
       /\ UNCHANGED <<journal, cause>>
    \/ /\ reply = "unavailable" /\ Outage
       /\ \/ UNCHANGED <<journal, cause>>
          \/ Admits(p, to, error) /\ WriteRow(p, to, error)

Replies == {"recorded", "rejected", "unavailable"}

(* Faulty: no unique index on the nonce. *)
ConsumedByPermit(p) == p \in guard

(* A row of the replay guard with this nonce or this permit id. *)
Consumed(p) == \E q \in guard : q = p \/ NonceOf[q] = NonceOf[p]

-----------------------------------------------------------------------------
(* perform *)

(* Where the call goes once first use is claimed: the executor is looked up
   and the information-flow check passes, the check denies, or the tool has
   no executor.  Both outcomes depend only on the caller's arguments. *)
Claimed(s, p) ==
    call' \in {[call EXCEPT ![s] = c] :
                  c \in {Call("authorize", p), Call("violation", p), NoCall}}

(* verifyEffectPermit runs synchronously at the start of perform.  bound: the
   signature verifies, and tenant, principal, execution, action digest and
   policy digest are those of the call; unrevoked likewise. *)
Begin(s) ==
    LET g == HomeOf[s] IN
    /\ Idle(s) /\ gw[g].mode = "up"
    /\ \E p \in Permits, bound \in BOOLEAN, now \in 0..(MaxClock + Skew) :
         /\ now <= clock + Skew /\ clock <= now + Skew
         /\ LET accepted == /\ bound
                            /\ Issued[p] <= now /\ now < Expires[p]
                            /\ ~DurableReplay => NonceOf[p] \notin nonces[g]
            IN \/ /\ ~accepted
                  /\ call' = [call EXCEPT ![s] = Call("violation", p)]
                  /\ UNCHANGED nonces
               \/ /\ accepted /\ DurableReplay
                  /\ call' = [call EXCEPT ![s] =
                       [pc |-> "consume", permit |-> p, began |-> clock]]
                  /\ UNCHANGED nonces
               \/ /\ accepted /\ ~DurableReplay
                  /\ nonces' = [nonces EXCEPT ![g] = @ \cup {NonceOf[p]}]
                  /\ Claimed(s, p)
    /\ UNCHANGED <<clock, gw, tables, world, crashes, outages>>

(* A refused or denied call records a security_violation; when even that
   fails, perform throws.  Either way no effect follows. *)
RecordViolation(s) ==
    /\ call[s].pc = "violation"
    /\ \E ok \in BOOLEAN : Record("security_violation", call[s].permit, ok)
    /\ Return(s)
    /\ UNCHANGED <<clock, gw, nonces, guard, journal, cause, world, crashes>>

(* replayStore.consume: INSERT ... ON CONFLICT DO NOTHING. *)
Consume(s) ==
    LET p == call[s].permit IN
    /\ call[s].pc = "consume"
    /\ \/ /\ ~Consumed(p)
          /\ guard' = guard \cup {p}
          /\ Claimed(s, p) /\ UNCHANGED outages
       \/ /\ Consumed(p)
          /\ call' = [call EXCEPT ![s] = Call("violation", p)]
          /\ UNCHANGED <<guard, outages>>
       \/ /\ Outage
          /\ guard' \in {guard, IF Consumed(p) THEN guard ELSE guard \cup {p}}
          /\ call' = [call EXCEPT ![s] = Call("violation", p)]
    /\ UNCHANGED <<clock, gw, nonces, evidence, journal, cause, world, crashes>>

(* The authorization is made durable before anything else may happen. *)
RecordPermit(s) ==
    /\ call[s].pc = "authorize"
    /\ \/ /\ Record("effect_permit", call[s].permit, TRUE)
          /\ Goto(s, IF Journaling THEN "prepare" ELSE "execute")
       \/ Record("effect_permit", call[s].permit, FALSE) /\ Return(s)
    /\ UNCHANGED <<clock, gw, nonces, guard, journal, cause, world, crashes>>

(* Faulty: executing is never announced. *)
PrepareThenExecute(s) ==
    /\ call[s].pc = "prepare" /\ journal[call[s].permit] = "absent"
    /\ journal' = [journal EXCEPT ![call[s].permit] = "prepared"] /\ Goto(s, "execute")
    /\ UNCHANGED <<clock, gw, nonces, guard, evidence, cause, world, crashes, outages>>

(* Faulty: the row of an earlier call is good enough. *)
PrepareOverAny(s) ==
    /\ call[s].pc = "prepare" /\ Goto(s, "start")
    /\ journal' = [journal EXCEPT ![call[s].permit] = "prepared"]
    /\ UNCHANGED <<clock, gw, nonces, guard, evidence, cause, world, crashes, outages>>

(* journal.prepare: INSERT ... ON CONFLICT DO NOTHING on the permit id. *)
Prepare(s) ==
    LET p == call[s].permit
        Insert == journal' = [journal EXCEPT ![p] = "prepared"]
    IN
    /\ call[s].pc = "prepare"
    /\ \/ journal[p] = "absent" /\ Insert /\ Goto(s, "start") /\ UNCHANGED outages
       \/ journal[p] # "absent" /\ Return(s) /\ UNCHANGED <<journal, outages>>
       \/ /\ Outage /\ Return(s)
          /\ UNCHANGED journal \/ (journal[p] = "absent" /\ Insert)
    /\ UNCHANGED <<clock, gw, nonces, guard, evidence, cause, world, crashes>>

Start(s) ==
    /\ call[s].pc = "start"
    /\ \E reply \in Replies :
         /\ Transition(call[s].permit, "executing", NoError, reply)
         /\ IF reply = "recorded" THEN Goto(s, "execute") ELSE Return(s)
    /\ UNCHANGED <<clock, gw, nonces, guard, evidence, world, crashes>>

(* The executor: the effect happens, and later its answer arrives. *)
ExecutorPerforms(s) ==
    /\ call[s].pc = "execute"
    /\ ran' = [ran EXCEPT ![call[s].permit] = @ + 1]
    /\ Goto(s, "performed")
    /\ UNCHANGED <<clock, gw, nonces, tables, answered, receipts, crashes, outages>>

(* Faulty: the row is committed first. *)
CommitBeforeWitness(s) ==
    /\ call[s].pc = "performed" /\ Goto(s, "commit")
    /\ UNCHANGED <<clock, gw, nonces, tables, world, crashes, outages>>

ExecutorAnswers(s) ==
    /\ \/ call[s].pc = "performed" /\ Goto(s, "witness")
       \/ call[s].pc = "execute" /\ Goto(s, "unwitness")
       \/ call[s].pc \in {"execute", "performed"} /\ ExecutorMayThrow /\ Return(s)
    /\ UNCHANGED <<clock, gw, nonces, tables, world, crashes, outages>>

(* The executor answered ok.  A failed append throws out of perform and
   leaves the journal row at executing. *)
RecordExecution(s) ==
    /\ call[s].pc = "witness"
    /\ \/ /\ Record("execution_ok", call[s].permit, TRUE)
          /\ Goto(s, IF Journaling THEN "commit" ELSE "result")
       \/ Record("execution_ok", call[s].permit, FALSE) /\ Return(s)
    /\ UNCHANGED <<clock, gw, nonces, guard, journal, cause, world, crashes>>

(* perform does not look at the outcome of this transition. *)
Commit(s) ==
    /\ call[s].pc = "commit"
    /\ \E reply \in Replies :
         Transition(call[s].permit, "committed", NoError, reply)
    /\ Goto(s, "result")
    /\ UNCHANGED <<clock, gw, nonces, guard, evidence, world, crashes>>

(* Faulty: the last append is not checked. *)
AnswerAnyway(s) ==
    LET p == call[s].permit IN
    /\ call[s].pc = "result" /\ answered' = answered \cup {p} /\ Return(s)
    /\ \E ok \in BOOLEAN : Record("tool_result_commitment", p, ok)
    /\ UNCHANGED <<clock, gw, nonces, guard, journal, cause, ran, receipts, crashes>>

RecordResult(s) ==
    LET p == call[s].permit IN
    /\ call[s].pc = "result"
    /\ \/ Record("tool_result_commitment", p, TRUE) /\ answered' = answered \cup {p}
       \/ Record("tool_result_commitment", p, FALSE) /\ UNCHANGED answered
    /\ Return(s)
    /\ UNCHANGED <<clock, gw, nonces, guard, journal, cause, ran, receipts, crashes>>

(* The executor answered ok: false. *)
RecordFailure(s) ==
    /\ call[s].pc = "unwitness"
    /\ \/ /\ Record("execution_failed", call[s].permit, TRUE)
          /\ IF Journaling THEN Goto(s, "fail") ELSE Return(s)
       \/ Record("execution_failed", call[s].permit, FALSE) /\ Return(s)
    /\ UNCHANGED <<clock, gw, nonces, guard, journal, cause, world, crashes>>

(* Faulty: a refused transition is tried again. *)
FailUntilRecorded(s) ==
    /\ call[s].pc = "fail"
    /\ \E reply \in Replies :
         /\ Transition(call[s].permit, "failed", "executor", reply)
         /\ IF reply = "recorded" THEN Return(s) ELSE UNCHANGED call
    /\ UNCHANGED <<clock, gw, nonces, guard, evidence, world, crashes>>

Fail(s) ==
    /\ call[s].pc = "fail"
    /\ \E reply \in Replies :
         Transition(call[s].permit, "failed", "executor", reply)
    /\ Return(s)
    /\ UNCHANGED <<clock, gw, nonces, guard, evidence, world, crashes>>

-----------------------------------------------------------------------------
(* Crash, restart, recovery, retention *)

Crash(g) ==
    /\ gw[g].mode # "down" /\ crashes < MaxCrashes
    /\ crashes' = crashes + 1
    /\ gw' = [gw EXCEPT ![g] = [mode |-> "down", todo |-> {}, signed |-> {}]]
    /\ call' = [s \in Slots |-> IF HomeOf[s] = g THEN NoCall ELSE call[s]]
    /\ nonces' = [nonces EXCEPT ![g] = {}]
    /\ UNCHANGED <<clock, tables, world, outages>>

(* Faulty: recovery lists executing rows alone. *)
StartedRows == {<<p, journal[p]>> : p \in {q \in Permits : journal[q] = "executing"}}
UnfinishedRows == {<<p, journal[p]>> : p \in {q \in Permits : journal[q] \in Unfinished}}

(* journal.unfinished(): a failed SELECT comes back as the empty list. *)
Restart(g) ==
    /\ gw[g].mode = "down"
    /\ \/ /\ gw' = [gw EXCEPT ![g] = [mode |-> "recovering", signed |-> {},
                       todo |-> IF Journaling THEN UnfinishedRows ELSE {}]]
          /\ UNCHANGED outages
       \/ /\ Journaling /\ Outage
          /\ gw' = [gw EXCEPT ![g] = [mode |-> "recovering", signed |-> {}, todo |-> {}]]
    /\ UNCHANGED <<clock, call, nonces, tables, world, crashes>>

(* Faulty: a refused entry is signed as well. *)
SignRejected(g) ==
    /\ gw[g].mode = "recovering" /\ gw[g].signed = {}
    /\ \E e \in gw[g].todo, reply \in Replies :
         /\ Transition(e[1], "uncertain", e[2], reply)
         /\ gw' = [gw EXCEPT ![g].todo = @ \ {e}, ![g].signed = {e[1]}]
    /\ UNCHANGED <<clock, call, nonces, guard, evidence, world, crashes>>

(* Faulty: a refused entry is tried again. *)
RetryRejected(g) ==
    /\ gw[g].mode = "recovering" /\ gw[g].signed = {}
    /\ \E e \in gw[g].todo, reply \in Replies :
         /\ Transition(e[1], "uncertain", e[2], reply)
         /\ IF reply = "recorded"
              THEN gw' = [gw EXCEPT ![g].todo = @ \ {e}, ![g].signed = {e[1]}]
              ELSE UNCHANGED gw
    /\ UNCHANGED <<clock, call, nonces, guard, evidence, world, crashes>>

(* recoverUnfinished, one entry.  An unavailable journal ends the attempt. *)
Recover(g) ==
    /\ gw[g].mode = "recovering" /\ gw[g].signed = {}
    /\ \E e \in gw[g].todo, reply \in Replies :
         /\ Transition(e[1], "uncertain", e[2], reply)
         /\ gw' = [gw EXCEPT ![g] =
              IF reply = "unavailable"
                THEN [mode |-> "down", todo |-> {}, signed |-> {}]
                ELSE [mode |-> "recovering", todo |-> gw[g].todo \ {e},
                      signed |-> IF reply = "recorded" THEN {e[1]} ELSE {}]]
    /\ UNCHANGED <<clock, call, nonces, guard, evidence, world, crashes>>

(* onRecovered(receipt): it may reject, which rejects recoverUnfinished. *)
DeliverReceipt(g) ==
    /\ gw[g].mode = "recovering"
    /\ \E p \in gw[g].signed :
         \/ /\ receipts' = [receipts EXCEPT ![p] = @ + 1]
            /\ gw' = [gw EXCEPT ![g].signed = {}]
            /\ UNCHANGED outages
         \/ /\ Outage /\ UNCHANGED receipts
            /\ gw' = [gw EXCEPT ![g] = [mode |-> "down", todo |-> {}, signed |-> {}]]
    /\ UNCHANGED <<clock, call, nonces, tables, ran, answered, crashes>>

(* Faulty: work is accepted before recovery is over. *)
ServeEarly(g) ==
    /\ gw[g].mode = "recovering" /\ gw' = [gw EXCEPT ![g].mode = "up"]
    /\ UNCHANGED <<clock, call, nonces, tables, world, crashes, outages>>

(* Recovery is over and the gateway accepts work. *)
Serve(g) ==
    /\ gw[g].mode = "recovering" /\ gw[g].todo = {} /\ gw[g].signed = {}
    /\ gw' = [gw EXCEPT ![g].mode = "up"]
    /\ UNCHANGED <<clock, call, nonces, tables, world, crashes, outages>>

(* Faulty: a consumed row goes when its permit expires. *)
CleanupAtExpiry ==
    /\ \E ahead \in 0..Skew : guard' = {p \in guard : clock + ahead <= Expires[p]}
    /\ UNCHANGED <<clock, gw, call, nonces, evidence, journal, cause, world,
                   crashes, outages>>

(* replayStore.cleanupExpired, run by a process whose clock is up to Skew ahead. *)
Cleanup ==
    /\ \E ahead \in 0..Skew :
         guard' = {p \in guard : clock + ahead <= Expires[p] + Retention}
    /\ UNCHANGED <<clock, gw, call, nonces, evidence, journal, cause, world,
                   crashes, outages>>

(* No call pauses longer than MaxStall between verification and consume. *)
Tick ==
    /\ clock < MaxClock
    /\ \A s \in Slots : call[s].pc = "consume" => clock < call[s].began + MaxStall
    /\ clock' = clock + 1
    /\ UNCHANGED <<gw, call, nonces, tables, world, crashes, outages>>

Continue(s) ==
    \/ RecordViolation(s) \/ Consume(s) \/ RecordPermit(s) \/ Prepare(s)
    \/ Start(s) \/ ExecutorPerforms(s) \/ ExecutorAnswers(s)
    \/ RecordExecution(s) \/ Commit(s) \/ RecordResult(s)
    \/ RecordFailure(s) \/ Fail(s)

Boot(g) == Restart(g) \/ Recover(g) \/ DeliverReceipt(g) \/ Serve(g)

Next ==
    \/ \E s \in Slots : Begin(s) \/ Continue(s)
    \/ \E g \in Gateways : Crash(g) \/ Boot(g)
    \/ Cleanup
    \/ Tick

Spec == Init /\ [][Next]_vars

(* Fairness: an awaited promise settles (the driver and the executors answer
   or fail), and the supervisor restarts a dead process, which then runs its
   start-up.  Nothing is assumed about new calls, crashes, the clock or the
   clean-up job. *)
Fairness ==
    /\ \A s \in Slots : WF_vars(Continue(s))
    /\ \A g \in Gateways : WF_vars(Boot(g))

FairSpec == Spec /\ Fairness

-----------------------------------------------------------------------------
(* Properties *)

(* S9: however often a permit is presented, to whichever process, across
   crashes, restarts and failed database calls, its effect happens once. *)
AtMostOnce == \A p \in Permits : ran[p] <= 1

(* Two permits issued under one nonce never both take effect. *)
NonceOnce ==
    \A p, q \in Permits :
        p # q /\ NonceOf[p] = NonceOf[q] => ran[p] = 0 \/ ran[q] = 0

(* The journal may say it does not know, but what it does say is true: a
   committed effect happened and is on record, a failed one did not happen,
   and an effect that happened was announced by its row. *)
JournalTruthful ==
    Journaling => \A p \in Permits :
        /\ journal[p] = "committed" => ran[p] > 0 /\ <<"execution_ok", p>> \in evidence
        /\ journal[p] = "failed" => ran[p] = 0 /\ <<"execution_failed", p>> \in evidence
        /\ ran[p] > 0 => journal[p] \in {"executing", "committed", "uncertain"}

(* performed: true is answered only for an effect that happened and whose
   execution and result are on record, whatever the journal replied. *)
AnswerBacked ==
    \A p \in answered :
        /\ ran[p] > 0
        /\ {<<"execution_ok", p>>, <<"tool_result_commitment", p>>} \subseteq evidence

(* A verdict is final: nothing moves a terminal row or restates its error. *)
VerdictsFinal ==
    [][\A p \in Permits : journal[p] \in Terminal =>
          journal'[p] = journal[p] /\ cause'[p] = cause[p]]_vars

(* A recovery receipt speaks of a row that is uncertain, and that carries the
   state it was found in as its cause. *)
ReceiptsTruthful ==
    \A p \in Permits : receipts[p] > 0 =>
        journal[p] = "uncertain" /\ cause[p] \in Unfinished

(* "with a signed receipt each": one receipt per resolved row. *)
OneReceipt == \A p \in Permits : receipts[p] <= 1

(* With one process, an effect starts only while its row says executing:
   recovery has finished with the row before work is accepted. *)
EffectsStep == \A p \in Permits : ran'[p] # ran[p] => journal[p] = "executing"
EffectsWhileOpen == [][EffectsStep]_vars

(* A gateway that begins to serve leaves no unfinished row behind it. *)
ServesStep ==
    \A g \in Gateways :
        gw[g].mode = "recovering" /\ gw'[g].mode = "up"
            => \A p \in Permits : journal[p] \notin Unfinished
ServesRecovered == [][ServesStep]_vars

(* Every call of perform ends, by an answer, an exception or a crash. *)
CallsEnd == \A s \in Slots : ~Idle(s) ~> Idle(s)

(* Every process that goes down comes back into service. *)
BootsComplete == \A g \in Gateways : gw[g].mode = "down" ~> gw[g].mode = "up"

(* recoverUnfinished resolves every row: one that is open while a process is
   down reaches a verdict, unless the database fails once more. *)
RowsResolve ==
    \A p \in Permits, n \in 0..MaxOutages :
        (/\ journal[p] \in Unfinished /\ outages = n
         /\ \E g \in Gateways : gw[g].mode = "down")
            ~> (journal[p] \in Terminal \/ outages > n)

(* What makes first use exclusive.  A call owns its permit once the authority
   has granted it: the journal's insert when there is a journal, otherwise the
   replay guard's.  The guard forgets, but only when its permit has been
   expired for longer than any call may pause and any clock may be wrong. *)
Late   == AfterConsume \cup AfterEffect \cup AfterRefusal
Owning == IF Journaling THEN Late \ {"authorize", "prepare"} ELSE Late

Marked(p) == IF Journaling
               THEN journal[p] # "absent"
               ELSE p \in guard \/ Expires[p] + Retention < clock + Skew

Protected == Journaling \/ (DurableReplay /\ 2 * Skew + MaxStall <= Retention + 1)

OwnersMarked == \A s \in Slots : call[s].pc \in Owning => Marked(call[s].permit)
OneOwner ==
    \A s, t \in Slots :
        (/\ {call[s].pc, call[t].pc} \subseteq Owning
         /\ call[s].permit = call[t].permit) => s = t
OwnersFresh ==
    \A s \in Slots : call[s].pc \in Owning \ AfterEffect => ran[call[s].permit] = 0
RanMarked == \A p \in Permits : ran[p] <= 1 /\ (ran[p] > 0 => Marked(p))
ConsumeInTime ==
    \A s \in Slots : call[s].pc = "consume" =>
        /\ clock <= call[s].began + MaxStall
        /\ call[s].began < Expires[call[s].permit] + Skew

OnceInv == OwnersMarked /\ OneOwner /\ OwnersFresh /\ RanMarked /\ ConsumeInTime

(* The promise of EffectOnce, read off the tables and the world. *)
Once == INSTANCE EffectOnce WITH
    authorized <- {p \in Permits : <<"effect_permit", p>> \in evidence},
    performed  <- ran,
    verdict    <- [p \in Permits |->
                     CASE journal[p] = "committed" -> "done"
                       [] journal[p] = "failed"    -> "notdone"
                       [] journal[p] = "uncertain" -> "unknown"
                       [] OTHER                    -> "open"]

(* The gateway implements EffectOnce. *)
ImplementsEffectOnce == Once!Spec
=============================================================================
