------------------------------ MODULE Intercept ------------------------------
(***************************************************************************)
(* The v1 control plane's decision pipeline: a tool call is submitted, a   *)
(* decision is taken and stored once per request id, and a call that needs *)
(* a human waits for an approval that a second call then spends.           *)
(*                                                                         *)
(*   intercept-service.ts, intercept-fail-closed.ts   intercept            *)
(*   tool-call-repository.ts   lookups, approval consumption, saveDecision *)
(*   approval-routes.ts        decide                                      *)
(*   kill-switch-routes.ts     switches on and off                         *)
(*   budget-provider.ts, rate-limit-provider.ts   checkAndConsume          *)
(*                                                                         *)
(* A slot is one running call of intercept; its pc names the await it is   *)
(* suspended on.  The service is built without a database handle, so every *)
(* repository call is a transaction of its own and calls interleave between*)
(* them.  A database call may fail, and may have been applied nonetheless. *)
(***************************************************************************)
EXTENDS Naturals, FiniteSets

CONSTANTS
    Slots,          \* concurrent calls of intercept
    Requests,       \* request ids of one tenant
    NoRequest,
    Auth,           \* the decision whose approval a request presents
    Scope,          \* context.scope_hash of each request
    DryRun,         \* requests submitted with dry_run
    RiskOf,         \* the risk engine's verdict: "low", "high" or "approval"
    Deciders,       \* calls of the decide route
    NoDecider,
    Switches,       \* kill switch rows
    Stops,          \* the requests within each switch's scope
    Budgets, RateLimits,    \* rows of budgets and of rate_limits
    Covers,         \* the requests within the scope of each such row
    Limit,          \* limit_value of each such row
    MaxWindows, MaxFaults   \* bounds of the model

Meters == Budgets \cup RateLimits

ASSUME ConstantsAssumption ==
    /\ NoRequest \notin Requests /\ NoDecider \notin Deciders
    /\ Auth \in [Requests -> Requests \cup {NoRequest}]
    /\ DryRun \subseteq Requests
    /\ RiskOf \in [Requests -> {"low", "high", "approval"}]
    /\ Stops \in [Switches -> SUBSET Requests]
    /\ Budgets \cap RateLimits = {}
    /\ Covers \in [Meters -> SUBSET Requests]
    /\ Limit \in [Meters -> Nat \ {0}]
    /\ MaxWindows \in Nat /\ MaxFaults \in Nat

VARIABLES
    call,       \* each slot: the await it is suspended on and what it knows
    decision,   \* table policy_decisions: final_decision
    approval,   \* table approvals, by the request whose decision opened it
    decider,    \* each call of the decide route
    switch,     \* table kill_switches
    meter,      \* tables budgets and rate_limits
    answers,    \* what callers were told: request, verdict, and whether it
                \* was the stored decision that was told
    votes,      \* decisions written by the decide route
    told,       \* decisions acknowledged to a decider with 200
    faults

vars == <<call, decision, approval, decider, switch, meter, answers, votes,
          told, faults>>

Verdicts  == {"allow", "deny", "pending"}
Decisions == {"approved", "denied"}
PCs       == {"idle", "lookup", "kill", "budget", "guards", "approve",
              "policy", "rate", "save"}

NoCall == [pc |-> "idle", req |-> NoRequest, token |-> NoDecider,
           verdict |-> "deny", closed |-> FALSE, exposed |-> FALSE]
NoRow  == [status |-> "none", token |-> NoDecider, expired |-> FALSE,
           used |-> NoRequest]
NoVote == [pc |-> "idle", of |-> NoRequest, says |-> "denied"]

CallRecord == [pc : PCs, req : Requests \cup {NoRequest},
               token : Deciders \cup {NoDecider}, verdict : Verdicts,
               closed : BOOLEAN, exposed : BOOLEAN]
ApprovalRow == [status : {"none", "pending"} \cup Decisions,
                token : Deciders \cup {NoDecider}, expired : BOOLEAN,
                used : Requests \cup {NoRequest}]
Vote == [pc : {"idle", "update", "done"}, of : Requests \cup {NoRequest},
         says : Decisions]

CallTypeOK ==
    /\ call \in [Slots -> CallRecord]
    /\ \A s \in Slots : call[s].req = NoRequest => call[s].pc = "idle"
DeciderTypeOK ==
    /\ decider \in [Deciders -> Vote]
    /\ \A d \in Deciders : decider[d].pc = "update" => decider[d].of \in Requests
MeterTypeOK == meter \in [Meters -> [used : Nat, expired : BOOLEAN, windows : Nat]]

TypeOK ==
    /\ CallTypeOK /\ DeciderTypeOK /\ MeterTypeOK
    /\ decision \in [Requests -> Verdicts \cup {"none"}]
    /\ approval \in [Requests -> ApprovalRow]
    /\ switch \in [Switches -> {"absent", "on", "off"}]
    /\ answers \subseteq Requests \X Verdicts \X BOOLEAN
    /\ votes \subseteq Deciders \X Requests \X Decisions
    /\ told \subseteq votes
    /\ faults \in 0..MaxFaults

Init ==
    /\ call = [s \in Slots |-> NoCall]
    /\ decision = [r \in Requests |-> "none"]
    /\ approval = [r \in Requests |-> NoRow]
    /\ decider = [d \in Deciders |-> NoVote]
    /\ switch = [k \in Switches |-> "absent"]
    /\ meter = [m \in Meters |-> [used |-> 0, expired |-> FALSE, windows |-> 1]]
    /\ answers = {} /\ votes = {} /\ told = {}
    /\ faults = 0

-----------------------------------------------------------------------------
(* Helpers *)

At(s, pc)  == call[s].pc = pc
Req(s)     == call[s].req
Enforced(s) == Req(s) \notin DryRun

Goto(s, pc) == call' = [call EXCEPT ![s].pc = pc]
(* Faulty: a return that forgets to leave the await. *)
ReturnUnreset(s) == call' = [call EXCEPT ![s].req = NoRequest]
Return(s)   == call' = [call EXCEPT ![s] = NoCall]

(* createDenyResponse, then saveDecision. *)
Refuse(s) == Goto(s, "save")

(* failClosed: the same, except that an error of the save is swallowed. *)
Close(s) == call' = [call EXCEPT ![s] = [@ EXCEPT !.pc = "save", !.closed = TRUE]]

Answer(r, verdict, stored) == answers' = answers \cup {<<r, verdict, stored>>}

Fault == faults < MaxFaults /\ faults' = faults + 1

Killed(r) == \E k \in Switches : switch[k] = "on" /\ r \in Stops[k]

(* The rows a request is metered by.  A low risk has no action key and so
   no rate limit. *)
BudgetRows(r) == {m \in Budgets : r \in Covers[m]}
RateRows(r) ==
    IF RiskOf[r] = "low" THEN {} ELSE {m \in RateLimits : r \in Covers[m]}

(* Faulty: > for >=. *)
ExhaustedLate(rows) == \E m \in rows : ~meter[m].expired /\ meter[m].used > Limit[m]
Exhausted(rows) ==
    \E m \in rows : ~meter[m].expired /\ meter[m].used >= Limit[m]

(* A window that has elapsed starts again with this call in it. *)
Charged(rows) ==
    [m \in Meters |->
        IF m \notin rows THEN meter[m]
        ELSE IF meter[m].expired
          THEN [used |-> 1, expired |-> FALSE, windows |-> meter[m].windows + 1]
          ELSE [meter[m] EXCEPT !.used = @ + 1]]

(* checkAndConsume: one transaction that locks every row, charges all or none. *)
CheckAndConsume(rows, consume, allowed) ==
    /\ allowed = ~Exhausted(rows)
    /\ meter' = IF allowed /\ consume THEN Charged(rows) ELSE meter

(* A failed checkAndConsume may still have committed its charge. *)
ChargeInDoubt(rows, consume) ==
    meter' \in {meter, IF ~Exhausted(rows) /\ consume THEN Charged(rows) ELSE meter}

(* Faulty: used_at is not looked at. *)
ValidAgain(s) ==
    LET a == approval[Auth[Req(s)]] IN
    /\ a.status = "approved" /\ ~a.expired /\ Scope[Auth[Req(s)]] = Scope[Req(s)]
    /\ a.token # NoDecider /\ a.token = call[s].token

(* Faulty: the scope is not compared. *)
ValidAnywhere(s) ==
    LET a == approval[Auth[Req(s)]] IN
    /\ a.status = "approved" /\ ~a.expired /\ a.used = NoRequest
    /\ a.token # NoDecider /\ a.token = call[s].token

(* The approval a call presents holds for it. *)
Valid(s) ==
    LET q == Auth[Req(s)]  a == approval[q] IN
    /\ a.status = "approved" /\ ~a.expired /\ a.used = NoRequest
    /\ Scope[q] = Scope[Req(s)]
    /\ a.token # NoDecider /\ a.token = call[s].token

Spend(s) ==
    approval' = IF Enforced(s)
                  THEN [approval EXCEPT ![Auth[Req(s)]].used = Req(s)]
                  ELSE approval

(* What findByRequestId makes of a row: an approval_required decision with no
   approval row, which is what a dry run leaves, reads back as a denial. *)
Replayed(r) ==
    IF decision[r] = "pending" /\ approval[r].status = "none"
      THEN "deny" ELSE decision[r]

(* saveDecision: one transaction; the request id is unique in it. *)
Insert(r, verdict) ==
    /\ decision' = [decision EXCEPT ![r] = verdict]
    /\ approval' = IF verdict = "pending" /\ r \notin DryRun
                     THEN [approval EXCEPT ![r] = [NoRow EXCEPT !.status = "pending"]]
                     ELSE approval

-----------------------------------------------------------------------------
(* intercept *)

(* An agent submits, or submits again, a request.  An approval token is a
   random value that only a decider was told, so the agent presents one that
   some decider obtained, or one that matches nothing. *)
Begin(s) ==
    /\ At(s, "idle")
    /\ \E r \in Requests, t \in Deciders \cup {NoDecider} :
         /\ t # NoDecider => <<t, Auth[r], "approved">> \in told
         /\ call' = [call EXCEPT ![s] =
              [NoCall EXCEPT !.pc = "lookup", !.req = r, !.token = t,
                             !.exposed = Killed(r)]]
    /\ UNCHANGED <<decision, approval, decider, switch, meter, answers, votes,
                   told, faults>>

Lookup(s) ==
    LET r == Req(s) IN
    /\ At(s, "lookup")
    /\ \/ /\ decision[r] # "none"
          /\ Answer(r, Replayed(r), TRUE) /\ Return(s) /\ UNCHANGED faults
       \/ /\ decision[r] = "none"
          /\ Goto(s, "kill") /\ UNCHANGED <<answers, faults>>
       \/ Fault /\ Close(s) /\ UNCHANGED answers
    /\ UNCHANGED <<decision, approval, decider, switch, meter, votes, told>>

(* Faulty: a failed lookup counts as no switch. *)
KillSwitchFailsOpen(s) ==
    /\ At(s, "kill")
    /\ \/ Killed(Req(s)) /\ Refuse(s) /\ UNCHANGED faults
       \/ ~Killed(Req(s)) /\ Goto(s, "budget") /\ UNCHANGED faults
       \/ Fault /\ Goto(s, "budget")
    /\ UNCHANGED <<decision, approval, decider, switch, meter, answers, votes, told>>

KillSwitch(s) ==
    /\ At(s, "kill")
    /\ \/ Killed(Req(s)) /\ Refuse(s) /\ UNCHANGED faults
       \/ ~Killed(Req(s)) /\ Goto(s, "budget") /\ UNCHANGED faults
       \/ Fault /\ Close(s)
    /\ UNCHANGED <<decision, approval, decider, switch, meter, answers, votes, told>>

Budget(s) ==
    LET rows == BudgetRows(Req(s)) IN
    /\ At(s, "budget")
    /\ \/ /\ CheckAndConsume(rows, Enforced(s), TRUE)
          /\ Goto(s, "guards") /\ UNCHANGED faults
       \/ CheckAndConsume(rows, Enforced(s), FALSE) /\ Refuse(s) /\ UNCHANGED faults
       \/ Fault /\ ChargeInDoubt(rows, Enforced(s)) /\ Close(s)
    /\ UNCHANGED <<decision, approval, decider, switch, answers, votes, told>>

(* The manifest, URL and egress guards, the fabric gate and, for a call that
   presents an approval, the risk engine: each may refuse or fail. *)
Guards(s) ==
    /\ At(s, "guards")
    /\ \/ /\ Goto(s, IF Auth[Req(s)] = NoRequest THEN "policy" ELSE "approve")
          /\ UNCHANGED faults
       \/ Refuse(s) /\ UNCHANGED faults
       \/ Fault /\ Close(s)
    /\ UNCHANGED <<decision, approval, decider, switch, meter, answers, votes, told>>

(* verifyAndConsumeApproval: the row is locked, checked and marked used. *)
Approve(s) ==
    /\ At(s, "approve")
    /\ \/ Valid(s) /\ Spend(s) /\ Goto(s, "rate") /\ UNCHANGED faults
       \/ ~Valid(s) /\ Refuse(s) /\ UNCHANGED <<approval, faults>>
       \/ /\ Fault /\ Close(s)
          /\ UNCHANGED approval \/ (Valid(s) /\ Spend(s))
    /\ UNCHANGED <<decision, decider, switch, meter, answers, votes, told>>

(* Cedar and the risk engine, for a call that presents no approval. *)
Policy(s) ==
    /\ At(s, "policy")
    /\ \/ Goto(s, "rate") /\ UNCHANGED faults
       \/ Refuse(s) /\ UNCHANGED faults
       \/ Fault /\ Close(s)
    /\ UNCHANGED <<decision, approval, decider, switch, meter, answers, votes, told>>

(* With an approval the rate limit stands outside any try: it throws. *)
RateLimit(s) ==
    LET r       == Req(s)
        spent   == Auth[r] # NoRequest
        consume == Enforced(s) /\ (spent \/ RiskOf[r] # "approval")
        verdict == IF spent \/ RiskOf[r] # "approval" THEN "allow" ELSE "pending"
    IN
    /\ At(s, "rate")
    /\ \/ /\ CheckAndConsume(RateRows(r), consume, TRUE)
          /\ call' = [call EXCEPT ![s] = [@ EXCEPT !.pc = "save", !.verdict = verdict]]
          /\ UNCHANGED faults
       \/ CheckAndConsume(RateRows(r), consume, FALSE) /\ Refuse(s) /\ UNCHANGED faults
       \/ /\ Fault /\ ChargeInDoubt(RateRows(r), consume)
          /\ IF spent THEN Return(s) ELSE Close(s)
    /\ UNCHANGED <<decision, approval, decider, switch, answers, votes, told>>

(* Faulty: ON CONFLICT DO UPDATE. *)
SaveOver(s) ==
    /\ At(s, "save") /\ Return(s)
    /\ Insert(Req(s), call[s].verdict) /\ Answer(Req(s), call[s].verdict, TRUE)
    /\ UNCHANGED <<decider, switch, meter, votes, told, faults>>

(* Faulty: a duplicate is tried again. *)
SaveRetried(s) ==
    LET r == Req(s) IN
    /\ At(s, "save")
    /\ \/ /\ decision[r] = "none" /\ Insert(r, call[s].verdict) /\ Return(s)
          /\ Answer(r, call[s].verdict, TRUE)
       \/ decision[r] # "none" /\ UNCHANGED <<call, decision, approval, answers>>
    /\ UNCHANGED <<decider, switch, meter, votes, told, faults>>

(* saveDecision, and the reply.  A duplicate request id or a failed commit
   throws; only failClosed answers all the same. *)
Save(s) ==
    LET r == Req(s)  v == call[s].verdict
        Throw == IF call[s].closed THEN Answer(r, v, FALSE) ELSE UNCHANGED answers
    IN
    /\ At(s, "save")
    /\ \/ /\ decision[r] = "none" /\ Insert(r, v)
          /\ Answer(r, v, TRUE) /\ UNCHANGED faults
       \/ decision[r] # "none" /\ Throw /\ UNCHANGED <<decision, approval, faults>>
       \/ /\ Fault /\ Throw
          /\ \/ UNCHANGED <<decision, approval>>
             \/ decision[r] = "none" /\ Insert(r, v)
    /\ Return(s)
    /\ UNCHANGED <<decider, switch, meter, votes, told>>

(* The process serving the call dies. *)
Die(s) ==
    /\ ~At(s, "idle") /\ Fault /\ Return(s)
    /\ UNCHANGED <<decision, approval, decider, switch, meter, answers, votes, told>>

-----------------------------------------------------------------------------
(* The operators' side *)

(* decide: the row is read and must be pending (otherwise 404 or 409) ... *)
DecideCheck(d) ==
    /\ decider[d].pc = "idle"
    /\ \E q \in Requests, says \in Decisions :
         /\ approval[q].status = "pending"
         /\ decider' = [decider EXCEPT ![d] = [pc |-> "update", of |-> q, says |-> says]]
    /\ UNCHANGED <<call, decision, approval, switch, meter, answers, votes, told, faults>>

(* ... and the UPDATE, a statement of its own, names the row by id alone. *)
DecideUpdate(d) ==
    LET q == decider[d].of  says == decider[d].says
        Write == /\ approval' = [approval EXCEPT ![q] =
                       [status |-> says, expired |-> FALSE, used |-> approval[q].used,
                        token |-> IF says = "approved" THEN d ELSE NoDecider]]
                 /\ votes' = votes \cup {<<d, q, says>>}
    IN
    /\ decider[d].pc = "update"
    /\ decider' = [decider EXCEPT ![d].pc = "done"]
    /\ \/ Write /\ told' = told \cup {<<d, q, says>>} /\ UNCHANGED faults
       \/ /\ Fault /\ UNCHANGED told
          /\ Write \/ UNCHANGED <<approval, votes>>
    /\ UNCHANGED <<call, decision, switch, meter, answers>>

(* An approval's expires_at passes. *)
ExpireApproval(q) ==
    /\ approval[q].status # "none" /\ ~approval[q].expired
    /\ approval' = [approval EXCEPT ![q].expired = TRUE]
    /\ UNCHANGED <<call, decision, decider, switch, meter, answers, votes, told, faults>>

(* A row's window elapses. *)
ElapseWindow(m) ==
    /\ ~meter[m].expired /\ meter[m].windows < MaxWindows
    /\ meter' = [meter EXCEPT ![m].expired = TRUE]
    /\ UNCHANGED <<call, decision, approval, decider, switch, answers, votes, told, faults>>

SwitchOn(k) ==
    /\ switch[k] = "absent"
    /\ switch' = [switch EXCEPT ![k] = "on"]
    /\ UNCHANGED <<call, decision, approval, decider, meter, answers, votes, told, faults>>

(* A call stops being exposed once no switch stops its request. *)
SwitchOff(k) ==
    /\ switch[k] = "on"
    /\ switch' = [switch EXCEPT ![k] = "off"]
    /\ call' = [s \in Slots |->
         [call[s] EXCEPT !.exposed = @ /\ \E j \in Switches \ {k} :
              switch[j] = "on" /\ Req(s) \in Stops[j]]]
    /\ UNCHANGED <<decision, approval, decider, meter, answers, votes, told, faults>>

Continue(s) ==
    \/ Lookup(s) \/ KillSwitch(s) \/ Budget(s) \/ Guards(s) \/ Approve(s)
    \/ Policy(s) \/ RateLimit(s) \/ Save(s)

Next ==
    \/ \E s \in Slots : Begin(s) \/ Continue(s) \/ Die(s)
    \/ \E d \in Deciders : DecideCheck(d) \/ DecideUpdate(d)
    \/ \E q \in Requests : ExpireApproval(q)
    \/ \E m \in Meters : ElapseWindow(m)
    \/ \E k \in Switches : SwitchOn(k) \/ SwitchOff(k)

Spec == Init /\ [][Next]_vars

(* An awaited call of the database or of a provider settles.  Nothing is
   assumed about agents, operators or time. *)
FairSpec == Spec /\ \A s \in Slots : WF_vars(Continue(s))

-----------------------------------------------------------------------------
(* Properties *)

Granted(r) == r \notin DryRun /\ decision[r] = "allow"

(* One approval permits one tool call, however many calls present it. *)
ApprovalSpentOnce ==
    \A q, r \in Requests :
        Granted(q) /\ Granted(r) /\ Auth[q] # NoRequest /\ Auth[q] = Auth[r] => q = r

(* Some approver approved the decision the request refers to, for the same
   scope, and the request is the one that spent that approval. *)
Backed(r) ==
    LET q == Auth[r] IN
    /\ q # NoRequest /\ Scope[q] = Scope[r] /\ approval[q].used = r
    /\ \E d \in Deciders : <<d, q, "approved">> \in votes

(* A risky call is allowed only on an approval that some approver gave, for
   the same scope, and that this very call has spent. *)
AllowNeedsApproval ==
    \A r \in Requests : Granted(r) =>
        Backed(r) \/ (Auth[r] = NoRequest /\ RiskOf[r] # "approval")

(* Callers agree: whoever was told the stored decision of an enforced request
   was told the same, and an allow is never told unless it is stored. *)
AnswersAgree ==
    \A a \in answers :
        /\ a[2] = "allow" => decision[a[1]] = "allow"
        /\ a[3] /\ a[1] \notin DryRun => decision[a[1]] = a[2]
        /\ ~a[3] => a[2] = "deny"

(* While a kill switch stops a request from before its submission until its
   decision, that decision is not an allow. *)
KillHolds ==
    [][\A r \in Requests : decision[r] = "none" /\ decision'[r] = "allow" =>
          \E s \in Slots : At(s, "save") /\ Req(s) = r /\ call'[s] # call[s]
                            /\ ~call[s].exposed]_vars

(* Budgets and rate limits hold whatever runs at once: no more calls are
   allowed than the windows opened so far have room for. *)
NoOverspend ==
    \A m \in Meters :
        Cardinality({r \in Requests : Granted(r) /\ m \in BudgetRows(r) \cup RateRows(r)})
            <= Limit[m] * meter[m].windows

(* Every call of intercept ends. *)
CallsEnd == \A s \in Slots : ~At(s, "idle") ~> At(s, "idle")

(* "approval has already been decided": an approver who was told that a
   denial stands can rely on it. *)
DenialHolds ==
    \A d \in Deciders, q \in Requests :
        <<d, q, "denied">> \in told => approval[q].status # "approved"

(* Why the two approval properties hold: a call that has passed the approval
   step is backed until its decision is stored, nobody ever un-spends an
   approval, and a row that a decider may still write to is already there. *)
CallBacked(s) ==
    /\ At(s, "policy") => Auth[Req(s)] = NoRequest
    /\ At(s, "approve") => Auth[Req(s)] # NoRequest
    /\ ~At(s, "save") => call[s].verdict = "deny"
    /\ (At(s, "rate") \/ call[s].verdict = "allow") /\ Enforced(s) =>
         \/ Backed(Req(s))
         \/ /\ Auth[Req(s)] = NoRequest
            /\ At(s, "save") => RiskOf[Req(s)] # "approval"
CallsBacked == \A s \in Slots : CallBacked(s)
RowsFollowDecisions ==
    \A q \in Requests :
        /\ decision[q] = "none" => approval[q] = NoRow
        /\ approval[q].status = "approved" =>
             \E d \in Deciders : <<d, q, "approved">> \in votes
VotersHaveRows ==
    \A d \in Deciders : decider[d].pc = "update" => decision[decider[d].of] # "none"

ApprovalInv == AllowNeedsApproval /\ CallsBacked /\ RowsFollowDecisions /\ VotersHaveRows
=============================================================================
