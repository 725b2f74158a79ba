------------------------------- MODULE Policy --------------------------------
(***************************************************************************)
(* Which policy decides: the bundles operators store and activate, the     *)
(* source each process has in force, and the Cedar program that is run     *)
(* on it.                                                                  *)
(*                                                                         *)
(*   policy-bundle-routes.ts    create and activate                        *)
(*   server.ts                  the bundle loaded when a process starts    *)
(*   cedar-provider.ts          createConfiguredCedarPolicyValidator       *)
(*   cedar-cli-provider.ts      CedarCliProvider                           *)
(*   policy-simulate-routes.ts  an evaluation without a call               *)
(*                                                                         *)
(* The database runs at READ COMMITTED: a statement sees what is committed *)
(* when it starts, waits for rows others hold and looks at those again.    *)
(* One provider serves all tenants of a process.  The Cedar program is     *)
(* external: it answers, fails, or says something and fails.               *)
(***************************************************************************)
EXTENDS Naturals, Sequences, FiniteSets, Functions

CONSTANTS
    Bundles,        \* ids; a bundle's source is told apart by its id
    TenantOf,       \* [Bundles -> tenants]
    Stored,         \* the rows there are from the start, oldest first
    Seeded,         \* the active one of them
    Parses,         \* bundles whose source the Cedar parser takes
    File,           \* the source in CEDAR_POLICY_PATH or the shipped one
    BuiltIn,        \* sources evaluateBuiltInPolicy answers itself
    Permitting,     \* sources that permit the call the model is about
    Servers,        \* processes over one database
    Operators,      \* those of them that are not data planes
    Requests,       \* slots for requests of operators
    Calls,          \* slots for evaluations
    None,           \* no source, no answer
    MaxAttempts,    \* CedarCliProvider's maxAttempts
    MaxRequests,    \* bound on requests of operators
    MaxFaults,      \* bound on failing statements
    MaxRestarts     \* bound on restarts

VARIABLES
    created,        \* policy_bundles, in the order of created_at
    active,         \* ids of the rows whose active is true
    activated,      \* ids that were active at some time
    inForce,        \* [Servers -> #activePolicySource]
    request,        \* [Requests -> what its handler knows]
    call,           \* [Calls -> what its evaluation knows]
    requests, faults, restarts

vars == <<created, active, activated, inForce, request, call, requests, faults, restarts>>

Sources == Bundles \cup {File}
Idle == [pc |-> "idle", server |-> None, bundle |-> None, kind |-> None,
         seen |-> {}, off |-> {}]
Quiet == [pc |-> "idle", server |-> None, source |-> None, attempt |-> 0, answer |-> None]

Init ==
    /\ created = Stored /\ active = {Seeded} /\ activated = {Seeded}
    /\ inForce = [s \in Servers |-> Seeded]
    /\ request = [r \in Requests |-> Idle]
    /\ call = [c \in Calls |-> Quiet]
    /\ requests = 0 /\ faults = 0 /\ restarts = 0

PolicyTypeOK ==
    /\ created \in Seq(Bundles) /\ active \subseteq Range(created)
    /\ activated \subseteq Range(created) /\ inForce \in [Servers -> Bundles \cup {None}]
    /\ request \in [Requests ->
          [pc : {"idle", "lookup", "see", "deactivate", "write", "commit", "reload"},
           server : Operators \cup {None}, bundle : Bundles \cup {None},
           kind : {None, "create", "promote", "activate"},
           seen : SUBSET Bundles, off : SUBSET Bundles]]
    /\ call \in [Calls ->
          [pc : {"idle", "run"}, server : Servers \cup {None},
           source : Sources \cup {None}, attempt : 0..MaxAttempts,
           answer : {None, "permit", "forbid", "rejected"}]]
    /\ requests \in 0..MaxRequests /\ faults \in 0..MaxFaults /\ restarts \in 0..MaxRestarts

-----------------------------------------------------------------------------
(* Requests of operators. *)

Known(b) == b \in Range(created)

(* Rows a transaction has written and not committed, which others wait for. *)
HeldBy(r) == request[r].off
    \cup (IF request[r].pc = "commit" THEN {request[r].bundle} ELSE {})
HeldByOthers(r) == UNION {HeldBy(q) : q \in Requests \ {r}}

Begin(r, pc, s, b, kind) ==
    request' = [request EXCEPT ![r].pc = pc, ![r].server = s, ![r].bundle = b, ![r].kind = kind]
Goto(r, pc) == request' = [request EXCEPT ![r].pc = pc]
End(r) == request' = [request EXCEPT ![r] = Idle]

(* createConfiguredCedarPolicyValidator, with the program at hand. *)
Valid(b) == b \in Parses

(* POST create: the source is parsed before anything is awaited. *)
Create(r, s, b, kind) ==
    /\ request[r] = Idle /\ requests < MaxRequests /\ requests' = requests + 1
    /\ kind \in {"create", "promote"} /\ ~Known(b) /\ Valid(b)
    /\ \A q \in Requests : request[q].bundle # b
    /\ Begin(r, IF kind = "promote" THEN "see" ELSE "write", s, b, kind)
    /\ UNCHANGED <<created, active, activated, inForce, call, faults, restarts>>

Activate(r, s, b) ==
    /\ request[r] = Idle /\ requests < MaxRequests /\ requests' = requests + 1
    /\ Begin(r, "lookup", s, b, "activate")
    /\ UNCHANGED <<created, active, activated, inForce, call, faults, restarts>>

(* The SELECT of activate, and the parser on what it found: 404, 400, or on. *)
LookUp(r) ==
    /\ request[r].pc = "lookup"
    /\ IF Known(request[r].bundle) /\ Valid(request[r].bundle)
       THEN Goto(r, "see") ELSE End(r)
    /\ UNCHANGED <<created, active, activated, inForce, call, requests, faults, restarts>>

(* UPDATE ... active = false starts, on the active rows of the tenant. *)
See(r) ==
    /\ request[r].pc = "see"
    /\ request' = [request EXCEPT ![r].pc = "deactivate",
          ![r].seen = {b \in active : TenantOf[b] = TenantOf[request[r].bundle]}]
    /\ UNCHANGED <<created, active, activated, inForce, call, requests, faults, restarts>>

(* It has the rows, and takes those that are active still. *)
Deactivate(r) ==
    /\ request[r].pc = "deactivate" /\ request[r].seen \cap HeldByOthers(r) = {}
    /\ request' = [request EXCEPT ![r].pc = "write", ![r].seen = {},
                                   ![r].off = request[r].seen \cap active]
    /\ UNCHANGED <<created, active, activated, inForce, call, requests, faults, restarts>>

(* UPDATE ... active = true of one row, or the INSERT. *)
Write(r) ==
    /\ request[r].pc = "write" /\ request[r].bundle \notin HeldByOthers(r)
    /\ Goto(r, "commit")
    /\ UNCHANGED <<created, active, activated, inForce, call, requests, faults, restarts>>

(* created_at is when the transaction began, so a row may lie before others *)
(* that were committed while it waited: anywhere behind those of the start. *)
Placed(b, i) ==
    [j \in 1..(Len(created) + 1) |->
        IF j < i THEN created[j] ELSE IF j = i THEN b ELSE created[j - 1]]

(* What the commit of r makes visible. *)
Committed(r) ==
    LET b == request[r].bundle IN
    /\ \E i \in (Len(Stored) + 1)..(Len(created) + 1) :
          created' = IF Known(b) THEN created ELSE Placed(b, i)
    /\ active' = IF request[r].kind = "create" THEN active
                 ELSE (active \ request[r].off) \cup {b}
    /\ activated' = activated \cup active'

Commit(r) ==
    /\ request[r].pc = "commit" /\ Committed(r)
    /\ IF request[r].kind = "create"
       THEN End(r)
       ELSE request' = [request EXCEPT ![r].pc = "reload", ![r].off = {}]
    /\ UNCHANGED <<inForce, call, requests, faults, restarts>>

(* reloadPolicy, once the answer to COMMIT has arrived. *)
Reload(r) ==
    /\ request[r].pc = "reload"
    /\ inForce' = [inForce EXCEPT ![request[r].server] = request[r].bundle]
    /\ End(r)
    /\ UNCHANGED <<created, active, activated, call, requests, faults, restarts>>

(* Faulty: without a transaction what was deactivated stays so. *)
RollbackHalf(r) ==
    /\ active' = active \ request[r].off
    /\ UNCHANGED <<created, activated>>

(* A statement fails and the transaction is rolled back ... *)
Rollback(r) == UNCHANGED <<created, active, activated>>

(* ... or the answer to COMMIT is lost.  Either way the handler throws.     *)
Fail(r) ==
    /\ request[r].pc \notin {"idle", "reload"} /\ faults < MaxFaults
    /\ faults' = faults + 1
    /\ \/ Rollback(r)
       \/ request[r].pc = "commit" /\ Committed(r)
    /\ End(r)
    /\ UNCHANGED <<inForce, call, requests, restarts>>

(* A process ends with all it was doing, starts again, and loads the newest *)
(* active bundle of any tenant, if the SELECT succeeds.                    *)
Newest ==
    {b \in active : \E i \in DOMAIN created :
        created[i] = b /\ \A j \in DOMAIN created : j > i => created[j] \notin active}

Restart(s) ==
    /\ restarts < MaxRestarts /\ restarts' = restarts + 1
    /\ \E loaded \in {None} \cup Newest :
          inForce' = [inForce EXCEPT ![s] = loaded]
    /\ request' = [r \in Requests |-> IF request[r].server = s THEN Idle ELSE request[r]]
    /\ call' = [c \in Calls |-> IF call[c].server = s THEN Quiet ELSE call[c]]
    /\ UNCHANGED <<created, active, activated, requests, faults>>

-----------------------------------------------------------------------------
(* Evaluations. *)

Verdict(source) == IF source \in Permitting THEN "permit" ELSE "forbid"

(* evaluate reads the source once; a known one needs no program. *)
Evaluate(c, s) ==
    /\ call[c].pc = "idle"
    /\ LET source == IF inForce[s] = None THEN File ELSE inForce[s] IN
       call' = [call EXCEPT ![c] =
                  IF source \in BuiltIn
                  THEN [pc |-> "idle", server |-> None, source |-> source, attempt |-> 0,
                        answer |-> Verdict(source)]
                  ELSE [pc |-> "run", server |-> s, source |-> source, attempt |-> 1,
                        answer |-> None]]
    /\ UNCHANGED <<created, active, activated, inForce, request, requests, faults, restarts>>

(* What the program prints and how it exits: a clean exit or a bare DENY is *)
(* its verdict, anything else may go with any word.                        *)
Outputs(source) ==
    {o \in [ok : BOOLEAN, word : {"permit", "forbid", None}, diagnostic : BOOLEAN,
            recursion : BOOLEAN] :
        /\ o.recursion => o.diagnostic
        /\ o.ok => o.word \in {Verdict(source), None} /\ ~o.diagnostic
        /\ ~o.ok /\ ~o.diagnostic /\ o.word = "forbid" => Verdict(source) = "forbid"}

(* #runAuthorize: what counts as a decision. *)
Decided(o) ==
    IF o.ok \/ (o.word = "forbid" /\ ~o.diagnostic) THEN o.word ELSE None

Answered(c, answer) ==
    call' = [call EXCEPT ![c].pc = "idle", ![c].server = None, ![c].answer = answer]

Authorize(c) ==
    /\ call[c].pc = "run"
    /\ \/ \E o \in Outputs(call[c].source) :
            IF Decided(o) # None THEN Answered(c, Decided(o))
            ELSE IF ~o.ok /\ o.recursion /\ call[c].attempt < MaxAttempts
            THEN call' = [call EXCEPT ![c].attempt = @ + 1]
            ELSE Answered(c, "rejected")
       \/ Answered(c, "rejected")    \* the time limit, or no program
    /\ UNCHANGED <<created, active, activated, inForce, request, requests, faults, restarts>>

Next ==
    \/ \E r \in Requests :
          \/ \E s \in Operators, b \in Bundles :
                \/ \E kind \in {"create", "promote"} : Create(r, s, b, kind)
                \/ Activate(r, s, b)
          \/ LookUp(r) \/ See(r) \/ Deactivate(r) \/ Write(r) \/ Commit(r)
          \/ Reload(r) \/ Fail(r)
    \/ \E s \in Servers : Restart(s)
    \/ \E c \in Calls : Authorize(c) \/ \E s \in Servers : Evaluate(c, s)

Spec == Init /\ [][Next]_vars

-----------------------------------------------------------------------------
(* Whatever fails or races on the way to it, a source comes into force     *)
(* only after it was committed as somebody's active bundle, and only one   *)
(* that parses, the seeded one apart (policy-bundle-routes.ts,             *)
(* docs/threat-model.md "syntax validation before activation").            *)
OnlyActivatedRule ==
    \A s \in Servers : inForce[s] # None =>
        inForce[s] \in activated /\ inForce[s] \in Parses \cup {Seeded}

(* Activations that race or fail never leave a tenant without a policy.    *)
TenantsKeepOne ==
    \A b \in activated : \E a \in active : TenantOf[a] = TenantOf[b]

(* An evaluation is answered with the verdict of the source it started     *)
(* with, or not at all: no failure of the program reads as a decision      *)
(* (cedar-cli-provider.ts "so neither an error nor a retryable recursion   *)
(* limit can be mistaken for a decision").                                 *)
AnswersFollow ==
    \A c \in Calls : call[c].answer \in {"permit", "forbid"} =>
        call[c].answer = Verdict(call[c].source)

PoliciesHold == OnlyActivatedRule /\ TenantsKeepOne /\ AnswersFollow
=============================================================================
