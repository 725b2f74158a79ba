# ActantOS, specified

ActantOS stands between AI agents and the effects they want: every tool call of
an agent is submitted for a decision (v1 control plane, `actantosd/src`), and
an effect is performed only on a signed, single-use permit (v2 security fabric,
`actantosd/src/v2`). This directory holds TLA+ specifications of that program,
the TLC configurations that check them, and TLAPS proofs of the results that
matter most. Paths below are relative to `actantosd/` unless they say otherwise.

## 1. The system

| Component | State it keeps | Operations | Hard behaviour | What makes it correct |
|---|---|---|---|---|
| Effect gateway `v2/effect-gateway.ts`, `v2/effect-permit.ts` | nonces in memory | `perform` | every await interleaves; crash between any two; calls that fail after taking effect | an effect happens at most once, after its authorization is on record |
| Replay guard `v2/replay-store.ts` | `v2_replay_guard` | `consume`, `cleanupExpired` | races of replicas, clock skew, retention | a permit or nonce is claimed once while it could still be accepted |
| Effect journal `v2/effect-commit.ts` | `v2_effect_journal` | `prepare`, `transition`, `unfinished`, `recoverUnfinished` | crash recovery, live peers, swallowed errors | a verdict is true and final, every open row gets one |
| Evidence store `v2/evidence-store.ts` | hash chain per tenant, checkpoints | `append`, `checkpoint`, `verify` | concurrent appends, lost connections, rows others alter | one chain, append-only, an audit that tells the truth |
| Intercept pipeline `intercept-service.ts` | none of its own | `intercept` | retries of a request id, failures at every stage | one stored decision per request, deny when in doubt |
| Decision store `tool-call-repository.ts` | `tool_calls`, `policy_decisions`, `approvals` | `findByRequestId`, `verifyAndConsumeApproval`, `saveDecision` | several transactions per call | an approval permits one call |
| Approvals, kill switches | `approvals`, `kill_switches` | decide, switch on, switch off | two deciders, expiry, a switch thrown during a call | a denial stands, a switch stops calls |
| Budgets, rate limits | `budgets`, `rate_limits` | `checkAndConsume` | the last unit, window changes | no overspending |
| Tool results `tool-result-service.ts` | `tool_calls.status`, trigger of migration 007 | `recordToolResult` | deadlock with `saveDecision`, illegal transitions | status and audit log agree |
| Audit chain `audit-chain-verifier.ts` | `audit_events`, `audit_chain_state` | append, verify | appends during a verification | the chain verifies, damage is seen |
| Decision execution `decision-execution.ts`, `docker-executor.ts` | decision nonces | `execute` | several executors, guard failures | one container per token |
| Policy bundles, Cedar `policy-bundle-routes.ts`, `cedar-cli-provider.ts` | `policy_bundles`, the source in force per process | create, activate, `evaluate` | racing activations, a program whose exit codes mix denial and error | only an activated policy decides, no failure does |
| MCP guard and gateway `mcp-manifest-guard.ts`, `mcp-gateway.ts` | `mcp_servers`, `mcp_tool_versions`, sessions | `evaluate`, approve, proxy | first contact by two calls, manifests that change, lost records | drift waits for an approver |
| Sidecar `v2/sidecar.ts`, leases, revocation, keyring `v2/policy-lease.ts`, `v2/revocation-snapshot.ts`, `v2/keyring.ts` | leases, floors and keys in memory | `handle`, offer, rotate | rollback after a restart, lapsed documents | silence never widens; failures deny as `v2/failure-semantics.ts` says |
| Sidecar socket and fabric client `v2/sidecar-server.ts`, `v2/fabric.ts` | one connection for all questions | `check` | overlapping questions, late answers, dead sockets | an answer is for its own question |
| Delegation, contexts, information flow `v2/delegation.ts`, `v2/security-context-envelope.ts`, `v2/ifc.ts` | chains, the newest context per agent | resolve, present, evaluate | chains that widen in the middle, older contexts | authority only narrows |
| Capability broker, Vault client `v2/capability-broker.ts`, `v2/providers.ts`, `v2/production-providers.ts` | live credentials, a cached token | `grant` | destruction on every path, a token revoked under two calls | no credential outlives its call unnoticed |
| Egress `v2/egress-proxy.ts`, `v2/egress-cell.ts` | tickets, tunnels | admit | chunks after the head, two uses of a ticket | one connection per ticket, to what it names |
| Workload identity `v2/workload-identity*.ts`, `v2/spiffe-workload-api.ts` | keys, revocations | mint, fetch, verify | rotation between fetch and use | what is honoured was issued, is current and not revoked |
| Clients `packages/sdk`, `packages/pi-adapter` (at the top of the repository) | none | `wrapTool`, guarded tools | timeouts, lost reports, files that move | the agent is told what is recorded |

The parts meet in three ways. An agent's call goes through `intercept`, which
calls the guards and providers in a fixed order and stores a decision; an
approver's `decide` and an operator's kill switch reach it only through their
tables. A stored allow is executed by `execute`, or by the client itself, and
reported to `recordToolResult`; decisions and results append to one hash chain
per tenant. Independently, the v2 gateway takes permits, claims them in the
replay guard, writes evidence, and brackets the executor with journal rows that
a restart's recovery reads. Around the two, the sidecar answers questions over
a socket from documents it was last given, and the broker, the proxy and the
identity provider act on grants. Everything is one Node process per replica over one
PostgreSQL database: code between two awaits is atomic, a database statement or
transaction is atomic, everything else interleaves.

## 2. The modules

    EffectOnce       abstract: an effect, its authorization and its verdict
    EffectGateway    v2 gateway, permits, replay guard, journal, recovery
    Intercept        v1 decisions, approvals, kill switches, budgets
    AuditLog         abstract: decisions and results as one history
    ToolRecord       v1 tool call rows, audit chain, verifier, executors
    Policy           v1 policy bundles and the Cedar program
    Mcp              v1 MCP gateway and manifest guard
    Authority        pure: grants, scopes, labels, host rules, envelopes
    Delegation       v2 delegation chains and security contexts
    Sidecar          v2 sidecar, leases, revocation, keys, failure contract
    SidecarSocket    v2 fabric client, socket, framing
    EvidenceStore    v2 evidence chain, checkpoints, audit
    Capability       v2 capability broker and Vault client
    Egress           v2 egress proxy
    Identity         v2 workload identity, SPIFFE
    Client           the guarded tools of the Pi adapter and the SDK

The theorems are in `EffectGateway_proofs`, `Intercept_proofs`,
`ToolRecord_proofs`, and in four modules that hold those of further components,
by INSTANCE, after the first: `Sidecar_proofs` (and `SidecarSocket`, `Policy`),
`Delegation_proofs` (and `Identity`, `Client`), `EvidenceStore_proofs` (and
`Mcp`), `Egress_proofs` (and `Capability`). `Deployed_proofs` carries them over
to what the runs explore. The `MC*` modules give the constants small values:
`MCEffectGateway`, `MCIntercept` and `MCToolRecord` by EXTENDS; `MCDeployments`
instantiates the gateway for three deployments, which `MCEnforcement` explores
side by side with the meters and the switch of `MCIntercept`; `MCFabric` explores ten instances side by side, those of `MCDelegation`
(delegation, identity, client), `MCSidecar` (sidecar, socket, policy),
`MCEvidence` (evidence, mcp) and `MCEgress` (egress, capability). Each of these
instantiates the module of proofs, so that one instance brings the components
and the theorems about them. "Side by side" means that a variable chosen in the
initial state says which instance a behaviour is about; the others rest, so the
run is the union of the instances and not their product. (Delegation and
identity are on one clock, which their modules both call `now`.) A definition marked
`Faulty:` in a module is a deliberately wrong variant of the definition after
it, and is used nowhere in the specification. Each one is a plausible bug;
putting it in the place of the right definition breaks the property it is
paired with in `PROJECT.json`, which shows that the property depends on that
piece of the code.

The modules compose where the code does. `Sidecar`, `Delegation` and `Egress`
use `Authority`'s operators, and `EffectOnce` and `AuditLog` are instantiated
by the modules that implement them. Elsewhere a component enters another as the
set of things it may answer: the policy and the guards in `Intercept`, the
daemon in `Client`, the information-flow check in `EffectGateway`, the SPIRE
agent in `Identity`, Vault in `Capability`, the upstream in `Mcp`.

### EffectGateway

A *slot* is one call of `perform`. Its `pc` names the await it is suspended on:

| pc | await | action |
|---|---|---|
| `idle` | none; `verifyEffectPermit` runs synchronously | `Begin` |
| `violation` | `#record("security_violation")` | `RecordViolation` |
| `consume` | `replayStore.consume` | `Consume` |
| `authorize` | `#record("effect_permit")` | `RecordPermit` |
| `prepare`, `start` | `journal.prepare`, `transition(executing)` | `Prepare`, `Start` |
| `execute`, `performed` | `executor(action)`, before and after the effect | `ExecutorPerforms`, `ExecutorAnswers` |
| `witness`, `commit`, `result` | the three writes after a success | `RecordExecution`, `Commit`, `RecordResult` |
| `unwitness`, `fail` | the two writes after `ok: false` | `RecordFailure`, `Fail` |

`guard`, `evidence`, `journal` and `cause` are the tables; `ran` and `answered`
are the world's view. A process boots through `Restart` (the list of unfinished
rows), `Recover` (one row), `DeliverReceipt` (`onRecovered`) and `Serve`. A
database call may fail, and a failed one may have been applied (`Outage`).

Abstractions. All signature and binding checks of a permit are one Boolean
(`bound`), independent of the state. The evidence store is a set of facts. The
UPDATE of `transition` and the read before it are one step: a row only moves
towards a terminal state, so a refusal decided on an older read still holds, and
an admission is decided again by the UPDATE's own guards. `journal.read` turns
a failed SELECT into "no row", hence the rejection under an outage. The
executor is external: it performs the effect or not, answers accordingly or
throws; an executor that answers `ok: false` after performing the effect would
make a `failed` row false, and no code here could notice. `recoverUnfinished`
and `cleanupExpired` have no caller in production code; they are modelled as
their comments prescribe, at start-up and from a job with a clock of its own.

### Intercept

A slot is one call of `intercept`; `pc` is the stage it waits in: `lookup`,
`kill`, `budget`, `guards`, `approve` or `policy`, `rate`, `save`. The server
passes no database handle to the service (`src/server.ts`), so each stage is a
transaction of its own. `Refuse` is `createDenyResponse` followed by
`saveDecision`; `Close` is `failClosed`, which answers even if its save fails.
`decide` is `DecideCheck` then `DecideUpdate`. `Answer` records what a caller
was told, `told` what an approver was told. Risk and scope of a request are
constants, since they are functions of the request; Cedar and the guards may
pass, refuse or fail at any time.

### ToolRecord

A transaction (`saveDecision`, `recordToolResult`) is followed from lock to
lock: the call's row, the two parents in the order that transaction takes them,
the chain's head. Statements that can only wait on locks the transaction
already holds are merged with the next lock. Writes are visible at `Commit`.
`Abort` is the deadlock victim, a failed statement or a lost connection. The
trigger of migration 007 is `Legal`. Hashing is injective (`Hash` appends).
`ReadEvents` and `ReadHead` are the verifier's two queries (absent, with
tampering, where `Auditing` is FALSE), `LookUp`, `Claim`
and `Run` are `execute`. A tenant's `audit_chain_state` row is assumed to exist,
as the seed creates it.

### Policy

A *request* is an operator's call; `pc` is the statement its handler is
suspended on: `lookup`, `see` and `deactivate` (the UPDATE that clears the
tenant's active rows: what it saw when it started, and the rows it gets once
their writers are done), `write`, `commit`, `reload`. `active` is the column of
that name, `inForce` each process's `#activePolicySource`, where `None` means
the file. A failed COMMIT may have been applied. An evaluation reads the source
once and runs the program on it; `Outputs` is what the program may print and
how it may exit, `Decided` what the provider makes of it. A process that takes
no operators' requests (`data_plane`) hears of an activation when it starts
again, as in the code. One source stands for a policy, one kind of call for
all, so a source permits it or not. `created` is in the order of `created_at`,
by which a restart picks the bundle it loads; that is the time the creating
transaction began, so what commits may come anywhere after the rows that were
there at first (`Placed`).

### Mcp

A session connects, lists the upstream's tools into its cache and is closed. A
call or a listing goes through `lookup`, the guard (`Contact`, `Judge`), the
other gates (`Policy`, a choice), `Run` and `Record`. The guard's transactions
are one step each; first contact is two, because `SELECT ... FOR UPDATE` of a
row that is not there locks nothing. Approving a version is three (`Pick`,
`Choose`, `Approve`), with `Abort`. The upstream changes its tools at any time.

### Authority and Delegation

`Authority` has the decision functions of `v2/delegation.ts`, `v2/ifc.ts`,
`v2/network-target-guard.ts` and `v2/security-context-envelope.ts` as operators
over grants, which are a provider and a sequence of segments. `Delegation` lets
links chain in any order, forged ones included, and envelopes be presented while
bundles are activated and time passes. `WithinRoot` compares the resolver with
`Permits`, a reference definition: the concrete capabilities a scope stands
for, segment by segment, rather than the subsumption the code computes.

### Sidecar and SidecarSocket

`handle` runs to its end without an await, so `Decision` is a function of the
state and `Sidecar`'s actions are what moves that state: documents offered in
any order, duplicated and forged ones among them, keys rotated, time, restarts.
`heard` remembers what was accepted since the process started, which is all the
code itself can compare with. `FailureContract` is the table of
`v2/failure-semantics.ts`, as far as it is about the sidecar alone (two of its
five modes), `Measures` its probes, asked of every reachable state instead of
one fresh sidecar per mode.

`SidecarSocket` is the way of a question there and back: `Check`, the one
connection shared by all questions (`client`, `dialling`), `Send`, chunks on
the socket (`Deliver`), frames (`Read`), answers, timeouts and the server's
death. An answer carries the id of its request and the client does not look at
it: who waits takes the next line. The server intercepts HTTP requests
concurrently over the one client it has, so questions overlap, in every
instance and every theorem. `shared` remembers of a connection that a question
was sent over it while another waited.

### EvidenceStore

A writer follows `append` statement by statement: `Begin`, `LockTenant`,
`ReadHead`, `Insert`, `Commit`, with a connection lost at any point (`Lose`).
`Meddle` and `Damage` are rows written or altered past the store, `Checkpoint`
whoever inserts checkpoints: the trigger of migration 011 guards them, and no
production code makes one. `Intact` is `auditEvidenceChain`. A hash is the
sequence of contents it covers.

### Capability

A call of `grant` is at Vault for `login`, `read` or `revoke`, or in the
provider's `execute`. The Vault client is shared: `client` is its cached token,
which an operator may revoke (`RevokeToken`), and `Forbidden` is the 403 that
makes a call log in again. `handles` is `leaseIdByHandle`. `Fault` and
`LoseAnswer` are a call that failed and one whose answer was lost; `failed`
remembers the leases nobody will revoke on that account.

### Egress

A decision belongs to a client and to the number of chunks read when it began,
since the listener that reads the request head stays on the socket: every later
chunk is judged again together with all before. A decision waits to verify the
ticket, to consume its nonce, to resolve the name and to dial. A failing replay
store may have consumed the nonce. An address is a spelling. `range` and
`unwraps` are what `checkDestinationAddress` sees of it: the range its family's
list finds it in, and that of the IPv4 address `embeddedIpv4` finds inside.
`reaches` is where the kernel sends what is sent there, and is not the check's
to see; `ReadAsWritten` says of an address that the two agree.

### Identity

`Mint` and `Request` (`Offered`, `Jwks`) are the two providers; what a workload
holds is verified afresh by the sidecar (`Verdict`) with the copy of the keys it
has (`known`), which the trust domain rotates past (`Rotate`, `Reload`). The
agent external to the code offers fresh or cached SVIDs of any subject the
process is entitled to. SPIRE's carry no `nbf`, so the check of that claim does
not occur.

### Client

A call is one of six kinds: `read`, `list` (ls, grep, find), `write`, `edit`,
`bash`, `wrapped`. It asks, looks its path up again (`Verify`, `List`), opens the
file or claims the plan's token and runs, and reports.

A path stands for a name once its directories are followed (`named`), and a
name ends at a file once it is opened (`ends`), the name's own or, through a
link, another's. `Leads` is `realpath`, which needs a file to be there;
`Canonical` is what a tool takes for canonical, and for a write that finds
nothing it is the name itself, link or not. What was looked up is then opened by
name (`Touch`), and the open follows whatever the name is by then: `led` and
`touched` remember where it ended at the check and at the open. Other programs
replace directories, names and links (`Move`) and write, make and remove files
(`Write`) at any time, with one bound on both (`MaxMoves`).

A plan is a value, and a second call may execute it while the first is at work
or after it (`Again`). The daemon decides once and keeps the first result; its
answers may be lost. It is `allow` or not: `deny` and `approval_required` stop a
call alike, and what an approval leads to is a plan like any other.

## 3. What TLC checks

Passing runs. Sizes are distinct states, rounded.

| Run | Instance | Shows | States |
|---|---|---|---|
| `gateway_liveness` | 1 permit, 2 processes, 2 crashes, 1 outage, fair | the same promises, and `EffectOnce` is implemented; calls end, processes come back, a restart resolves open rows | 103k |
| `intercept_approval` | 4 requests (3 present the approval of the first, one for another scope), 2 calls, 2 deciders, 1 fault | approvals permit one call, for their scope; callers agree | 2.3M |
| `enforcement_operate` | 2 requests, 2 calls, a budget and a rate limit of 1, 2 windows, 1 switch, 1 fault, fair; beside them three deployments, below | no overspending, a switch that stays on stops the call, calls end; effects happen once and after their authorization; verdicts and receipts true, answers backed; with one process, work waits for recovery | 680k |
| `record_chain` | 2 calls, 2 transactions, events to 2, 1 fault, a damaged row, HMAC tokens | the chain verifies, damage is reported, alarms mean a moved chain; refines `AuditLog` | 1.5M |
| `record_execute` | 2 calls, 2 transactions, 2 executors, 1 fault, Ed25519 tokens, no verifier, fair | one container per token; transactions end, deadlocked ones included | 122k |
| `fabric_safety` | ten instances, below | one or two properties of each component around the pipelines | 1.5M |

The deployments of `enforcement_operate` differ in what guards the effect:

| Deployment | Instance | Guarded by |
|---|---|---|
| `journal` | 1 permit, 2 processes, 2 calls, 1 crash, 1 outage, clock to 2 | guard and journal |
| `guard` | no journal, 2 permits with one nonce, retention 2, skew 1, stall 1, clock to 6 | the guard alone, through clean-up |
| `single` | 1 process, in-memory nonces, 2 permits, 2 crashes, no outage | the journal alone; one receipt per row |

The instances of `fabric_safety`:

| Subject | Instance | Properties |
|---|---|---|
| delegation | forged, widening, expired and narrow links, 3 hops, 2 bundles, envelopes of 2 agents, time to 2 | `WithinRoot`, `ContextsNarrow` |
| sidecar | policies and snapshots of versions 1 to 3 from 2 keys, 1 restart, time to 4 | `AllowsAreCurrent`, `OnlyDocumentsWiden`, `FailsAsContracted` |
| socket | 3 questions (1 denied, 1 over the frame limit) that overlap freely, 3 connections, 1 death | `AnswersStayOnTheirConnection` |
| evidence | 3 writers, 2 with equal contents, sequence to 2, 1 foreign row, 1 damaged row | `EvidenceHolds` |
| capability | 3 calls of 2 agents, 2 leases, 3 Vault tokens, 1 revocation, 1 fault | `LeasesReleased` |
| egress | 2 clients, 3 chunks, head limit 2, names that resolve to public and private addresses and to private ones inside IPv6 ones, one in a form the check reads and one in a form it does not, one ticket, 1 outage | `TicketsOpenOnce` |
| identity | 2 workloads, 2 key ids and a local key, time to 2, 1 revocation | `HeldIsHonoured` |
| mcp | 1 session, 2 calls, 1 tool with 2 manifests, 1 change, 2 server rows with 1 approval or 1 with 2 | `DriftWaits`, `GatewayAnswers` |
| client | 2 calls, of any kinds at files or of any other kinds, 1 path, 2 names inside and 1 outside, the path's own name a file or a link out, it and the target there or not, 1 move or write of others | `ToldAsRecorded` |
| policy | 2 processes, 1 of them a data plane, 2 tenants, 4 bundles, 3 requests, 1 fault, 1 restart | `PoliciesHold` |

Why the bounds are enough. Every property speaks of one permit, one request or
one pair of them, and the code keeps no state across permits or requests but
the nonce, the meters and the chain; hence two actors on one item, and two
items where they share something. One crash and one outage reach every
"failed here, retried there" order of two processes; two crashes let a
recovery itself be recovered. `MaxClock` is chosen so that a permit expires,
is cleaned up and is presented again by the slowest clock. `MaxEvents` bounds
only the start of transactions, so a chain may pass it by one append. Two
transactions are the smallest deadlock, and the code has no third kind.
`Outcomes` names the decisions and results that an instance uses; every one of
them occurs in `record_chain`, and `record_execute` keeps an allow, a report
that needs a token and one that needs none. `NoOverspend` needs two requests
that may both be allowed and one unit for them; `Requests` has just those, and
`ElapseWindow` gives the unit back once. No instance has a dry run (`DryRun` is
empty in all of them): the theorems about `Intercept`, which state every safety
property of its runs, hold for every `DryRun`.

In `fabric_safety`, three documents let a replay, a roll-back and a gap of one
version meet a restart; three hops are the least with a middle one; three
chunks let a head complete, a tunnel carry and the limit be passed; three Vault
tokens are one to lose and one for each of two calls that meet the 403; two
writers with equal contents are what `already_present` is about, and the third
writes while they resolve it; two rows and two approvals are the two races of
the MCP guard, which touch different tables and are explored one at a time
(`EitherRace`); two calls of a client meet at a file or over a plan
(`CallersMeet`); three requests are two that race and one before them.

`enforcement_operate` checks its deployments, and `fabric_safety` its instances,
for safety only. `fabric_safety` sets `SYMMETRY` on `one` and `two`, two callers
nothing tells apart: no constant gives them different values, no CHOOSE ranges
over them, and its properties are invariants and properties of single steps.
The same holds of what `intercept_approval` and `record_chain` interchange. Deadlock is not checked in the
`fabric` runs, whose instances run out of bounded work; it is in all others.

Runs that TLC refutes. Each states what a document or comment of the repository
says, and the counterexample is what the code does.

| Run | Statement | Counterexample |
|---|---|---|
| `gateway_blind_recovery` | a journal that cannot be reached is reported, before the gateway serves | `unfinished` swallows the error |
| `intercept_denial` | a decided approval stays decided | two deciders pass the check |
| `record_unrecorded` | a vouched result is recorded | the trigger refuses the transition |
| `fabric_crossed` | one request, one response: an answer is for its question | two questions at once share buffer and next line |
| `fabric_tunnel` | bytes past the head belong to the tunnel | the head's listener stays and judges them |
| `fabric_dressed` | an IPv4 address dressed as IPv6 is judged by the IPv4 rules | `embeddedIpv4` reads four forms, and others are judged by the IPv6 list alone |

The models show more differences of this kind, for which no run is kept. They
are in the models as they are in the code, and bound what a property can say.

Gateway and journal:

- a crash between the transition to `uncertain` and `onRecovered` leaves a
  closed row without the "signed receipt each" of `v2/effect-commit.ts:573`;
- two processes that recover at once both sign a receipt for one row, since
  restating the same outcome is recorded again (`ReceiptsTruthful` therefore
  asks for one receipt with one process only);
- a replica that restarts closes the row of a call its live peer is running,
  and that call may then answer `performed: true` over an `uncertain` row.

Decisions and records:

- `decide` does not look at `expires_at`, and renews it;
- a dry run's `approval_required` reads back as `deny` when submitted again
  (`AnswersAgree` therefore speaks of enforced requests);
- a repeated request can spend the approval and store a denial;
- nothing moves a call to `executing` when its container starts, and `blocked`
  can be reported while it runs;
- the verifier alarms on an append between its two reads
  (`audit-chain-verifier.ts:52`), where `docs/security-hardening.md:52` speaks of
  a "direct tamper check"; `AlarmMeansMoved` says that nothing else but damage does.

Policies and MCP:

- two activations of one tenant, neither of which sees the other's row active,
  leave two active bundles;
- the order in which processes reload is not the order in which the database
  committed, so the policy in force may be the one just deactivated; a COMMIT
  whose answer is lost is never loaded, and a data plane hears of no activation
  before it starts again;
- one provider serves every tenant of a process: an activation by one changes
  the policy of all, and a restart loads the newest active bundle of any;
- two first contacts with a server make two rows, each with a baseline of its
  own; two concurrent approvals leave two approved versions of one tool;
- the manifest the guard judges is the session's cached one, and `callTool` is
  not bound to it; the upstream client is never closed.

Fabric:

- `resolveDelegation` compares the ends of a chain with the root and not each
  hop with the one before, so a hop may widen what it was given within the root;
- `keyIdFor` reports the first trusted key, not the one that verified;
- the frame limit of `v2/sidecar-server.ts:118` counts a whole chunk, so a short
  request behind a long one is refused with it;
- senders waiting when the server ends a stream plainly wait for their timer;
- two calls that meet a 403 at once each log in, and the second throws away the
  token of the first (`v2/production-providers.ts:401`);
- a SPIFFE stream that errors leaves its session open.

Clients:

- a dangling link is taken for a file to be made (`existsSync`,
  `packages/pi-adapter/src/guarded_write.ts:60`) and the write makes its target,
  inside or outside, where the repository's
  `docs/archive/implementation_spec.md:1475` wants it denied;
- `guarded_edit` compares the hash and writes in two steps, so a write in
  between is lost, though `guarded_edit.test.ts:263` says that "it blocks instead
  of overwriting newer content" (checked there with a change before the check);
- what was looked up is opened by name afterwards, so a link that came to lie
  there in between is followed, out of the workspace too
  (`packages/pi-adapter/src/guarded_read.ts:209`, `guarded_write.ts:224`,
  `guarded_edit.ts:217`). The repository's `docs/archive/strategic_roadmap.md:578`
  says so and leaves it to the sandbox; `ToldAsRecorded` therefore says of a file
  outside the workspace when it may be opened, not that it never is;
- `guarded_find` follows links below its root (`statSync`, `guarded_find.ts:153`),
  which `guarded_grep` does not;
- `wrapTool` reports `failed` for a success whose first report was lost;
- after a path moved, write, edit, ls, grep and find throw without a report,
  while read reports `blocked`;
- `shell_executor.ts:619` passes `claims.decision_id`, a field that
  `parseDecisionTokenClaims` does not return;
- killing the docker client at its time limit does not stop the container.

### Fairness

`FairSpec` assumes weak fairness of each call's `Continue`: an awaited promise
settles, because every database or executor call either answers or rejects.
`EffectGateway` adds weak fairness of `Boot`: `docker-compose.yml` restarts the
daemon (`restart: unless-stopped`) and start-up proceeds. `ToolRecord` assumes
strong fairness of each transaction's progress: PostgreSQL queues lock waiters
in order and breaks deadlocks, so a transaction that can proceed again and again
does. Nothing is assumed about new calls, crashes, outages, operators, the
clock or the clean-up job. The bounds on
crashes and outages make both eventually stop. `RowsResolve` asks for a restart
that meets no further outage: a row that is left open by a failed statement or a
throwing executor stays open until some process restarts, and a failed list of
unfinished rows is taken for an empty one, which is what the code does.

## 4. What TLAPS proves

For arbitrary constants, but for `Deployed_proofs`; no bound of the models is
used. The modules `EffectGateway`, `Intercept` and `ToolRecord` assume their
`ConstantsAssumption`. The other components declare no assumption: their
theorems carry what they need as hypotheses. `MCFabric` assumes these of its ten
instances (`InstancesWellFormed`) and `MCDeployments` the gateway's of its three
(`DeploymentsWellFormed`), so TLC evaluates every one of them in the runs and
none is a condition that nothing meets.

| Hypothesis | Of | Says |
|---|---|---|
| `AddressesWellFormed`, `HostsResolve`, `HostsAreNames` | `Egress` | only in an IPv6 address an IPv4 one is found; the resolver has an answer, if only an empty one, for every host a ticket names; hosts and rules are sequences of labels, a rule of one at least |
| `EgressBounds`, `VaultBounds`, `GatewayBounds` | `Egress`, `Capability`, `Mcp` | the bounds of the model are numbers; there is a row for a first MCP server |
| `LeasesAreNamed` | `Capability` | no lease is the absence of one |
| `NamesDistinct`, `RowsWellFormed` | `Policy` | bundles, verdicts and the absence of either are told apart; the rows there are hold the seeded one |
| `GrantsParsed`, `VersionsCount`, `IdentitiesArePairs` | `Delegation` | grants are sequences of segments, as `parseGrant` leaves them; versions and bounds are numbers; an identity is an agent and a nonce |
| `IdentitiesWellFormed`, `TrustDomainWellFormed` | `Identity` | a token lives a while, ES256 is an algorithm, a minted token has an id; the SPIRE agent names workloads there are, one signing key is the first |
| `PathsWellFormed` | `Client` | a path stands for a name by itself; no name is both inside and outside, and where a link ends there is none; bounds are numbers |
| `DocumentsWellFormed`, `RequestsWellFormed` | `Sidecar` | versions, ends and times are numbers, a request is of one of the six types |
| `QuestionsWellFormed` | `SidecarSocket` | a question is no error, a socket is something; bounds are numbers |
| `StoreWellFormed` | `EvidenceStore` | a row is not the absence of a row, a writer is somebody, bounds are numbers |
| `ListingsAreFinite` | `Mcp` | an upstream lists finitely many tools |

All of these are form. More than form are the conditions `Protected`,
`NoncesProtected`, `Journaling`, `OneProcess` and `MaxOutages = 0` of the
gateway's theorems, explained below, and two in `Sidecar_proofs`:
`DocumentsAloneWiden` is about tokens issued at time 0, since one from the
future is refused until its time comes, while `OutagesNeverWiden` holds of every
token that is not from the future; `FailuresAsContracted` wants the mark of
targets too large to be walked to differ from having no targets.

| Theorem | States | Argument |
|---|---|---|
| `EffectGateway_proofs!TypeCorrect` | `TypeOK` | one step per action |
| `EffectGateway_proofs!EffectsHappenOnce` | `Protected => (Spec => []AtMostOnce)` | `OnceInv` |
| `EffectGateway_proofs!NoncesTakeEffectOnce` | `NoncesProtected => (Spec => []NonceOnce)` | `NonceInv` |
| `EffectGateway_proofs!AnswersAreBacked`, `EffectsAreAuthorized` | `AnswerBacked`, `EffectsAuthorized` | `EvidenceInv` |
| `EffectGateway_proofs!JournalsAreTruthful`, `VerdictsAreFinal` | `JournalTruthful`, `VerdictsFinal` | `JournalInv` |
| `EffectGateway_proofs!ReceiptsAreTruthful` | `ReceiptsTruthful` | `ReceiptInv` |
| `EffectGateway_proofs!GatewayImplementsEffectOnce` | `ImplementsEffectOnce`, with a journal | one step per action of `EffectOnce` |
| `EffectGateway_proofs!EffectsOnlyWhileOpen`, `OneProcessSignsOnce`, `OneProcessRecoversFirst` | what a single process adds | `ModeInv`, `SoloInv` |
| `Intercept_proofs!TypeCorrect` | `TypeOK` | one step per action |
| `Intercept_proofs!AllowsAreApproved` | `AllowNeedsApproval` | `ApprovalInv` |
| `Intercept_proofs!ApprovalsSpentOnce` | `ApprovalSpentOnce` | two allowed calls on one approval both are the one that spent it |
| `Intercept_proofs!CallersAgree` | `AnswersAgree` | `AnswerInv` |
| `Intercept_proofs!SwitchesStop` | `KillHolds` | `ExposedIsStopped` |
| `Intercept_proofs!LimitsHold` | `NoOverspend` | `SpendInv` |
| `ToolRecord_proofs!TypeCorrect` | `TypeOK` | one step per action |
| `ToolRecord_proofs!LocksExclude` | `LockInv` | whoever is past a lock is alone with it |
| `ToolRecord_proofs!HeadStaysHeld` | `HeadHeld` | part of `LockInv` |
| `ToolRecord_proofs!ChainHolds` | `ChainVerifies` | an append over the current head extends a chain that verifies |
| `ToolRecord_proofs!RecordsImplementHistory` | `ImplementsAuditLog` | a commit is a step of `AuditLog`, anything else stutters |
| `ToolRecord_proofs!TokensRunOnce` | `RunsOnce` | `ExecInv` |
| `ToolRecord_proofs!DamageIsReported`, `AlarmsExplained` | `DamageReported`, `AlarmMeansMoved` | `VerifierInv` |
| `Delegation_proofs!SubsumptionSound` | a subsumed grant permits no more | segment by segment |
| `Delegation_proofs!NarrowingComposes` | narrower than narrower is narrower | the same, of two comparisons |
| `Delegation_proofs!DelegationNarrows` | `WithinRoot` | `SubsumptionSound` along the chain |
| `Delegation_proofs!ContextsOnlyNarrow` | `ContextsNarrow` | `ContextInv` |
| `Delegation_proofs!IdentitiesAreHonoured` | `HeldIsHonoured` | `IdentityInv` |
| `Delegation_proofs!AgentsAreToldTruth` | `ToldAsRecorded` | `ClientInv` |
| `Sidecar_proofs!DecidesByTheNewest` | `AllowsAreCurrent` | `SidecarInv` |
| `Sidecar_proofs!OutagesNeverWiden`, `DocumentsAloneWiden` | `OnlyDocumentsWiden` | `SidecarInv` |
| `Sidecar_proofs!FailuresAsContracted` | `FailsAsContracted` | `SidecarInv`, one case per mode |
| `Sidecar_proofs!AnswersAreOnesOwn` | `AnswersStayOnTheirConnection` | `AnswersInv` |
| `Sidecar_proofs!PoliciesAreSound` | `PoliciesHold` | `PolicyInv` |
| `EvidenceStore_proofs!AppendersNeverFork`, `AuditsTellTruth` | the two halves of `EvidenceHolds` | `EvidenceInv` |
| `EvidenceStore_proofs!DriftAlwaysWaits`, `GatewayAnswersTruly` | `DriftWaits`, `GatewayAnswers` | `McpInv` |
| `Egress_proofs!TicketsAreSpentOnce` | `TicketsOpenOnce` | `EgressInv` |
| `Egress_proofs!TunnelsStayOnTheList` | connections to listed hosts and ports only | `EgressInv`, `RulesAreSuffixes` |
| `Egress_proofs!LeasesAreReleased` | `LeasesReleased` | `LeaseInv` |

Type correctness of the ten components around the pipelines is stated by
`DelegationTyped`, `IdentityTypeCorrect`, `ClientTyped`, `SidecarTyped`,
`SocketTyped`, `PolicyTyped`, `EvidenceTyped`, `McpTypeCorrect`, `EgressTyped`
and `CapabilityTyped`, each for all constants, and together by `FabricTyped`.
They rest on the invariants named above where a type is more than a shape: that
a call of the broker holds a lease where it hands one out (`LeaseInv`), that the
versions of a tool are finitely many and numbered (`VersionsInv`), that what a
request of `Policy` writes is a row there is (`PolicyInv`).

### The composition

`Deployed_proofs` is about `MCFabric` and `MCDeployments` themselves. Its lemmas
(`SidecarBehaves` and so on) say that a behaviour of the composition either is,
from its first state on, a behaviour of the component its subject names, or is
never about it: the subject does not change, the initial state of the
composition is one of that component, and every step that is about it is one of
the component's or leaves its variables alone. With them, and with
`InstancesWellFormed` for the hypotheses, each theorem of a component becomes
one of the composition, for any set of subjects:

| `Deployed_proofs!` | States | From |
|---|---|---|
| `DelegationsStayWithinRoot`, `ContextsOnlyEverNarrow` | `WithinRoot`, `ContextsNarrow` | `DelegationNarrows`, `ContextsOnlyNarrow` |
| `SidecarDecidesByTheNewest`, `DocumentsAloneEverWiden`, `SidecarFailsAsContracted` | `AllowsAreCurrent`, `OnlyDocumentsWiden`, `FailsAsContracted` | `DecidesByTheNewest`, `DocumentsAloneWiden`, `FailuresAsContracted` |
| `AnswersKeepToTheirConnection` | `AnswersStayOnTheirConnection` | `AnswersAreOnesOwn` |
| `EvidenceIsSound` | `EvidenceHolds` | `AppendersNeverFork` and `AuditsTellTruth` |
| `CredentialsAreReleased`, `TicketsOpenOneTunnel` | `LeasesReleased`, `TicketsOpenOnce` | `LeasesAreReleased`, `TicketsAreSpentOnce` |
| `VerifiedIsEnforced`, `AgentsAreTold` | `HeldIsHonoured`, `ToldAsRecorded` | `IdentitiesAreHonoured`, `AgentsAreToldTruth` |
| `DriftIsApprovedFirst`, `GatewayTellsTheRecord` | `DriftWaits`, `GatewayAnswers` | `DriftAlwaysWaits`, `GatewayAnswersTruly` |
| `ActivatedPoliciesDecide` | `PoliciesHold` | `PoliciesAreSound` |
| `FabricTyped` | `TypeOK` | the ten type theorems |
| `DeploymentsKeepPromises` | `PromisesKept` | the gateway's, under what each deployment meets of `Protected`, `NoncesProtected`, `Journaling`, `OneProcess` |
| `SingleRecoversFirst` | `RecoveryFirst` | `OneProcessRecoversFirst`, `EffectsOnlyWhileOpen` |

These are as general as the instances are; the general statements are the
components'. What they add is that the runs and the theorems are about the same
thing: were a hypothesis false of an instance, or a component's step not what
the composition takes, TLC or the prover would say so.

### The gateway

`AtMostOnce` is not inductive: nothing in it says why a second call cannot be
on its way to the executor. `OnceInv` adds that. A call beyond the claim
("owning") has left a mark, the journal row or else the replay guard's; two
owning calls have different permits; an owning call before the effect finds
`ran = 0`; and where anything ran, the mark is there. The journal's mark is
permanent. The guard's is not: `Marked` holds of a permit whose row was removed
only once the permit has been expired for longer than retention, skew
included, and `ConsumeInTime` says a call that verified the permit earlier
cannot still be waiting. That is where the condition of `Protected`,
`2 * Skew + MaxStall <= Retention + 1`, comes from. It is the real assumption
behind the 24 hours of `DEFAULT_REPLAY_RETENTION_MS`, and it is the deployment's
to guarantee: nothing in the code bounds a stall.

`NonceOnce` is about the replay guard alone, for a journal has one row per
permit and not per nonce. `NonceInv` is `OnceInv` for nonces: who is past the
claim has spent its nonce, is the only one on it, and no other permit of that
nonce has run. The guard forgets a row by the expiry of the permit that claimed
it, so `NoncesProtected` asks that another permit of the nonce does not live on
when that row goes: `Expires[q] + 2 * Skew + MaxStall <= Expires[p] + Retention + 1`.

`EvidenceInv` says what a call has put on record by the await it waits in; it
needs no journal. `JournalInv` adds what the row of its permit says there:
`executing` where the call is between `transition(executing)` and its verdict,
or `uncertain`, since another process may recover the row of a live call at any
time. A verdict is written over `executing` only, so it is true when written, and
`VerdictsAreFinal` says it stays. With `AtMostOnce` that makes each step of the
gateway one of `EffectOnce` or a stutter: authorizing, announcing, performing
and judging a permit's effect are the only steps that show.

`ReceiptsTruthful` needs no more than that a row about to be signed is
`uncertain` with a cause (`SignedRows`). That it is signed once takes one process:
then a row on recovery's list is as the list found it (`TodoIsOpen`), since only
the process itself could change it, and its calls died with the last crash
(`ModeInv`). `OneProcessRecoversFirst` also takes a database that answers
(`MaxOutages = 0`), for `unfinished` returns an empty list where it cannot read:
that is the counterexample of `gateway_blind_recovery`, and the theorem shows
that one process has no other.

### Decisions and records

`AllowNeedsApproval` is strengthened by what a call in flight knows
(`CallsBacked`), by a row never being approved without a vote
(`RowsFollowDecisions`), and by deciders holding only rows that exist
(`VotersHaveRows`), since `saveDecision` would otherwise overwrite a vote.

`AnswersAgree` is lost if a lookup reads a decision back differently from how it
was told. `AnswerInv` rules out the two ways: a call that `failClosed` has
started is saving a denial and nothing else, and a decision that awaits
approval has its approval row (but for dry runs, which have none and do read back
differently). `ExposedIsStopped` says where a call may be that was stopped
before it was submitted: before the kill switch lookup, or saving a denial.

`NoOverspend` counts stored allows, and the code counts charges, which come
earlier and are not given back. `SpendInv` counts both: for each row, the allowed
requests and the calls that have paid and are not yet stored fit into what the
windows so far had room for, `Limit * (windows - 1) + used`. Storing moves a call
from one count to the other, a second call of one request adds nothing, and a
new window clears what was used and opens room for at least as much.

`VerifierInv` turns on `Broken`, the damage that no append repairs. What the
verifier read of a damaged chain is broken already when it began, so it alarms
whatever is appended later; what it read of an undamaged one is how the chain
still begins (`Begins`), so an alarm means the head has moved past it.

### Documents, chains and identities

`SubsumptionSound` is what delegation and contexts rest on: a grant that
subsumes another, by the comparison the code makes of their segments, permits
every capability the other permits. Wildcards are why it needs a
proof: `*` stands for one segment, `**` for whatever is left. `NarrowingComposes` says the
comparison is transitive, so a chain that narrowed hop by hop would be within
its root. The code asks for the latter only (section 3), which is the weaker
condition; `DelegationNarrows` shows it is enough.

`SidecarInv` says the lease and the floor in force are those of the newest
document accepted since the process started (`HoldsNewest`), in whatever order
they were offered. The decision is then a function of what was heard and the
time, and time only ends things, except that it lets tokens begin.

Of the evidence chain, what a writer read under the tenant's lock is still the
end of the chain when it inserts (`ReadersAtTheEnd`); hashes cover as many
records as their position says, so no two are equal, and nobody meets a fork.
`ChainInv` says this of an untouched chain. That the hash at each position of a
chain that passes the audit covers the contents of every record before it
(`ChainCovers`) would be proved by induction; the library's induction takes an
operator, so `LeastNumber` states the least-number principle for a set instead,
and the argument is about the least position where it would fail.

`IdentityInv`: what a request has in hand was issued by now, and what it holds
is its own, so the sidecar's check can fail only for the reasons the property
lists.

### Sockets, tools and leases

That an answer is for its own question is false of the code
(`fabric_crossed`). What holds, whatever overlaps, is that every line on a
connection belongs to a question sent over it (`Carried`), because a timeout
destroys the connection and a reconnection is another one; and that on a
connection no two questions ever waited on at once there is one line at most,
the waiting one's (`Alone`). So an answer that was taken is of the same
connection, and of the question itself unless the connection was `shared`.

`ClientInv` follows a call of any kind to its end: allowed where it acts, one
act among all executions of a plan, for which its claimed token speaks
(`OneHolds`), a name in the workspace to open (`Opens`), and a status that says
what was done. The report may be lost and repeated; the daemon keeps the first.
Of the file opened `Opens` can say no more than that it was outside because the
name ended elsewhere than at the check, or was a link a write took for nothing.

`McpInv` has three parts: what a call carries and has recorded at each stage
(`AnswersInv`); that a tool with a version has an approved one, that first ones
are unique, and that versions are finitely many and numbered, so the newest
exists (`VersionsInv`); and that an approval clears rows of its own tool only
(`ReviewsInv`). Trust once given lasts, which is why a call judged before an
approval is still right after it.

`TicketsOpenOnce` speaks of decisions that have dialled. `EgressInv` carries
what each stage before that already stands for: a decision past the
verification has a genuine ticket that names its destination, one past the
replay store has its nonce in the store and is alone with it, and one that
dials has an address `AddressAllowed` let pass, which is as good as where it
leads if the check read it right (`ReadAsWritten`), and no better
(`fabric_dressed`). What it dials is on the list:
`RulesAreSuffixes` shows that a rule `*.name`, as `hostMatchesRule` compares it,
stands for the names with one label at least before `name`, and nothing else.
A chunk that starts a decision
over withdraws what had come of it, but not the nonce.

`LeaseInv` says where the lease of a call is at each await, that no two calls
hold one lease, and that a lease in force is held by a call or was given up on
(`failed`): on every path out of `grant`, by an answer, a fault or a lost one.

`PolicyInv` says of a request past the parser that its bundle parses, of the
rows it takes out that they are its own tenant's, and of one about to reload
that its bundle has been committed as active. So the commit that takes a
tenant's active rows out puts one of the same tenant in, whatever other
requests did since they were seen.

### Only model-checked

- Liveness under fairness (`CallsEnd`, `BootsComplete`, `RowsResolve`,
  `TxsEnd`), which the prover's temporal backend does not reach, nor `ENABLED`.
- The statements about documents and comments in the runs that TLC refutes: they
  are false of the code, so there is nothing to prove. Where a weaker statement
  holds it is a theorem: `AnswersStayOnTheirConnection` of `OnlyAllowedProceed`
  and `TicketsOpenOnce` of `DressedAreJudged`.

Every invariant and every action property that a passing run checks is the
statement of a theorem.

No module declares a RECURSIVE operator.

## 5. Not modelled, and the plan

The information-flow rule of `Authority` is a comparison of two finite tables;
`MayFlow` says all there is, and nothing is proved of it beyond its use in
`SidecarInv`. Left to prove would be liveness, were the prover to reach it: the
chain from `Continue` to `CallsEnd` is a measure that each await lowers.

Partly modelled, with what is missing:

- the container's life in `docker-executor.ts` and the Pi adapter's
  `shell_executor.ts`: networks, image pulls, output limits, the kill at the
  time limit. One token, one start is modelled (`ToolRecord`, `Client`); what
  the docker client then does is the output of a program outside the code;
- what `ls`, `grep` and `find` meet below their root; the root is modelled;
- the failure contract's other three modes: `sidecar_unavailable` needs a gateway
  with an undefined permit, `identity_service_unavailable` allows every outcome,
  and the evidence sink's failures are actions of `EffectGateway` and no probes;
- the providers of credentials that keep no state (static, OAuth, cloud), and
  the HTTP fetches that a deployment wraps around `offer`;
- the risk engine's rules and the routes that edit rules, budgets and rate
  limits;
- connection pooling and migrations.

Left out for good: Cedar's policy language and the signature primitives
(external), certificate and protocol parsing, the byte relay of the egress
proxy, container flags, kernel policy rendering and event ingestion, HTTP
wiring and read-only routes, the dashboard, benchmarks, demos and release
scripts. They keep no state of the protocol or are pure input and output.
`leasePendingToolCalls` has no caller outside its tests. Row-level security is
left out too: the daemon of `docker-compose.yml` connects as a superuser, whom
it does not bind. `PROJECT.json` lists every component with its status, every
hazard with the properties that cover it, and every definition with the lines
it stands for.

## 6. Running

    tlc -workers 2 -config MCFabric_safety.cfg MCFabric
    tlapm EffectGateway_proofs.tla

Each run is `<module>_<name>.cfg` with the `MC` module it is named after. To
explore one subject alone, leave the others out of `Subjects` or `Deployments`
in a copy of the configuration.
