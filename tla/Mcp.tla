--------------------------------- MODULE Mcp ----------------------------------
(***************************************************************************)
(* The MCP gateway and the guard of the manifests it sees.                 *)
(*                                                                         *)
(*   mcp-gateway.ts              sessions, lookupTool, filterGatewayTools, *)
(*                               executeGatewayToolCall                    *)
(*   mcp-manifest-guard.ts       PostgresMcpManifestGuard.evaluate         *)
(*   mcp-tool-version-routes.ts  the approve route                         *)
(*                                                                         *)
(* The database runs at READ COMMITTED.  SELECT ... FOR UPDATE of a server *)
(* nobody has met locks nothing, so two first contacts insert two rows.    *)
(* The upstream server is external and changes its tools as it likes.  The *)
(* other gates of the interception are a choice made after the guard's.    *)
(***************************************************************************)
EXTENDS Naturals, FiniteSets

CONSTANTS
    Sessions, Calls, Tools,
    Manifests,      \* what a tool may look like: schema and description hashes
    Rows,           \* ids of mcp_servers rows
    NoManifest,     \* the upstream has no such tool
    NoRow,
    MaxChanges,     \* bound of the model: changes of the upstream's tools
    MaxReviews      \* bound of the model: approvals of tool versions

VARIABLES
    upstream,   \* what the upstream serves
    session,    \* each session: its state, its upstream connection, its tool cache
    call,       \* each call or listing: its stage and what it carries
    servers,    \* committed rows of mcp_servers
    versions,   \* committed rows of mcp_tool_versions
    review,     \* each version: the approval of it that is under way
    recorded,   \* tool results that were recorded
    changes, reviews

vars == <<upstream, session, call, servers, versions, review, recorded, changes, reviews>>
database == <<servers, versions, review>>

(* A version is known by its server row, tool and manifest; first says the *)
(* guard approved it on first use, blessed that an operator ever did.      *)
Key(v) == [server |-> v.server, tool |-> v.tool, manifest |-> v.manifest]
Keys == [server : Rows, tool : Tools, manifest : Manifests]
Caches == [Tools -> Manifests \cup {NoManifest}]
NoCache == [t \in Tools |-> NoManifest]
NoReview == [stage |-> "none", clears |-> {}]

McpTypeOK ==
    /\ upstream \in Caches
    /\ session \in [Sessions -> [state : {"new", "connecting", "open", "closed", "failed"},
                                 upstream : BOOLEAN, cache : Caches]]
    /\ \A c \in Calls :
          /\ call[c].kind \in {"call", "list"} /\ call[c].tool \in Tools
          /\ call[c].session \in Sessions
          /\ call[c].manifest \in Manifests \cup {NoManifest}
          /\ call[c].row \in Rows \cup {NoRow}
          /\ call[c].stage \in {"idle", "refresh", "contact", "judge", "policy", "run",
                                "record", "done"}
          /\ call[c].outcome \in {"none", "unknown", "listed", "hidden", "blocked",
                                  "executed", "failed", "closed"}
    /\ servers \subseteq Rows
    /\ \A v \in versions : /\ Key(v) \in Keys /\ v.born \in Nat
                           /\ {v.approved, v.first, v.blessed} \subseteq BOOLEAN
    /\ recorded \subseteq Calls \X {"blocked", "executed", "failed"}
    /\ changes \in 0..MaxChanges /\ reviews \in 0..MaxReviews

(* What first contact left of a server met before. *)
FirstSeen(row, known) ==
    {[server |-> row, tool |-> t, manifest |-> known, approved |-> TRUE,
      first |-> TRUE, blessed |-> FALSE, born |-> 1] : t \in Tools}

Init ==
    /\ upstream \in [Tools -> Manifests]
    /\ session = [s \in Sessions |-> [state |-> "new", upstream |-> FALSE, cache |-> NoCache]]
    /\ call \in [Calls -> [kind : {"call", "list"}, tool : Tools, session : Sessions,
                           manifest : {NoManifest}, row : {NoRow}, stage : {"idle"},
                           outcome : {"none"}, ran : {FALSE}]]
    /\ \/ servers = {} /\ versions = {}
       \/ \E known \in Manifests :
             /\ servers = {CHOOSE r \in Rows : TRUE}
             /\ versions = FirstSeen(CHOOSE r \in Rows : TRUE, known)
    /\ review = [k \in Keys |-> NoReview]
    /\ recorded = {}
    /\ changes = 0 /\ reviews = 0

-----------------------------------------------------------------------------
(* Sessions.  Closing one forgets it; nothing closes its upstream client.  *)

SessionStep(s, state, linked) ==
    /\ session' = [session EXCEPT ![s].state = state, ![s].upstream = linked]
    /\ UNCHANGED <<upstream, call, database, recorded, changes, reviews>>

Connect(s) == session[s].state = "new" /\ SessionStep(s, "connecting", FALSE)

(* The upstream may refuse, or the client may fail after the upstream took. *)
Connected(s) == session[s].state = "connecting" /\ SessionStep(s, "open", TRUE)
ConnectFails(s) ==
    /\ session[s].state = "connecting"
    /\ \E linked \in BOOLEAN : SessionStep(s, "failed", linked)

Close(s) == session[s].state = "open" /\ SessionStep(s, "closed", session[s].upstream)

-----------------------------------------------------------------------------
(* Calls and listings *)

Cached(c) == session[call[c].session].cache[call[c].tool]

Goto(c, stage) == call' = [call EXCEPT ![c].stage = stage]
Finish(c, outcome) ==
    call' = [call EXCEPT ![c].stage = "done", ![c].outcome = outcome]

(* What judges a manifest is the copy this session has of it. *)
Lookup(c) ==
    /\ call[c].stage = "idle" /\ session[call[c].session].state = "open"
    /\ IF call[c].kind = "call" /\ Cached(c) # NoManifest
       THEN call' = [call EXCEPT ![c].stage = "contact", ![c].manifest = Cached(c)]
       ELSE Goto(c, "refresh")
    /\ UNCHANGED <<upstream, session, database, recorded, changes, reviews>>

(* The cache is emptied and filled again.  A listing judges the tools one  *)
(* after the other; the model follows one of them.                         *)
Refresh(c) ==
    /\ call[c].stage = "refresh"
    /\ session' = [session EXCEPT ![call[c].session].cache = upstream]
    /\ IF upstream[call[c].tool] = NoManifest THEN Finish(c, "unknown")
       ELSE call' = [call EXCEPT ![c].stage = "contact", ![c].manifest = upstream[call[c].tool]]
    /\ UNCHANGED <<upstream, database, recorded, changes, reviews>>

-----------------------------------------------------------------------------
(* The guard: one transaction *)

Judging(c) == call[c].stage = "judge"
Locked(rows) == \E c \in Calls : Judging(c) /\ call[c].row \in rows

(* The first row found, in no order; none is a first contact, whose row    *)
(* nobody sees before the commit.                                          *)
Contact(c) ==
    /\ call[c].stage = "contact" /\ ~Locked(servers)
    /\ LET unused == Rows \ (servers \cup {call[d].row : d \in Calls})
           found  == IF servers # {} THEN servers
                     ELSE IF unused = {} THEN {}
                     ELSE {CHOOSE r \in unused : TRUE}
       IN  \E r \in found : call' = [call EXCEPT ![c].stage = "judge", ![c].row = r]
    /\ UNCHANGED <<upstream, session, database, recorded, changes, reviews>>

OfTool(c) == {v \in versions : v.server = call[c].row /\ v.tool = call[c].tool}
Approved(c) == {v \in OfTool(c) : v.approved}
Newest(c) == CHOOSE v \in Approved(c) : \A w \in Approved(c) : w.born <= v.born

Version(c, trusted) ==
    [server |-> call[c].row, tool |-> call[c].tool, manifest |-> call[c].manifest,
     approved |-> trusted, first |-> trusted, blessed |-> FALSE,
     born |-> Cardinality(versions) + 1]

(* A refused listing hides the tool; a refused call is recorded blocked. *)
Refuse(c) ==
    IF call[c].kind = "list" THEN Finish(c, "hidden")
    ELSE call' = [call EXCEPT ![c].stage = "record", ![c].outcome = "blocked"]

(* No approved version: this one is trusted.  Otherwise only the newest    *)
(* approved manifest passes, and another is noted.                         *)
Judge(c) ==
    /\ Judging(c)
    /\ servers' = servers \cup {call[c].row}
    /\ IF Approved(c) = {}
       THEN Goto(c, "policy") /\ versions' = versions \cup {Version(c, TRUE)}
       ELSE IF Newest(c).manifest = call[c].manifest
       THEN Goto(c, "policy") /\ UNCHANGED versions
       ELSE /\ Refuse(c)
            /\ versions' = IF \E v \in OfTool(c) : v.manifest = call[c].manifest THEN versions
                           ELSE versions \cup {Version(c, FALSE)}
    /\ UNCHANGED <<upstream, session, review, recorded, changes, reviews>>

(* The database fails and the transaction is rolled back: denied. *)
GuardFails(c) ==
    /\ call[c].stage \in {"contact", "judge"}
    /\ Refuse(c)
    /\ UNCHANGED <<upstream, session, database, recorded, changes, reviews>>

-----------------------------------------------------------------------------
(* The rest of the interception, the tool, the record *)

Policy(c) ==
    /\ call[c].stage = "policy"
    /\ \/ Refuse(c)
       \/ call[c].kind = "list" /\ Finish(c, "listed")
       \/ call[c].kind = "call" /\ Goto(c, "run")
    /\ UNCHANGED <<upstream, session, database, recorded, changes, reviews>>

(* Nothing ties what runs to the manifest that was judged. *)
Run(c) ==
    /\ call[c].stage = "run"
    /\ \E outcome \in {"executed", "failed"}, ran \in BOOLEAN :
          /\ outcome = "executed" => ran
          /\ call' = [call EXCEPT ![c].stage = "record", ![c].outcome = outcome, ![c].ran = ran]
    /\ UNCHANGED <<upstream, session, database, recorded, changes, reviews>>

Record(c) ==
    /\ call[c].stage = "record"
    /\ recorded' = recorded \cup {<<c, call[c].outcome>>}
    /\ Finish(c, call[c].outcome)
    /\ UNCHANGED <<upstream, session, database, changes, reviews>>

(* Faulty: the result is passed on all the same. *)
RecordFailsOpen(c) ==
    /\ call[c].stage = "record"
    /\ Finish(c, call[c].outcome)
    /\ UNCHANGED <<upstream, session, database, recorded, changes, reviews>>

(* "failed closed", whatever the tool did. *)
RecordFails(c) ==
    /\ call[c].stage = "record"
    /\ Finish(c, "closed")
    /\ UNCHANGED <<upstream, session, database, recorded, changes, reviews>>

-----------------------------------------------------------------------------
(* Approval of a version.  Its row is locked first; the update that clears *)
(* the others chooses its rows before it may have to wait for their locks. *)

Pick(k) ==
    /\ reviews < MaxReviews /\ reviews' = reviews + 1
    /\ review[k].stage = "none"
    /\ \E v \in versions : Key(v) = k
    /\ review' = [review EXCEPT ![k] = [stage |-> "locked", clears |-> {}]]
    /\ UNCHANGED <<upstream, session, call, servers, versions, recorded, changes>>

ApprovedBeside(k) ==
    {Key(v) : v \in {w \in versions : w.server = k.server /\ w.tool = k.tool /\ w.approved}}

(* Faulty: the others are cleared in a transaction of their own. *)
ChooseAndClear(k) ==
    /\ review[k].stage = "locked"
    /\ review' = [review EXCEPT ![k] = [stage |-> "clearing", clears |-> {}]]
    /\ versions' = {[v EXCEPT !.approved = @ /\ Key(v) \notin ApprovedBeside(k)] : v \in versions}
    /\ UNCHANGED <<upstream, session, call, servers, recorded, changes, reviews>>

Choose(k) ==
    /\ review[k].stage = "locked"
    /\ review' = [review EXCEPT ![k] = [stage |-> "clearing", clears |-> ApprovedBeside(k)]]
    /\ UNCHANGED <<upstream, session, call, servers, versions, recorded, changes, reviews>>

Approve(k) ==
    /\ review[k].stage = "clearing"
    /\ \A j \in review[k].clears \ {k} : review[j].stage = "none"
    /\ versions' = {[v EXCEPT !.approved = Key(v) = k \/ (@ /\ Key(v) \notin review[k].clears),
                              !.blessed = @ \/ Key(v) = k] : v \in versions}
    /\ review' = [review EXCEPT ![k] = NoReview]
    /\ UNCHANGED <<upstream, session, call, servers, recorded, changes, reviews>>

(* Two approvals that wait for each other: the database aborts one; or the *)
(* connection breaks.                                                      *)
Abort(k) ==
    /\ review[k].stage # "none"
    /\ review' = [review EXCEPT ![k] = NoReview]
    /\ UNCHANGED <<upstream, session, call, servers, versions, recorded, changes, reviews>>

(* External: the upstream changes or withdraws a tool. *)
Change(t) ==
    /\ changes < MaxChanges /\ changes' = changes + 1
    /\ \E m \in (Manifests \cup {NoManifest}) \ {upstream[t]} :
          upstream' = [upstream EXCEPT ![t] = m]
    /\ UNCHANGED <<session, call, database, recorded, reviews>>

Next ==
    \/ \E s \in Sessions : Connect(s) \/ Connected(s) \/ ConnectFails(s) \/ Close(s)
    \/ \E c \in Calls :
          \/ Lookup(c) \/ Refresh(c) \/ Contact(c) \/ Judge(c) \/ GuardFails(c)
          \/ Policy(c) \/ Run(c) \/ Record(c) \/ RecordFails(c)
    \/ \E k \in Keys : Pick(k) \/ Choose(k) \/ Approve(k) \/ Abort(k)
    \/ \E t \in Tools : Change(t)

Spec == Init /\ [][Next]_vars

-----------------------------------------------------------------------------
(* Properties *)

(* evaluate trusts a tool on first use: a server row takes a manifest of   *)
(* its own accord at most once, however calls, listings and approvals      *)
(* interleave, and an approval never leaves a gap in which it would again; *)
(* and no tool is called, nor shown, whose cached manifest was neither the *)
(* first of some row nor approved by an operator.                          *)
DriftWaits ==
    /\ \A v, w \in versions :
          v.first /\ w.first /\ v.server = w.server /\ v.tool = w.tool => v = w
    /\ \A c \in Calls :
          call[c].stage \in {"policy", "run"} \/ call[c].outcome \in {"listed", "executed", "failed"} =>
              \E v \in versions : /\ v.tool = call[c].tool /\ v.manifest = call[c].manifest
                                  /\ v.first \/ v.blessed

(* executeGatewayToolCall: the caller sees a result, or that the call was  *)
(* blocked, only when the audit trail says the same, and a call recorded   *)
(* as blocked never reached the upstream.                                  *)
GatewayAnswers ==
    \A c \in Calls :
        /\ call[c].stage = "done" /\ call[c].outcome \in {"blocked", "executed", "failed"} =>
              <<c, call[c].outcome>> \in recorded
        /\ call[c].ran => <<c, "blocked">> \notin recorded
        /\ \A r, q \in recorded : r[1] = q[1] => r = q
=============================================================================
