-------------------------------- MODULE Client --------------------------------
(***************************************************************************)
(* The tools of an agent, each of which asks the daemon before it acts and *)
(* reports afterwards.                                                     *)
(*                                                                         *)
(*   packages/pi-adapter/src/guarded_*.ts        files: read, write, edit, *)
(*                                               ls, grep, find            *)
(*   packages/pi-adapter/src/guarded_bash.ts     plans and their execution *)
(*   packages/pi-adapter/src/shell_executor.ts   executeShellCommand       *)
(*   packages/pi-adapter/src/intercept_client.ts the calls to the daemon   *)
(*   packages/sdk/src/wrapTool.ts, client.ts     any other tool            *)
(*                                                                         *)
(* The daemon is external here (Intercept and ToolRecord model it): it     *)
(* decides a request once, keeps the first result of a call, and an answer *)
(* of it may be lost.  realpath, open and what other programs do to links  *)
(* and files happen in between: what is looked up by one is opened by name *)
(* by the other.                                                           *)
(***************************************************************************)
EXTENDS Naturals, FiniteSets

CONSTANTS
    Calls,
    Paths,          \* what an agent may name
    Inside, Outside,    \* names of files: in the workspace, elsewhere
    HomeOf,         \* the name each path stands for if its directories are no links
    Nowhere,        \* no such directory, no such file
    Linkings,       \* how links may lie: where each name ends when it is opened;
                    \* where one ends is no link
    Kinds,          \* of call: read, list, write, edit, bash, wrapped
    MaxMoves        \* bound of the model: what other programs do

Places == Inside \cup Outside

VARIABLES
    named,      \* the name each path stands for, its directories followed
    ends,       \* where each name ends when it is opened
    content,    \* how often each file was written, 0: there is none
    call,       \* each call
    decision,   \* the daemon's decision on it
    result,     \* the daemon's record of its result
    claimed,    \* the nonce store: plans whose token was claimed
    moves

vars == <<named, ends, content, call, decision, result, claimed, moves>>
daemon == <<decision, result>>
world == <<named, ends, content, moves>>

Stages == {"idle", "asked", "verify", "touch", "claim", "run", "report", "done"}
Files == {"read", "list", "write", "edit"}
SomePlace == Places \cup {Nowhere}

ClientTypeOK ==
    /\ named \in [Paths -> SomePlace] /\ ends \in Linkings
    /\ content \in [Places -> Nat]
    /\ call \in [Calls -> [kind : Kinds, path : Paths, stage : Stages, plan : Calls,
                           named : SomePlace, at : SomePlace, before : Nat,
                           led : SomePlace, touched : SomePlace, ran : {0, 1},
                           status : {"none", "executed", "failed", "timeout", "blocked"},
                           outcome : {"none", "ok", "refused", "error"}]]
    /\ decision \in [Calls -> {"none", "allow", "refuse"}]
    /\ result \in [Calls -> {"none", "executed", "failed", "timeout", "blocked"}]
    /\ claimed \subseteq Calls
    /\ moves \in 0..MaxMoves

(* plan: whose decision the call acts on; led and touched: where its name  *)
(* ended when it was checked and when it was opened.                       *)
Idle(c, kind, path) ==
    [kind |-> kind, path |-> path, stage |-> "idle", plan |-> c, named |-> Nowhere,
     at |-> Nowhere, before |-> 0, led |-> Nowhere, touched |-> Nowhere, ran |-> 0,
     status |-> "none", outcome |-> "none"]

Init ==
    /\ \E there \in SUBSET Paths :
          named = [p \in Paths |-> IF p \in there THEN HomeOf[p] ELSE Nowhere]
    /\ ends \in Linkings
    /\ content \in [Places -> {0, 1}]
    /\ \E kind \in [Calls -> Kinds], path \in [Calls -> Paths] :
          call = [c \in Calls |-> Idle(c, kind[c], path[c])]
    /\ decision = [c \in Calls |-> "none"] /\ result = [c \in Calls |-> "none"]
    /\ claimed = {}
    /\ moves = 0

-----------------------------------------------------------------------------
(* Asking *)

Kind(c) == call[c].kind
Named(c) == named[call[c].path]

(* realpath: every link followed, and a file must be there. *)
Leads(c) ==
    IF Named(c) = Nowhere \/ content[ends[Named(c)]] = 0 THEN Nowhere ELSE ends[Named(c)]

(* A write may create the file its path names; where existsSync finds      *)
(* nothing, it is not asked whether the name is a link.                    *)
Canonical(c) == IF Kind(c) = "write" /\ Leads(c) = Nowhere THEN Named(c) ELSE Leads(c)

(* The directory of what is written must be in the workspace as well. *)
WithinWorkspace(c) == Canonical(c) \in Inside /\ (Kind(c) = "write" => Named(c) \in Inside)

Goto(c, stage) == call' = [call EXCEPT ![c].stage = stage]
Finish(c, outcome) == call' = [call EXCEPT ![c].stage = "done", ![c].outcome = outcome]
ToReport(c, status) == call' = [call EXCEPT ![c].stage = "report", ![c].status = status]

(* A path that leads out of the workspace is refused without asking. *)
Ask(c) ==
    /\ call[c].stage = "idle"
    /\ IF Kind(c) \notin Files THEN Goto(c, "asked")
       ELSE IF ~WithinWorkspace(c) THEN Finish(c, "refused")
       ELSE call' = [call EXCEPT ![c].stage = "asked", ![c].named = Named(c),
                                 ![c].at = Canonical(c),
                                 ![c].before = content[Canonical(c)]]
    /\ UNCHANGED <<world, daemon, claimed>>

(* The daemon may decide after the client gave up.  deny and               *)
(* approval_required block a call alike.                                   *)
Decide(c) ==
    /\ call[c].stage # "idle" /\ decision[c] = "none" /\ call[c].plan = c
    /\ Kind(c) \in Files => call[c].at # Nowhere
    /\ \E d \in {"allow", "refuse"} : decision' = [decision EXCEPT ![c] = d]
    /\ UNCHANGED <<world, call, result, claimed>>

Act(c) == IF Kind(c) \in Files THEN "verify" ELSE IF Kind(c) = "bash" THEN "claim" ELSE "run"

Answered(c) ==
    /\ call[c].stage = "asked" /\ decision[c] # "none"
    /\ IF decision[c] = "allow" THEN Goto(c, Act(c)) ELSE ToReport(c, "blocked")
    /\ UNCHANGED <<world, daemon, claimed>>

(* Five seconds passed, the daemon answered with an error or is away. *)
NotAnswered(c) ==
    /\ call[c].stage = "asked"
    /\ Finish(c, "error")
    /\ UNCHANGED <<world, daemon, claimed>>

-----------------------------------------------------------------------------
(* Files: the path is looked up again, and what it led to must not differ. *)
(* What is opened afterwards is the name it led to, and by name.           *)

Unmoved(c) ==
    IF Kind(c) = "write" THEN Named(c) = call[c].named /\ Leads(c) \in {call[c].at, Nowhere}
    ELSE Leads(c) = call[c].at

Unedited(c) == Kind(c) = "edit" => content[call[c].at] = call[c].before

Verifying(c, unmoved) == call[c].stage = "verify" /\ Unmoved(c) = unmoved

Verify(c) ==
    /\ Verifying(c, TRUE) /\ Unedited(c) /\ Kind(c) # "list"
    /\ call' = [call EXCEPT ![c].stage = "touch", ![c].led = ends[call[c].at]]
    /\ UNCHANGED <<world, daemon, claimed>>

(* ls, grep and find are done in the same breath. *)
List(c) ==
    /\ Verifying(c, TRUE) /\ Kind(c) = "list"
    /\ call' = [call EXCEPT ![c].stage = "report", ![c].status = "executed", ![c].ran = 1]
    /\ UNCHANGED <<world, daemon, claimed>>

(* Only a read reports that its path moved, and that within the workspace; *)
(* anything else, and an edit of changed content, is refused unreported.   *)
ReportsMove(c) == Kind(c) = "read" /\ Leads(c) \in Inside

Moved(c) ==
    /\ Verifying(c, FALSE) /\ ReportsMove(c)
    /\ ToReport(c, "blocked")
    /\ UNCHANGED <<world, daemon, claimed>>

Refuse(c) ==
    /\ \/ Verifying(c, FALSE) /\ ~ReportsMove(c)
       \/ Verifying(c, TRUE) /\ ~Unedited(c)
    /\ Finish(c, "refused")
    /\ UNCHANGED <<world, daemon, claimed>>

(* readFile needs a file, writeFile makes one; both follow whatever link   *)
(* the name is by now.                                                     *)
Touch(c) ==
    /\ call[c].stage = "touch"
    /\ LET file == ends[call[c].at] IN
       /\ Kind(c) = "read" => content[file] # 0
       /\ call' = [call EXCEPT ![c].stage = "report", ![c].status = "executed",
                               ![c].ran = 1, ![c].touched = file]
       /\ content' = IF Kind(c) = "read" THEN content ELSE [content EXCEPT ![file] = @ + 1]
    /\ UNCHANGED <<named, ends, moves, daemon, claimed>>

TouchFails(c) ==
    /\ call[c].stage = "touch"
    /\ Finish(c, "error")
    /\ UNCHANGED <<world, daemon, claimed>>

-----------------------------------------------------------------------------
(* Commands *)

(* Faulty: the token is good as long as it has not expired. *)
ClaimUnspent(c) ==
    /\ call[c].stage = "claim"
    /\ Goto(c, "run") /\ claimed' = claimed \cup {call[c].plan}
    /\ UNCHANGED <<world, daemon>>

Claim(c) ==
    /\ call[c].stage = "claim"
    /\ IF call[c].plan \in claimed THEN Finish(c, "error") /\ UNCHANGED claimed
       ELSE Goto(c, "run") /\ claimed' = claimed \cup {call[c].plan}
    /\ UNCHANGED <<world, daemon>>

(* The token does not match or the store is away; nothing is reported. *)
ClaimFails(c) ==
    /\ call[c].stage = "claim"
    /\ Finish(c, "error")
    /\ claimed' \in {claimed, claimed \cup {call[c].plan}}
    /\ UNCHANGED <<world, daemon>>

(* A wrapped tool throws or not; a container exits or is timed out. *)
Run(c) ==
    /\ call[c].stage = "run"
    /\ \E status \in {"executed", "failed", "timeout"} :
          /\ status = "timeout" => Kind(c) = "bash"
          /\ call' = [call EXCEPT ![c].stage = "report", ![c].status = status, ![c].ran = 1]
    /\ UNCHANGED <<world, daemon, claimed>>

(* No runtime, network, image or container. *)
RunFails(c) ==
    /\ call[c].stage = "run" /\ Kind(c) = "bash"
    /\ Finish(c, "error")
    /\ UNCHANGED <<world, daemon, claimed>>

(* A plan is a value, which executeGuardedBashPlan may be given again,     *)
(* while its first execution is under way or when it is over.              *)
Again(c) ==
    /\ call[c].stage = "idle" /\ Kind(c) = "bash"
    /\ \E d \in Calls \ {c} :
          /\ Kind(d) = "bash" /\ call[d].plan = d /\ decision[d] = "allow"
          /\ call[d].stage \in {"claim", "run", "report"} \/ d \in claimed
          /\ call' = [call EXCEPT ![c].stage = "claim", ![c].plan = d]
    /\ UNCHANGED <<world, daemon, claimed>>

-----------------------------------------------------------------------------
(* Reporting *)

Outcome(c) ==
    IF call[c].status = "blocked" THEN "refused"
    ELSE IF call[c].status = "failed" /\ Kind(c) = "wrapped" THEN "error" ELSE "ok"

(* The request and the decision named in a report are the plan's. *)
Recorded(c) == result[call[c].plan]
Record(c) == [result EXCEPT ![call[c].plan] = call[c].status]

Reported(c) ==
    /\ call[c].stage = "report" /\ Recorded(c) = "none"
    /\ result' = Record(c)
    /\ Finish(c, Outcome(c))
    /\ UNCHANGED <<world, decision, claimed>>

(* The report or its answer is lost, or the daemon refuses a second one.   *)
(* wrapTool's catch takes a lost report of success for a failed tool.      *)
NotReported(c) ==
    /\ call[c].stage = "report"
    /\ IF Kind(c) = "wrapped" /\ call[c].status = "executed" THEN ToReport(c, "failed")
       ELSE Finish(c, "error")
    /\ result' \in {result} \cup (IF Recorded(c) = "none" THEN {Record(c)} ELSE {})
    /\ UNCHANGED <<world, decision, claimed>>

-----------------------------------------------------------------------------
(* External: other programs *)

(* Directories and names are replaced by links, or links by others. *)
Move ==
    /\ moves < MaxMoves /\ moves' = moves + 1
    /\ \/ \E p \in Paths, q \in SomePlace : named' = [named EXCEPT ![p] = q] /\ UNCHANGED ends
       \/ ends' \in Linkings /\ UNCHANGED named
    /\ UNCHANGED <<content, call, daemon, claimed>>

(* Files are written, made or removed. *)
Write(p) ==
    /\ moves < MaxMoves /\ moves' = moves + 1
    /\ \E n \in {0, content[p] + 1} : content' = [content EXCEPT ![p] = n]
    /\ UNCHANGED <<named, ends, call, daemon, claimed>>

Next ==
    \/ \E c \in Calls :
          \/ Ask(c) \/ Decide(c) \/ Answered(c) \/ NotAnswered(c)
          \/ Verify(c) \/ List(c) \/ Moved(c) \/ Refuse(c) \/ Touch(c) \/ TouchFails(c)
          \/ Claim(c) \/ ClaimFails(c) \/ Run(c) \/ RunFails(c) \/ Again(c)
          \/ Reported(c) \/ NotReported(c)
    \/ Move
    \/ \E p \in Places : Write(p)

Spec == Init /\ [][Next]_vars

-----------------------------------------------------------------------------
(* Properties *)

(* What an agent is told and what the audit trail says agree, whatever is  *)
(* lost on the way and whoever executes one plan at the same time: success *)
(* only when this very execution was recorded, a blocked record only when  *)
(* nothing was done, nothing done but once, and that only when allowed.    *)
(* A file outside the workspace is opened only if a link came to lie there *)
(* after the check, or if what is written was the name of a link already.  *)
ToldAsRecorded ==
    \A c \in Calls :
        /\ call[c].outcome = "ok" => call[c].ran = 1 /\ Recorded(c) = call[c].status
        /\ call[c].ran = 1 => decision[call[c].plan] = "allow" /\ Recorded(c) # "blocked"
        /\ result[c] \in {"executed", "failed", "timeout"} =>
              \E d \in Calls : call[d].plan = c /\ call[d].ran = 1
        /\ call[c].ran = 1 =>
              \A d \in Calls \ {c} : call[d].plan = call[c].plan => call[d].ran = 0
        /\ call[c].touched \in Outside /\ call[c].touched = call[c].led =>
              Kind(c) = "write" /\ call[c].led # call[c].at
=============================================================================
