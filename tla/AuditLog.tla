------------------------------- MODULE AuditLog -------------------------------
(***************************************************************************)
(* What the control plane's records promise, with no transactions, locks   *)
(* or failures: a call is decided once, a result is recorded only where    *)
(* the state machine of tool calls allows it, and the audit log grows by   *)
(* exactly one entry with every change of a call, in the same instant.     *)
(***************************************************************************)
EXTENDS Sequences

CONSTANTS Calls, Verdicts, Results, StatusOf(_), Legal(_, _)

VARIABLES log, status

vars == <<log, status>>

Init == log = <<>> /\ status = [c \in Calls |-> "none"]

Decide(c, v) ==
    /\ status[c] = "none"
    /\ status' = [status EXCEPT ![c] = StatusOf(v)]
    /\ log' = Append(log, <<c, v>>)

Report(c, r) ==
    /\ Legal(status[c], r)
    /\ status' = [status EXCEPT ![c] = r]
    /\ log' = Append(log, <<c, r>>)

Next == \E c \in Calls :
    \/ \E v \in Verdicts : Decide(c, v)
    \/ \E r \in Results : Report(c, r)

Spec == Init /\ [][Next]_vars
=============================================================================
