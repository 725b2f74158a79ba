------------------------------ MODULE EffectOnce ------------------------------
(***************************************************************************)
(* What the effect gateway promises about each permit, with no calls, no   *)
(* processes, no databases and no failures: the effect happens at most     *)
(* once and only after its authorization is on record, and a verdict, once *)
(* given, is final and true.  "unknown" is always a true verdict; "notdone"*)
(* rules the effect out for good.                                          *)
(***************************************************************************)
EXTENDS Naturals

CONSTANT Permits

VARIABLES authorized, performed, verdict

vars == <<authorized, performed, verdict>>

Init ==
    /\ authorized = {}
    /\ performed = [p \in Permits |-> 0]
    /\ verdict = [p \in Permits |-> "open"]

Authorize(p) ==
    /\ p \notin authorized
    /\ authorized' = authorized \cup {p}
    /\ UNCHANGED <<performed, verdict>>

Perform(p) ==
    /\ p \in authorized /\ performed[p] = 0
    /\ verdict[p] \in {"open", "unknown"}
    /\ performed' = [performed EXCEPT ![p] = 1]
    /\ UNCHANGED <<authorized, verdict>>

Conclude(p) ==
    /\ verdict[p] = "open"
    /\ \/ performed[p] = 1 /\ verdict' = [verdict EXCEPT ![p] = "done"]
       \/ performed[p] = 0 /\ verdict' = [verdict EXCEPT ![p] = "notdone"]
       \/ verdict' = [verdict EXCEPT ![p] = "unknown"]
    /\ UNCHANGED <<authorized, performed>>

Next == \E p \in Permits : Authorize(p) \/ Perform(p) \/ Conclude(p)

Spec == Init /\ [][Next]_vars
=============================================================================
