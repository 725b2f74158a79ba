----------------------------- MODULE MCIntercept -----------------------------
(* Small instances of Intercept.  ask is a call that needs approval; again and
   other are calls that present that approval for the same scope, and stray
   presents it for another; probe needs none. *)
EXTENDS Intercept, TLC

CONSTANTS ask, again, other, stray, probe, d1, d2, s1, s2, k1, k2, m1, m2

AuthOf == [r \in Requests |-> IF r \in {ask, probe} THEN NoRequest ELSE ask]
ScopeOf == [r \in Requests |-> IF r = stray THEN "elsewhere" ELSE "here"]
RiskFor == [r \in Requests |-> IF r = probe THEN "high" ELSE "approval"]

(* Requests that are decided on their own. *)
NoAuth == [r \in Requests |-> NoRequest]
AllHigh == [r \in Requests |-> "high"]

EverySwitch == [k \in Switches |-> Requests]
AgentSwitch == [k \in Switches |-> IF k = k1 THEN {ask} ELSE Requests]
EveryMeter == [m \in Meters |-> Requests]
One == [m \in Meters |-> 1]

Symmetry == Permutations(Slots) \cup Permutations(Deciders)
=============================================================================
