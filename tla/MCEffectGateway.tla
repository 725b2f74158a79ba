--------------------------- MODULE MCEffectGateway ---------------------------
(***************************************************************************)
(* Instances of EffectGateway for TLC: the runs whose properties need       *)
(* fairness or fail.  MCDeployments has the others.                        *)
(***************************************************************************)
EXTENDS EffectGateway, TLC

CONSTANTS p1, p2, g1, g2, s1, s2, n1, n2

TwoHomes    == (s1 :> g1) @@ (s2 :> g2)
OneHome     == (s1 :> g1) @@ (s2 :> g1)
OneNonce    == (p1 :> n1)

(* Every permit is issued at 0 and lives one tick. *)
AtZero   == [p \in Permits |-> 0]
OneTick  == [p \in Permits |-> 1]
=============================================================================
