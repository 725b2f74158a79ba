---------------------------- MODULE MCToolRecord ----------------------------
(* Small instances of ToolRecord: calls c1 and c2, connections t1 and t2,
   executors x1 and x2. *)
EXTENDS ToolRecord, TLC

CONSTANTS c1, c2, t1, t2, x1, x2

Symmetry == Permutations(Calls) \cup Permutations(Txs) \cup Permutations(Executors)
=============================================================================
