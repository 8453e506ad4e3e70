----------------------------- MODULE MCOptimized -----------------------------
(* Optimized with two titles of known length, one of them copied, and one of *)
(* unknown length.                                                           *)
EXTENDS Optimized

CONSTANTS t1, t2, t3
EstimateOf == [t \in Title |-> CASE t = t1 -> 3 [] t = t2 -> 2 [] t = t3 -> 0]
=============================================================================
