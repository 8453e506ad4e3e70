------------------------------ MODULE MCLibrary ------------------------------
(* Library with two locations and a file in each.                            *)
EXTENDS Library

CONSTANTS f1, f2, r1, r2
RootOfFile == [f \in File |-> IF f = f1 THEN r1 ELSE r2]
=============================================================================
