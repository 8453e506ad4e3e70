----------------------------- MODULE MCSelfUpdate -----------------------------
(* Small instances of SelfUpdate for TLC.                                  *)
EXTENDS SelfUpdate

\* The second release brings a file the first did not have.
MCShips == [v \in 1..Latest |-> IF v = 1 THEN {Exe} ELSE File]
=============================================================================
