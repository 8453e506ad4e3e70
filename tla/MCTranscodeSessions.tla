------------------------- MODULE MCTranscodeSessions -------------------------
(* Small instances of TranscodeSessions for TLC.                           *)
EXTENDS TranscodeSessions, TLC

\* Handlers and ids are interchangeable.
Symmetric == Permutations(Handlers) \cup Permutations(Sessions)

=============================================================================
