----------------------------- MODULE MCTogether -----------------------------
(* Together with one guest and one pair it may ask along.                    *)
EXTENDS Together

CONSTANTS h1, h2, g1
Pairs == {<<h1, g1>>}
=============================================================================
