------------------------------ MODULE MCSystem ------------------------------
(* A small instance of the whole: one player, who asks for matches and comes *)
(* with a token of a caller's own.                                           *)
EXTENDS System, TLC

CONSTANTS n1, r1, p1

Alone == (r1 :> p1)
=============================================================================
