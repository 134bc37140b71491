---------------------------- MODULE MCMatchmaker ----------------------------
(* Small instances of the matchmaker: which players the requests are for.   *)
EXTENDS Matchmaker, TLC

CONSTANTS r1, r2, r3, p1, p2

\* Two requests for the same player, one for another.
DoubleClick == (r1 :> p1) @@ (r2 :> p1) @@ (r3 :> p2)
OneRequest == (r1 :> p1)
=============================================================================
