--------------------------- MODULE MCNodeSession ---------------------------
(* Small instances of a node's sessions: who the tokens are for.            *)
EXTENDS NodeSession, TLC

CONSTANTS p1, p2, t1, t2, t3

\* A player who connects again, with a new token each time.
SamePlayer == (t1 :> p1) @@ (t2 :> p1)
=============================================================================
