----------------------------- MODULE MCShutdown -----------------------------
(* Small numbers of requests, calls and sockets.                            *)
EXTENDS Shutdown

CONSTANTS r1, r2, a1, s1, s2
=============================================================================
