----------------------------- MODULE Admission -----------------------------
(***************************************************************************)
(* What a game node promises about admission, without its goroutines: a    *)
(* token is issued, then admits at most one connection, and an entry of    *)
(* the hub or of the game belongs to an admitted connection that has not   *)
(* left yet.  NodeSession implements it.                                   *)
(***************************************************************************)
CONSTANTS Tokens, NoToken, Conns

VARIABLES
    pending,   \* tokens that are issued and unused
    admitted,  \* admitted[c]: the token that admitted connection c
    inside     \* connections admitted that may still be registered

vars == <<pending, admitted, inside>>

Used == {admitted[c] : c \in Conns} \ {NoToken}

Init ==
    /\ pending = {}
    /\ admitted = [c \in Conns |-> NoToken]
    /\ inside = {}

Issue(t) ==
    /\ t \notin pending \cup Used
    /\ pending' = pending \cup {t}
    /\ UNCHANGED <<admitted, inside>>

Admit(c, t) ==
    /\ admitted[c] = NoToken /\ t \in pending
    /\ pending' = pending \ {t}
    /\ admitted' = [admitted EXCEPT ![c] = t]
    /\ inside' = inside \cup {c}

Leave(c) ==
    /\ c \in inside
    /\ inside' = inside \ {c}
    /\ UNCHANGED <<pending, admitted>>

Next ==
    \/ \E t \in Tokens : Issue(t)
    \/ \E c \in Conns, t \in Tokens : Admit(c, t)
    \/ \E c \in Conns : Leave(c)

Spec == Init /\ [][Next]_vars

\* A token admits one connection at most.
OneTime == \A c, d \in Conns :
    admitted[c] = admitted[d] /\ admitted[c] # NoToken => c = d
=============================================================================
