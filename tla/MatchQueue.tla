----------------------------- MODULE MatchQueue -----------------------------
(***************************************************************************)
(* The matchmaking queue (services/matchmaker/internal/queue/queue.go) at  *)
(* the granularity of single Redis commands.  Redis runs one command at a  *)
(* time, but the Go methods issue two: Enqueue a SET and an RPUSH in a     *)
(* pipeline, which is not a transaction, and Dequeue an LPOP and a DEL.    *)
(* A queue entry is the player it is for.                                  *)
(***************************************************************************)
EXTENDS Naturals, Sequences

CONSTANT Players

VARIABLES
    list,   \* the Redis list queueKey
    keys    \* the players with a metadata key playerPrefix+id

redis == <<list, keys>>

QueueTypeOK == list \in Seq(Players) /\ keys \subseteq Players

QueueInit == list = <<>> /\ keys = {}

\* Enqueue, first command; the value and its time to live are abstracted.
SetKey(p) == keys' = keys \cup {p} /\ UNCHANGED list

\* Enqueue, second command: to the back of the list.
PushBack(p) == list' = Append(list, p) /\ UNCHANGED keys

\* Dequeue, first command: from the front of the list.
PopFront(p) ==
    /\ list # <<>> /\ p = Head(list)
    /\ list' = Tail(list)
    /\ UNCHANGED keys

\* Mutant of DeleteKey: the metadata stays.
KeepKey(p) == UNCHANGED redis

\* Dequeue, second command.
DeleteKey(p) == keys' = keys \ {p} /\ UNCHANGED list

IsQueued(p) == p \in keys

\* Mutant of KeyExpires: the key is set without a time to live.
KeyStays(p) == p \in keys /\ UNCHANGED redis

\* A key reaches the end of its five minutes; the list has no such limit.
KeyExpires(p) == p \in keys /\ DeleteKey(p)

\* The players that have an entry in the list.
Listed == {list[i] : i \in DOMAIN list}
=============================================================================
