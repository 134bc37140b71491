------------------------------- MODULE System -------------------------------
(***************************************************************************)
(* The services together: the gateway's POST /api/match                    *)
(* (services/gateway/internal/api/api.go) in front of the matchmaker, and  *)
(* game nodes that count the players they really have                      *)
(* (services/gamenode/internal/network/hub.go, internal/registration and   *)
(* cmd/main.go).                                                           *)
(*                                                                         *)
(* The gateway waits five seconds for RequestMatch; the matchmaker's       *)
(* handler does not stop when the gateway does.  A heartbeat carries the   *)
(* number of clients its node had when it was sent.  Nothing under src/    *)
(* calls AssignPlayer: tokens are made known to a node by callers outside  *)
(* the repository only ("register tokens first via gRPC", README.md).      *)
(* What a node does between the check of a token and the end of the        *)
(* connection is the business of NodeSession; here it is a single step.    *)
(***************************************************************************)
EXTENDS Matchmaker

CONSTANTS
    Guests,   \* players with a token of a caller's own, without a match
    Invited,  \* bound: the tokens that callers register with AssignPlayer
    NoBeat    \* no heartbeat in flight

\* A request stands for the token it is answered with, a guest for its own.
Tokens == Requests \cup Guests
Holder(t) == IF t \in Requests THEN Asks[t] ELSE t

ASSUME SystemAssumption ==
    /\ Guests \subseteq Players /\ IsFiniteSet(Players)
    /\ Guests \cap Requests = {}
    /\ Invited \subseteq Tokens
    /\ NoBeat \notin Nat
    /\ Cardinality(Players) <= MaxLoad
    /\ MayFail

VARIABLES
    gate,      \* gate[r]: the gateway's handler of request r
    seat,      \* seat[r]: the node in the answer to request r
    up,        \* up[n]: the process of node n runs
    draining,  \* draining[n]: GameNodeServer.draining of n
    known,     \* known[n]: Hub.tokens of n
    hub,       \* hub[n]: the players in Hub.clients of n
    beat       \* beat[n]: the load in the heartbeat under way from n

edge == <<gate, seat>>
game == <<up, draining, known, hub>>
others == <<edge, game, beat>>
systemVars == <<vars, others>>

SystemTypeOK ==
    /\ TypeOK
    /\ gate \in [Requests -> {"idle", "waiting", "matched", "queued", "unavailable"}]
    /\ seat \in [Requests -> Nodes \cup {NoNode}]
    /\ up \in [Nodes -> BOOLEAN] /\ draining \in [Nodes -> BOOLEAN]
    /\ known \in [Nodes -> SUBSET Tokens]
    /\ hub \in [Nodes -> SUBSET Players]
    /\ beat \in [Nodes -> 0..Cardinality(Players) \cup {NoBeat}]

SystemInit ==
    /\ Init
    /\ gate = [r \in Requests |-> "idle"]
    /\ seat = [r \in Requests |-> NoNode]
    /\ up = [n \in Nodes |-> FALSE]
    /\ draining = [n \in Nodes |-> FALSE]
    /\ known = [n \in Nodes |-> {}]
    /\ hub = [n \in Nodes |-> {}]
    /\ beat = [n \in Nodes |-> NoBeat]

-----------------------------------------------------------------------------
(* The gateway.                                                            *)

GateTo(r, from, to) == gate[r] = from /\ gate' = [gate EXCEPT ![r] = to]

\* The player asks, for the first time or again, however the last call ended.  What
\* counts from now on is the answer to this call, and its token.
HandleMatch(r) ==
    /\ gate[r] # "waiting"
    /\ gate' = [gate EXCEPT ![r] = "waiting"]
    /\ seat' = [seat EXCEPT ![r] = NoNode]
    /\ Receive(r)
    /\ UNCHANGED <<game, beat>>

\* 200, 202, or 503 for every error, "player already in queue" included.
Respond(r) ==
    /\ pc[r] \in Answers
    /\ GateTo(r, "waiting", CASE pc[r] = "matched" -> "matched"
                              [] pc[r] = "queued"  -> "queued"
                              [] OTHER             -> "unavailable")
    /\ UNCHANGED <<vars, seat, game, beat>>

\* The deadline passes, the client goes away or the connection breaks: also 503.
GiveUp(r) ==
    /\ GateTo(r, "waiting", "unavailable")
    /\ UNCHANGED <<vars, seat, game, beat>>

-----------------------------------------------------------------------------
(* The matchmaker, as before; the answer to a match names the node.        *)

AnswerMatch(r) ==
    /\ Match(r)
    /\ seat' = [seat EXCEPT ![r] = pick[r]]
    /\ UNCHANGED <<gate, game, beat>>

HandlerNext(r) ==
    \/ AnswerMatch(r)
    \/ /\ CheckQueued(r) \/ PickNode(r) \/ EnqueueSet(r) \/ EnqueuePush(r)
       /\ UNCHANGED others

MatchmakerAlone ==
    /\ \/ \E r \in Requests : RequestFails(r)
       \/ DrainFails \/ HealthTick \/ Time
    /\ UNCHANGED others

\* The calls that are under way at a restart are cut off, or served before it.
MatchmakerRestarts ==
    /\ Restart
    /\ beat' = [n \in Nodes |-> NoBeat]
    /\ UNCHANGED <<edge, game>>

-----------------------------------------------------------------------------
(* A game node.                                                            *)

\* The process starts with an empty hub.
Start(n) ==
    /\ ~up[n]
    /\ NodeUp(n)
    /\ up' = [up EXCEPT ![n] = TRUE]
    /\ draining' = [draining EXCEPT ![n] = FALSE]
    /\ UNCHANGED <<edge, known, hub, beat>>

Announce(n) == RegisterNode(n) /\ UNCHANGED others

\* Mutant of CountLoad: the matches still expected are counted too.
CountWithTokens(n) ==
    /\ client[n] = "beating" /\ beat[n] = NoBeat
    /\ beat' = [beat EXCEPT ![n] = Cardinality(hub[n]) + Cardinality(known[n])]
    /\ UNCHANGED <<vars, edge, game>>

\* The loop's ticker fires: the clients are counted, the heartbeat is sent, ...
CountLoad(n) ==
    /\ client[n] = "beating" /\ beat[n] = NoBeat
    /\ beat' = [beat EXCEPT ![n] = Cardinality(hub[n])]
    /\ UNCHANGED <<vars, edge, game>>

\* Mutant of DeliverBeat: a node that is unknown is entered.
DeliverAnyBeat(n) ==
    /\ beat[n] # NoBeat
    /\ nodes' = Put(n, Beat(IF n \in Registered THEN nodes[n] ELSE Fresh(1), beat[n]))
    /\ beat' = [beat EXCEPT ![n] = NoBeat]
    /\ UNCHANGED <<redis, pc, pick, popped, world, edge, game>>

\* ... and it arrives, perhaps after its node has gone down ...
DeliverBeat(n) ==
    /\ beat[n] # NoBeat
    /\ Heartbeat(n, beat[n])
    /\ beat' = [beat EXCEPT ![n] = NoBeat]
    /\ UNCHANGED <<redis, pc, pick, popped, world, edge, game>>

\* ... or fails, which is logged.
LoseBeat(n) ==
    /\ beat[n] # NoBeat
    /\ beat' = [beat EXCEPT ![n] = NoBeat]
    /\ UNCHANGED <<vars, edge, game>>

\* AssignPlayer, by a caller outside the repository.
AssignPlayer(n, t) ==
    /\ up[n] /\ ~draining[n]
    /\ known' = [known EXCEPT ![n] = @ \cup {t}]
    /\ UNCHANGED <<vars, edge, up, draining, hub, beat>>

DrainNode(n) ==
    /\ up[n]
    /\ draining' = [draining EXCEPT ![n] = TRUE]
    /\ UNCHANGED <<vars, edge, up, known, hub, beat>>

\* The node a token sends its holder to: a guest may try any.
SentTo(t, n) == t \in Requests => gate[t] = "matched" /\ seat[t] = n

\* The player connects: the token is spent, and the client added unless the
\* upgrade fails.  An unknown token is refused, with no effect.
Connect(n, t) ==
    /\ up[n] /\ SentTo(t, n) /\ t \in known[n]
    /\ known' = [known EXCEPT ![n] = @ \ {t}]
    /\ hub' \in {hub, [hub EXCEPT ![n] = @ \cup {Holder(t)}]}
    /\ UNCHANGED <<vars, edge, up, draining, beat>>

Disconnect(n, p) ==
    /\ p \in hub[n]
    /\ hub' = [hub EXCEPT ![n] = @ \ {p}]
    /\ UNCHANGED <<vars, edge, up, draining, known, beat>>

\* A signal cancels the context first, which ends the registration goroutine;
\* players go on connecting until the process ends.
Stop(n) == NodeDown(n) /\ UNCHANGED others

\* The process ends, after a signal or in a crash.
Exit(n) ==
    /\ up[n]
    /\ up' = [up EXCEPT ![n] = FALSE]
    /\ known' = [known EXCEPT ![n] = {}]
    /\ hub' = [hub EXCEPT ![n] = {}]
    /\ NodeDown(n) \/ (client[n] = "down" /\ UNCHANGED vars)
    /\ UNCHANGED <<edge, draining, beat>>

-----------------------------------------------------------------------------
PlayerNext(n) ==
    \/ \E t \in Invited : AssignPlayer(n, t) \/ Connect(n, t)
    \/ \E p \in Players : Disconnect(n, p)
    \/ DrainNode(n)

GameNodeNext(n) ==
    \/ Start(n) \/ Announce(n) \/ CountLoad(n) \/ DeliverBeat(n) \/ LoseBeat(n)
    \/ Stop(n) \/ Exit(n)

SystemNext ==
    \/ \E r \in Requests : HandleMatch(r) \/ Respond(r) \/ GiveUp(r) \/ HandlerNext(r)
    \/ (DrainerNext \/ Expire) /\ UNCHANGED others
    \/ MatchmakerAlone \/ MatchmakerRestarts
    \/ \E n \in Nodes : GameNodeNext(n) \/ PlayerNext(n)

SystemSpec == SystemInit /\ [][SystemNext]_systemVars

\* Goroutines go on, Redis lets every key expire, and of the heartbeats a node keeps
\* sending not every one is lost.
SystemFairness ==
    /\ \A r \in Requests : WF_systemVars(HandlerNext(r))
    /\ WF_systemVars(DrainerNext /\ UNCHANGED others)
    /\ \A p \in Players : WF_systemVars(KeyExpires(p) /\ Expire /\ UNCHANGED others)
    /\ \A n \in Nodes :
         WF_systemVars(CountLoad(n)) /\ SF_systemVars(DeliverBeat(n))

FairSystemSpec == SystemSpec /\ SystemFairness

-----------------------------------------------------------------------------
(* Properties.                                                             *)

\* The matchmaker of the module Matchmaker, whose heartbeats carry any load and
\* whose requests fail at any time, covers the one behind this gateway with these
\* nodes: what is proved of it holds here (server.go, api.go, client.go).
ImplementsMatchmaker == Spec

\* Load that stands for nobody goes away, and players that were forgotten are
\* counted again: matches the gateway gave up on, tokens that never connect,
\* queued players that are counted and told nothing, increments a heartbeat wiped
\* out, registrations that reset the load.  Once the players of a node stay the
\* same, a node that keeps sending heartbeats and stays registered has the right
\* load again and again, however many requests go on counting matches, and for
\* good once no request is made any more (client.go, HeartbeatLoop; server.go,
\* RequestMatch, DrainQueue).
Steady(n, k) ==
    client[n] = "beating" /\ n \in Registered /\ Cardinality(hub[n]) = k

RightLoad(n, k) == n \in Registered => nodes[n].load = k

Quiet == \A r \in Requests : pc[r] \notin RequestCalls

LoadHeals ==
    \A n \in Nodes : \A k \in 0..Cardinality(Players) :
        /\ <>[]Steady(n, k) => []<>RightLoad(n, k)
        /\ <>[](Steady(n, k) /\ Quiet) => <>[]RightLoad(n, k)

\* "queued - try again shortly" (api.go:121): a player who goes on asking is matched
\* again and again once there is always a node with room and its calls no longer
\* fail, whatever pipelines that broke, crashes and duplicates have left behind: a
\* key without an entry refuses its player, but has a time to live (queue.go,
\* Enqueue; server.go, RequestMatch).
AskersMatched ==
    \A r \in Requests :
        (/\ <>[](Eligible # {})
         /\ []<>(pc[r] = "check")
         /\ <>[](pc[r] # "failed"))
            => []<>(pc[r] = "matched")

\* "AssignPlayer is called by the Matchmaker to reserve a slot" (client.go:136):
\* a player who is told of a node that runs is expected there.
MatchedIsExpected ==
    [][\A r \in Requests :
          Respond(r) /\ gate'[r] = "matched" /\ up[seat[r]] => r \in known[seat[r]]]_systemVars
=============================================================================
