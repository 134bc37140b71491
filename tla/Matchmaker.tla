----------------------------- MODULE Matchmaker -----------------------------
(***************************************************************************)
(* The matchmaker service: the handlers of its gRPC server and the queue   *)
(* drainer (services/matchmaker/internal/server/server.go), which run      *)
(* concurrently over the registry and the Redis queue, the two background  *)
(* goroutines of services/matchmaker/cmd/main.go, and the game nodes'      *)
(* registration clients (services/gamenode/internal/registration/client.go)*)
(*                                                                         *)
(* A process is a RequestMatch call or the drainer.  Its pc names the next *)
(* call it makes to the registry or to Redis: between two such calls any   *)
(* other process may run.  Heartbeats carry the number of players their    *)
(* node counted when it sent them, which is any number here.               *)
(***************************************************************************)
EXTENDS Registry, MatchQueue

CONSTANTS
    Requests,    \* concurrent RequestMatch calls
    Asks,        \* Asks[r]: the player request r is for
    Drainer,     \* the goroutine that calls DrainQueue
    NoPlayer,    \* no queue entry in hand
    MayFail,     \* Redis commands and the token generator may fail
    KeysExpire,  \* metadata keys may reach their time to live
    MaxRestarts, \* bound: crashes and restarts of the matchmaker
    MaxQueue     \* bound: queue length from which no request is accepted

Procs == Requests \cup {Drainer}

ASSUME MatchmakerAssumption ==
    /\ IsFiniteSet(Requests)
    /\ Asks \in [Requests -> Players]
    /\ Drainer \notin Requests
    /\ NoPlayer \notin Players
    /\ MayFail \in BOOLEAN /\ KeysExpire \in BOOLEAN
    /\ MaxRestarts \in Nat /\ MaxQueue \in Nat

VARIABLES
    pc,        \* pc[p]: the next call of process p, or how it ended
    pick,      \* pick[p]: the copy of the node BestNode returned to p
    popped,    \* the entry the drainer has taken from the queue
    client,    \* client[n]: what node n's registration goroutine is doing
    restarts   \* restarts of the matchmaker so far

vars == <<nodes, list, keys, pc, pick, popped, client, restarts>>
world == <<client, restarts>>

RequestCalls == {"check", "pick", "token", "set", "push"}
Answers == {"matched", "queued", "exists", "failed"}
DrainerCalls == {"pick", "pop", "del", "inc"}

TypeOK ==
    /\ RegistryTypeOK
    /\ QueueTypeOK
    /\ pc \in [Procs -> {"idle"} \cup RequestCalls \cup Answers \cup DrainerCalls]
    /\ pick \in [Procs -> Nodes \cup {NoNode}]
    /\ popped \in Players \cup {NoPlayer}
    /\ client \in [Nodes -> {"down", "registering", "beating"}]
    /\ restarts \in 0..MaxRestarts

Init ==
    /\ RegistryInit
    /\ QueueInit
    /\ pc = [p \in Procs |-> "idle"]
    /\ pick = [p \in Procs |-> NoNode]
    /\ popped = NoPlayer
    /\ client = [n \in Nodes |-> "down"]
    /\ restarts = 0

Goto(p, from, to) == pc[p] = from /\ pc' = [pc EXCEPT ![p] = to]
Keep(p, n) == pick' = [pick EXCEPT ![p] = n]
Forget(p) == Keep(p, NoNode)

-----------------------------------------------------------------------------
(* RequestMatch(r).                                                        *)

\* The call arrives: a first request of the player, or one that tries again
\* after an answer ("queued - try again shortly", gateway api.go).
Receive(r) ==
    /\ pc[r] \in {"idle"} \cup Answers
    /\ Len(list) < MaxQueue
    /\ pc' = [pc EXCEPT ![r] = "check"]
    /\ UNCHANGED <<nodes, redis, pick, popped, world>>

CheckQueued(r) ==
    /\ Goto(r, "check", IF IsQueued(Asks[r]) THEN "exists" ELSE "pick")
    /\ UNCHANGED <<nodes, redis, pick, popped, world>>

PickNode(r) ==
    /\ \E n \in Nodes \cup {NoNode} :
         /\ BestNode(n)
         /\ Keep(r, n)
         /\ Goto(r, "pick", IF n = NoNode THEN "set" ELSE "token")
    /\ UNCHANGED <<nodes, redis, popped, world>>

\* The token is made and the load of the copied node's entry incremented.
Match(r) ==
    /\ Goto(r, "token", "matched")
    /\ IncrementLoad(pick[r])
    /\ Forget(r)
    /\ UNCHANGED <<redis, popped, world>>

\* Enqueue's pipeline: two commands, with other clients' in between.
EnqueueSet(r) ==
    /\ Goto(r, "set", "push")
    /\ SetKey(Asks[r])
    /\ UNCHANGED <<nodes, pick, popped, world>>

EnqueuePush(r) ==
    /\ Goto(r, "push", "queued")
    /\ PushBack(Asks[r])
    /\ UNCHANGED <<nodes, pick, popped, world>>

\* The call under way fails, before it has an effect or after it (its reply is
\* lost, or the gateway's deadline cancelled the context): an error is returned.
RequestFails(r) ==
    /\ MayFail
    /\ pc[r] \in RequestCalls \ {"pick"}
    /\ \/ pc[r] = "set" /\ SetKey(Asks[r])
       \/ pc[r] = "push" /\ PushBack(Asks[r])
       \/ UNCHANGED redis
    /\ pc' = [pc EXCEPT ![r] = "failed"]
    /\ Forget(r)
    /\ UNCHANGED <<nodes, popped, world>>

-----------------------------------------------------------------------------
(* The drainer.                                                            *)

DrainTick ==
    /\ Goto(Drainer, "idle", "pick")
    /\ UNCHANGED <<nodes, redis, pick, popped, world>>

\* Mutant of DrainPick: the goroutine ends the first time it finds no node.
DrainPickOnce ==
    /\ \E n \in Nodes \cup {NoNode} :
         /\ BestNode(n)
         /\ Keep(Drainer, n)
         /\ Goto(Drainer, "pick", IF n = NoNode THEN "failed" ELSE "pop")
    /\ UNCHANGED <<nodes, redis, popped, world>>

DrainPick ==
    /\ \E n \in Nodes \cup {NoNode} :
         /\ BestNode(n)
         /\ Keep(Drainer, n)
         /\ Goto(Drainer, "pick", IF n = NoNode THEN "idle" ELSE "pop")
    /\ UNCHANGED <<nodes, redis, popped, world>>

\* Mutant of DrainPop: an entry without metadata is taken for a stale one.
DrainPopStale ==
    /\ \/ /\ list = <<>>
          /\ Goto(Drainer, "pop", "idle")
          /\ Forget(Drainer)
          /\ UNCHANGED <<redis, popped>>
       \/ \E p \in Players :
            /\ PopFront(p)
            /\ popped' = IF p \in keys THEN p ELSE NoPlayer
            /\ Goto(Drainer, "pop", IF p \in keys THEN "del" ELSE "idle")
            /\ IF p \in keys THEN UNCHANGED pick ELSE Forget(Drainer)
    /\ UNCHANGED <<nodes, world>>

DrainPop ==
    /\ \/ /\ list = <<>>
          /\ Goto(Drainer, "pop", "idle")
          /\ Forget(Drainer)
          /\ UNCHANGED <<redis, popped>>
       \/ \E p \in Players :
            /\ PopFront(p)
            /\ popped' = p
            /\ Goto(Drainer, "pop", "del")
            /\ UNCHANGED pick
    /\ UNCHANGED <<nodes, world>>

\* An error of DEL is ignored.
DrainDelete ==
    /\ Goto(Drainer, "del", "inc")
    /\ DeleteKey(popped) \/ (MayFail /\ UNCHANGED redis)
    /\ UNCHANGED <<nodes, pick, popped, world>>

\* The load is incremented; nothing is sent to the player or to the node.
DrainAssign ==
    /\ Goto(Drainer, "inc", "pick")
    /\ IncrementLoad(pick[Drainer])
    /\ Forget(Drainer)
    /\ popped' = NoPlayer
    /\ UNCHANGED <<redis, world>>

\* LPOP fails, and with it this round; its reply may be what was lost.
DrainFails ==
    /\ MayFail
    /\ Goto(Drainer, "pop", "idle")
    /\ UNCHANGED redis \/ \E p \in Players : PopFront(p)
    /\ Forget(Drainer)
    /\ UNCHANGED <<nodes, popped, world>>

-----------------------------------------------------------------------------
(* Game nodes, the health checker and Redis' clock.                        *)

NodeUp(n) ==
    /\ client[n] = "down"
    /\ client' = [client EXCEPT ![n] = "registering"]
    /\ UNCHANGED <<nodes, redis, pc, pick, popped, restarts>>

\* Mutant of RegisterNode: a failed registration is logged and forgotten.
RegisterOrNot(n) ==
    /\ client[n] = "registering"
    /\ (\E c \in Capacities : Register(n, c)) \/ UNCHANGED nodes
    /\ client' = [client EXCEPT ![n] = "beating"]
    /\ UNCHANGED <<redis, pc, pick, popped, restarts>>

\* RegisterNode; when the reply is lost the node retries in three seconds.
RegisterNode(n) ==
    /\ client[n] = "registering"
    /\ \E c \in Capacities : Register(n, c)
    /\ \E next \in {"registering", "beating"} :
         client' = [client EXCEPT ![n] = next]
    /\ UNCHANGED <<redis, pc, pick, popped, restarts>>

\* A heartbeat; an error is logged, and the loop goes on as before.
NodeBeats(n) ==
    /\ client[n] = "beating"
    /\ \E load \in 0..MaxLoad : Heartbeat(n, load)
    /\ UNCHANGED <<redis, pc, pick, popped, world>>

\* A heartbeat arrives that was sent before its node went down or restarted.
LateBeat(n) ==
    /\ client[n] # "beating"
    /\ \E load \in 0..MaxLoad : Heartbeat(n, load)
    /\ UNCHANGED <<redis, pc, pick, popped, world>>

NodeDown(n) ==
    /\ client[n] # "down"
    /\ client' = [client EXCEPT ![n] = "down"]
    /\ UNCHANGED <<nodes, redis, pc, pick, popped, restarts>>

HealthTick == HealthCheck /\ UNCHANGED <<redis, pc, pick, popped, world>>

Time == TimePasses /\ UNCHANGED <<redis, pc, pick, popped, world>>

Expire ==
    /\ KeysExpire
    /\ \E p \in Players : KeyExpires(p)
    /\ UNCHANGED <<nodes, pc, pick, popped, world>>

\* The matchmaker crashes and starts again: its memory is gone, Redis is not.
Restart ==
    /\ restarts < MaxRestarts
    /\ restarts' = restarts + 1
    /\ nodes' = [n \in {} |-> 0]
    /\ pc' = [p \in Procs |->
                IF p = Drainer THEN "idle"
                ELSE IF pc[p] \in RequestCalls THEN "failed" ELSE pc[p]]
    /\ pick' = [p \in Procs |-> NoNode]
    /\ popped' = NoPlayer
    /\ UNCHANGED <<redis, client>>

-----------------------------------------------------------------------------
RequestNext(r) ==
    \/ CheckQueued(r) \/ PickNode(r) \/ Match(r)
    \/ EnqueueSet(r) \/ EnqueuePush(r)

DrainerNext == DrainTick \/ DrainPick \/ DrainPop \/ DrainDelete \/ DrainAssign

NodeNext(n) ==
    NodeUp(n) \/ RegisterNode(n) \/ NodeBeats(n) \/ LateBeat(n) \/ NodeDown(n)

\* What happens while nothing goes wrong ...
NormalNext ==
    \/ \E r \in Requests : Receive(r) \/ RequestNext(r)
    \/ DrainerNext
    \/ \E n \in Nodes : NodeNext(n)
    \/ HealthTick \/ Time \/ Expire

\* ... and what may go wrong.
FaultNext == (\E r \in Requests : RequestFails(r)) \/ DrainFails \/ Restart

Next == NormalNext \/ FaultNext

Spec == Init /\ [][Next]_vars
NormalSpec == Init /\ [][NormalNext]_vars

\* The handlers and the drainer, each a goroutine, go on; nothing is assumed of
\* the players, the nodes, the network or the failures.
Fairness ==
    /\ \A r \in Requests : WF_vars(RequestNext(r))
    /\ WF_vars(DrainerNext)

\* A running node's client registers, and then sends heartbeats, again and again.
NodeFairness ==
    \A n \in Nodes : WF_vars(RegisterNode(n)) /\ WF_vars(NodeBeats(n))

FairSpec == Spec /\ Fairness /\ NodeFairness

\* For the queue, it is enough that the drainer goes on.
FairNormalSpec == NormalSpec /\ WF_vars(DrainerNext)

-----------------------------------------------------------------------------
(* Properties.                                                             *)

Holders(n) == {p \in Procs : pick[p] = n}

\* The load from which a node is not picked any more, or the largest one that
\* it reports itself.
Ceiling(info) ==
    IF info.capacity - 1 > MaxLoad THEN info.capacity - 1 ELSE MaxLoad

\* BestNode and IncrementLoad are two critical sections, so handlers can pick
\* the same last slot; a node is overbooked by no more than one player for every
\* handler and the drainer, however requests, retries, heartbeats and repeated
\* registrations interleave (server.go, RequestMatch and DrainQueue).
OvercommitBounded ==
    \A n \in Registered :
        nodes[n].load <= Ceiling(nodes[n]) + Cardinality(Procs)

\* Nobody is told "player already in queue" without being in it or on the way in
\* or out: while no command fails and the matchmaker does not crash, every
\* metadata key is matched by a list entry or by a call between its two commands
\* (queue.go, Enqueue and Dequeue).
OnTheWayIn(p) == \E r \in Requests : Asks[r] = p /\ pc[r] = "push"
OnTheWayOut(p) == pc[Drainer] = "del" /\ popped = p

KeysBacked == \A p \in keys : p \in Listed \/ OnTheWayIn(p) \/ OnTheWayOut(p)

\* A player in the queue leaves it only by being counted as assigned to a node:
\* while no command fails and the matchmaker does not crash, no interleaving of
\* drainer and handlers drops one on the way (server.go, DrainQueue).
Pending(p) == p \in Listed \/ popped = p

QueuedSurvives ==
    [][\A p \in Players : Pending(p) /\ ~Pending(p)' => DrainAssign]_vars

\* A node only starts its heartbeat loop once it is registered, and while the
\* matchmaker has not restarted it stays registered, so no heartbeat is refused
\* (cmd/main.go of the node; server.go, Heartbeat).
BeatingIsRegistered ==
    restarts = 0 => \A n \in Nodes : client[n] = "beating" => n \in Registered

\* "Node not registered - tell it to re-register" (server.go:80): a node that
\* stays up is in the registry sooner or later, also after a restart.
ReRegisters ==
    \A n \in Nodes : (client[n] = "beating") ~> (n \in Registered \/ client[n] = "down")

\* Once there is always a node to assign, the queue empties and stays empty: the
\* drainer gets through its whole backlog, and requests that go on arriving are
\* matched past it and no longer add to it (server.go, RequestMatch and DrainQueue;
\* cmd/main.go, queue drainer).
QueueDrains == (<>[](Eligible # {})) => <>[](list = <<>>)
=============================================================================
