------------------------------ MODULE Registry ------------------------------
(***************************************************************************)
(* The matchmaker's in-memory registry of game nodes                       *)
(* (services/matchmaker/internal/registry/registry.go).  Every method of   *)
(* the Go type holds the registry's lock for its whole body, so each is    *)
(* one action here; what callers do between two calls is the business of   *)
(* the modules that compose this one.                                      *)
(*                                                                         *)
(* LastSeen is kept as the age of the last sign of life, in time units.    *)
(* The only use of LastSeen is the comparison with the timeout, so the age *)
(* may saturate at any AgeCap above the timeout without losing behaviour.  *)
(***************************************************************************)
EXTENDS Integers, FiniteSets

Seqs == INSTANCE SequencesExt

CONSTANTS
    Nodes,             \* node identifiers
    NoNode,            \* the nil result of BestNode
    Capacities,        \* the capacities a node may register with
    MaxLoad,           \* bound: largest load a heartbeat reports
    HeartbeatTimeout,  \* Registry.heartbeatTimeout, in time units
    AgeCap             \* bound: ages saturate here

ASSUME RegistryAssumption ==
    /\ IsFiniteSet(Nodes)
    /\ NoNode \notin Nodes
    /\ Capacities \subseteq Nat \ {0}
    /\ MaxLoad \in Nat
    /\ HeartbeatTimeout \in Nat
    /\ AgeCap \in Nat
    /\ AgeCap > HeartbeatTimeout

VARIABLE nodes         \* Registry.nodes: a map from registered nodes to NodeInfo

NodeInfo == [capacity : Capacities, load : Nat,
             healthy : BOOLEAN, draining : BOOLEAN, age : 0..AgeCap]

Registered == DOMAIN nodes

RegistryTypeOK == Registered \subseteq Nodes /\ nodes \in [Registered -> NodeInfo]

RegistryInit == nodes = [n \in {} |-> 0]

-----------------------------------------------------------------------------
(* Choosing a node.                                                        *)

\* The mutants of this project are plausible mistakes in the code.  None is used
\* by a specification: each takes the place of the definition after it, to show
\* that a property notices.  This one accepts a node that is exactly full.
AssignableFull(info) ==
    /\ info.healthy /\ ~info.draining /\ info.capacity - info.load >= 0

\* The guards of the loop body: the node is skipped unless this holds.
Spare(info) == info.capacity - info.load
Assignable(info) == info.healthy /\ ~info.draining /\ Spare(info) > 0

Eligible == {n \in Registered : Assignable(nodes[n])}

\* The node BestNode returns is some node of this set, NoNode if it is empty;
\* which one depends on the iteration order of the Go map.
BestNodes ==
    {n \in Eligible : \A m \in Eligible : Spare(nodes[m]) <= Spare(nodes[n])}

BestNode(n) == IF BestNodes = {} THEN n = NoNode ELSE n \in BestNodes

\* Mutant of Better: draining nodes are not skipped.
BetterDraining(best, n) ==
    IF nodes[n].healthy /\ Spare(nodes[n]) > best.spare
    THEN [node |-> n, spare |-> Spare(nodes[n])]
    ELSE best

\* The loop as it is written, over one iteration order of the map.
Better(best, n) ==
    IF Assignable(nodes[n]) /\ Spare(nodes[n]) > best.spare
    THEN [node |-> n, spare |-> Spare(nodes[n])]
    ELSE best

BestNodeLoop(order) ==
    Seqs!FoldLeft(Better, [node |-> NoNode, spare |-> -1], order).node

-----------------------------------------------------------------------------
(* The registry's methods.                                                 *)

Fresh(c) == [capacity |-> c, load |-> 0,
             healthy |-> TRUE, draining |-> FALSE, age |-> 0]

Put(n, info) ==
    [m \in Registered \cup {n} |-> IF m = n THEN info ELSE nodes[m]]

\* Adds the node, or replaces all that was known of it.
Register(n, c) == nodes' = Put(n, Fresh(c))

\* Mutants of Beat: the node is back in rotation; LastSeen is not updated; the
\* load is left as it was.
BeatUndrains(info, load) ==
    [capacity |-> info.capacity, load |-> load,
     healthy |-> TRUE, draining |-> FALSE, age |-> 0]

BeatUnseen(info, load) == [info EXCEPT !.load = load, !.healthy = TRUE]

BeatLoadless(info, load) == [info EXCEPT !.healthy = TRUE, !.age = 0]

\* Never fails for a registered node; an unknown node is refused, with no effect.
Beat(info, load) ==
    [capacity |-> info.capacity, load |-> load,
     healthy |-> TRUE, draining |-> info.draining, age |-> 0]

Heartbeat(n, load) ==
    nodes' = IF n \in Registered
             THEN [nodes EXCEPT ![n] = Beat(@, load)] ELSE nodes

\* Mutant of IncrementLoad: it counts down.
DecrementLoad(n) ==
    nodes' = IF n \in Registered THEN [nodes EXCEPT ![n].load = @ - 1] ELSE nodes

IncrementLoad(n) ==
    nodes' = IF n \in Registered THEN [nodes EXCEPT ![n].load = @ + 1] ELSE nodes

SetDraining(n) ==
    nodes' = IF n \in Registered THEN [nodes EXCEPT ![n].draining = TRUE] ELSE nodes

Remove(n) == nodes' = [m \in Registered \ {n} |-> nodes[m]]

\* Mutants of TimedOut: at the timeout already; one unit late; looking at the
\* nodes that are marked unhealthy anyway.
TimedOutEarly(info) == info.healthy /\ info.age >= HeartbeatTimeout
TimedOutLate(info) == info.healthy /\ info.age > HeartbeatTimeout + 1
TimedOutInverted(info) == ~info.healthy /\ info.age > HeartbeatTimeout

\* The health checker's test: strictly longer silent than the timeout.
TimedOut(info) == info.healthy /\ info.age > HeartbeatTimeout

HealthCheck ==
    nodes' = [n \in Registered |->
                IF TimedOut(nodes[n])
                THEN [nodes[n] EXCEPT !.healthy = FALSE] ELSE nodes[n]]

\* The clock: one time unit goes by.
Older(info) == [info EXCEPT !.age = IF @ < AgeCap THEN @ + 1 ELSE @]

TimePasses == nodes' = [n \in Registered |-> Older(nodes[n])]

-----------------------------------------------------------------------------
(* The registry on its own: any method in any order.  Loads are bounded    *)
(* by refusing to increment beyond MaxLoad (a bound of the model).         *)

RegistryNext ==
    \/ \E n \in Nodes : \E c \in Capacities : Register(n, c)
    \/ \E n \in Nodes : \E l \in 0..MaxLoad : Heartbeat(n, l)
    \/ \E n \in Registered : nodes[n].load < MaxLoad /\ IncrementLoad(n)
    \/ \E n \in Nodes : SetDraining(n)
    \/ \E n \in Nodes : Remove(n)
    \/ HealthCheck
    \/ TimePasses

RegistrySpec == RegistryInit /\ [][RegistryNext]_nodes

-----------------------------------------------------------------------------
(* Properties.                                                             *)

\* Over all orders in which the map may be iterated, the results of the loop of
\* BestNode are the nodes of maximal spare capacity among the healthy, non-draining
\* nodes that have any, every one of them, and nil exactly when there is none
\* (registry.go, BestNode): the callers, which use BestNode, meet each of them.
BestNodeLoopIsBest ==
    {BestNodeLoop(order) : order \in Seqs!SetToSeqs(Registered)}
        = {n \in Nodes \cup {NoNode} : BestNode(n)}

\* A node is out of rotation only while it has been silent for longer than the
\* timeout: no order of heartbeats, registrations and health checks leaves a
\* node that spoke within the timeout marked unhealthy (registry.go, HealthCheck).
UnhealthyMeansSilent ==
    \A n \in Registered : ~nodes[n].healthy => nodes[n].age > HeartbeatTimeout

\* Draining is never undone while a node stays registered, except by a full
\* re-registration, which also forgets its load (registry.go, SetDraining and
\* Register): a heartbeat or a health check cannot put the node back in rotation.
DrainingSticks ==
    [][\A n \in Registered :
          n \in Registered' /\ nodes[n].draining /\ ~nodes'[n].draining
              => nodes'[n] = Fresh(nodes'[n].capacity)]_nodes
=============================================================================
