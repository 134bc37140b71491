--------------------------- MODULE RegistryProofs ---------------------------
(***************************************************************************)
(* What the registry's methods preserve, for every set of nodes, capacity, *)
(* timeout and load; used by the proofs of the modules built on it.        *)
(***************************************************************************)
EXTENDS Registry, FiniteSetTheorems, FunctionTheorems, TLAPS

-----------------------------------------------------------------------------
(* Each method keeps the registry well-typed.                              *)

\* Register keeps the map from registered nodes to NodeInfo well-typed
\* (registry.go, Register).
LEMMA RegisterType ==
    ASSUME RegistryTypeOK, NEW n \in Nodes, NEW c \in Capacities, Register(n, c)
    PROVE  RegistryTypeOK' /\ Registered' = Registered \cup {n}
<1>1. Fresh(c) \in NodeInfo
  BY RegistryAssumption DEF Fresh, NodeInfo
<1> QED
  BY <1>1 DEF RegistryTypeOK, Register, Put, Registered

\* Heartbeat keeps the map well-typed and registers nobody (registry.go, Heartbeat).
LEMMA HeartbeatType ==
    ASSUME RegistryTypeOK, NEW n, NEW l \in Nat, Heartbeat(n, l)
    PROVE  RegistryTypeOK' /\ Registered' = Registered
<1>1. ASSUME NEW i \in NodeInfo PROVE Beat(i, l) \in NodeInfo
  BY RegistryAssumption DEF Beat, NodeInfo
<1> QED
  BY <1>1 DEF RegistryTypeOK, Heartbeat, Registered

\* IncrementLoad keeps the map well-typed and registers nobody
\* (registry.go, IncrementLoad).
LEMMA IncrementType ==
    ASSUME RegistryTypeOK, NEW n, IncrementLoad(n)
    PROVE  RegistryTypeOK' /\ Registered' = Registered
BY DEF RegistryTypeOK, IncrementLoad, Registered, NodeInfo

\* SetDraining keeps the map well-typed and registers nobody
\* (registry.go, SetDraining).
LEMMA DrainingType ==
    ASSUME RegistryTypeOK, NEW n, SetDraining(n)
    PROVE  RegistryTypeOK' /\ Registered' = Registered
BY DEF RegistryTypeOK, SetDraining, Registered, NodeInfo

\* Remove keeps the map well-typed (registry.go, Remove).
LEMMA RemoveType ==
    ASSUME RegistryTypeOK, NEW n, Remove(n)
    PROVE  RegistryTypeOK' /\ Registered' = Registered \ {n}
BY DEF RegistryTypeOK, Remove, Registered

\* HealthCheck keeps the map well-typed and removes nobody
\* (registry.go, HealthCheck).
LEMMA HealthCheckType ==
    ASSUME RegistryTypeOK, HealthCheck
    PROVE  RegistryTypeOK' /\ Registered' = Registered
BY DEF RegistryTypeOK, HealthCheck, TimedOut, Registered, NodeInfo

\* The passing of time only ages the entries.
LEMMA TimePassesType ==
    ASSUME RegistryTypeOK, TimePasses
    PROVE  RegistryTypeOK' /\ Registered' = Registered
<1>1. ASSUME NEW i \in NodeInfo PROVE Older(i) \in NodeInfo
  BY RegistryAssumption DEF Older, NodeInfo
<1> QED
  BY <1>1 DEF RegistryTypeOK, TimePasses, Registered

\* A call of any method, with any load, or time that goes by.
RegistryCall ==
    \/ \E n \in Nodes : \/ \E c \in Capacities : Register(n, c)
                        \/ \E l \in Nat : Heartbeat(n, l)
                        \/ IncrementLoad(n) \/ SetDraining(n) \/ Remove(n)
    \/ HealthCheck \/ TimePasses

LEMMA CallsOnly == RegistryTypeOK /\ RegistryNext => RegistryCall
<1>1. RegistryTypeOK => Registered \subseteq Nodes
  BY DEF RegistryTypeOK
<1>2. 0..MaxLoad \subseteq Nat
  BY RegistryAssumption
<1> QED
  BY <1>1, <1>2 DEF RegistryNext, RegistryCall

LEMMA CallTyped == RegistryTypeOK /\ [RegistryCall]_nodes => RegistryTypeOK'
<1> SUFFICES ASSUME RegistryTypeOK, [RegistryCall]_nodes PROVE RegistryTypeOK'
  OBVIOUS
<1>1. CASE UNCHANGED nodes
  BY <1>1 DEF RegistryTypeOK, Registered
<1> QED
  BY <1>1, RegisterType, HeartbeatType, IncrementType, DrainingType, RemoveType,
     HealthCheckType, TimePassesType DEF RegistryCall

\* The registry's type invariant holds whatever methods are called.
THEOREM RegistryTyping == RegistrySpec => []RegistryTypeOK
<1>1. RegistryInit => RegistryTypeOK
  BY DEF RegistryInit, RegistryTypeOK, Registered
<1> QED
  BY <1>1, CallsOnly, CallTyped, PTL DEF RegistrySpec

-----------------------------------------------------------------------------
(* Who is out of rotation.                                                 *)

LEMMA CallSilent ==
    RegistryTypeOK /\ UnhealthyMeansSilent /\ [RegistryCall]_nodes => UnhealthyMeansSilent'
<1> SUFFICES ASSUME RegistryTypeOK, UnhealthyMeansSilent, [RegistryCall]_nodes,
                    NEW m \in Registered', ~nodes'[m].healthy
             PROVE  nodes'[m].age > HeartbeatTimeout
  BY DEF UnhealthyMeansSilent
<1> USE DEF RegistryTypeOK, UnhealthyMeansSilent, Registered, NodeInfo
<1>1. ASSUME NEW n \in Nodes, NEW c \in Capacities, Register(n, c)
      PROVE  nodes'[m].age > HeartbeatTimeout
  BY <1>1 DEF Register, Put, Fresh
<1>2. ASSUME NEW n \in Nodes, NEW l \in Nat, Heartbeat(n, l)
      PROVE  nodes'[m].age > HeartbeatTimeout
  BY <1>2 DEF Heartbeat, Beat
<1>3. ASSUME NEW n \in Nodes, IncrementLoad(n) PROVE nodes'[m].age > HeartbeatTimeout
  BY <1>3 DEF IncrementLoad
<1>4. ASSUME NEW n \in Nodes, SetDraining(n) PROVE nodes'[m].age > HeartbeatTimeout
  BY <1>4 DEF SetDraining
<1>5. ASSUME NEW n \in Nodes, Remove(n) PROVE nodes'[m].age > HeartbeatTimeout
  BY <1>5 DEF Remove
<1>6. CASE HealthCheck
  BY <1>6 DEF HealthCheck, TimedOut
<1>7. CASE TimePasses
  BY <1>7, RegistryAssumption DEF TimePasses, Older
<1>8. CASE UNCHANGED nodes
  BY <1>8
<1> QED
  BY <1>1, <1>2, <1>3, <1>4, <1>5, <1>6, <1>7, <1>8 DEF RegistryCall

\* A node marked unhealthy has been silent for longer than the timeout, in
\* every interleaving of the registry's methods (registry.go, HealthCheck).
THEOREM UnhealthyIsSilent == RegistrySpec => []UnhealthyMeansSilent
<1>1. RegistryInit => UnhealthyMeansSilent
  BY DEF RegistryInit, UnhealthyMeansSilent, Registered
<1> QED
  BY <1>1, CallsOnly, CallSilent, RegistryTyping, PTL DEF RegistrySpec

\* Draining is undone by a full registration only: no heartbeat, health check or
\* increment puts a draining node back in rotation (registry.go, SetDraining).
THEOREM DrainingStays == RegistrySpec => DrainingSticks
<1> DEFINE Sticks(n) == n \in Registered' /\ nodes[n].draining /\ ~nodes'[n].draining
                            => nodes'[n] = Fresh(nodes'[n].capacity)
<1>1. RegistryTypeOK /\ [RegistryNext]_nodes => [\A n \in Registered : Sticks(n)]_nodes
  <2> SUFFICES ASSUME RegistryTypeOK, RegistryNext, NEW n \in Registered
               PROVE  Sticks(n)
    OBVIOUS
  <2> USE DEF RegistryTypeOK, Registered, NodeInfo
  <2>1. ASSUME NEW m \in Nodes, NEW c \in Capacities, Register(m, c) PROVE Sticks(n)
    BY <2>1 DEF Register, Put, Fresh
  <2>2. ASSUME NEW m \in Nodes, NEW l \in 0..MaxLoad, Heartbeat(m, l) PROVE Sticks(n)
    BY <2>2 DEF Heartbeat, Beat
  <2>3. ASSUME NEW m \in Registered, IncrementLoad(m) PROVE Sticks(n)
    BY <2>3 DEF IncrementLoad
  <2>4. ASSUME NEW m \in Nodes, SetDraining(m) PROVE Sticks(n)
    BY <2>4 DEF SetDraining
  <2>5. ASSUME NEW m \in Nodes, Remove(m) PROVE Sticks(n)
    BY <2>5 DEF Remove
  <2>6. CASE HealthCheck
    BY <2>6 DEF HealthCheck
  <2>7. CASE TimePasses
    BY <2>7 DEF TimePasses, Older
  <2> QED
    BY <2>1, <2>2, <2>3, <2>4, <2>5, <2>6, <2>7 DEF RegistryNext
<1> QED
  BY <1>1, RegistryTyping, PTL DEF RegistrySpec, DrainingSticks

-----------------------------------------------------------------------------
(* The loop of BestNode, over however many nodes.                          *)

BestLoop == INSTANCE Loops WITH Step <- LAMBDA c, best, n : Better(best, n)

LEMMA TheLoop ==
    \A order : BestNodeLoop(order) = BestLoop!Loop(0, [node |-> NoNode, spare |-> -1], order).node
BY Zenon DEF BestNodeLoop, BestLoop!Loop, Seqs!FoldLeft, Seqs!MapThenFoldSet, Seqs!Max,
     BestLoop!Seqs!FoldLeft, BestLoop!Seqs!MapThenFoldSet, BestLoop!Seqs!Max

LEMMA OrdersInjective ==
    ASSUME NEW S
    PROVE  Seqs!SetToSeqs(S) = {f \in [1..Cardinality(S) -> S] :
                                  \A i, j \in 1..Cardinality(S) : i # j => f[i] # f[j]}
<1>1. Seqs!Cardinality(S) = Cardinality(S)
  BY Zenon DEF Cardinality, Seqs!Cardinality
<1> QED
  BY <1>1 DEF Seqs!SetToSeqs

\* An iteration order of the map takes every node.
LEMMA OrderTakesAll ==
    ASSUME NEW S, IsFiniteSet(S), NEW order \in Seqs!SetToSeqs(S)
    PROVE  /\ Cardinality(S) \in Nat
           /\ order \in [1..Cardinality(S) -> S]
           /\ \A x \in S : \E i \in 1..Cardinality(S) : order[i] = x
<1> DEFINE n == Cardinality(S)
<1>1. n \in Nat /\ Cardinality(1..n) = n
  BY FS_CardinalityType, FS_Interval
<1>2. order \in {f \in [1..n -> S] : \A i, j \in 1..n : i # j => f[i] # f[j]}
  BY OrdersInjective
<1> HIDE DEF n
<1>3. order \in Injection(1..n, S)
  BY <1>2, Fun_IsInj
<1>4. order \in Surjection(1..n, S)
  BY <1>1, <1>3, FS_Injection DEF n
<1> QED
  BY <1>1, <1>2, <1>4 DEF n, Surjection

\* Any node may be the first.
LEMMA OrderFrom ==
    ASSUME NEW S, IsFiniteSet(S)
    PROVE  /\ Seqs!SetToSeqs(S) # {}
           /\ \A x \in S : \E order \in Seqs!SetToSeqs(S) :
                 Cardinality(S) >= 1 /\ order[1] = x
<1> DEFINE n == Cardinality(S)
           Orders == {f \in [1..n -> S] : \A i, j \in 1..n : i # j => f[i] # f[j]}
<1>1. n \in Nat /\ ExistsBijection(1..n, S)
  BY FS_CardinalityType
<1>2. Seqs!SetToSeqs(S) = Orders
  BY OrdersInjective
<1> HIDE DEF n
<1>3. PICK f : f \in Bijection(1..n, S)
  BY <1>1 DEF ExistsBijection
<1>4. /\ f \in [1..n -> S] /\ \A i, j \in 1..n : f[i] = f[j] => i = j
      /\ \A x \in S : \E i \in 1..n : f[i] = x
  BY <1>3 DEF Bijection, Injection, Surjection, IsInjective
<1>5. f \in Orders
  BY <1>4
<1>6. ASSUME NEW x \in S PROVE \E order \in Orders : n >= 1 /\ order[1] = x
  <2>1. PICK k \in 1..n : f[k] = x
    BY <1>4
  <2>2. n >= 1 /\ 1 \in 1..n
    BY <1>1
  <2> DEFINE g == [i \in 1..n |-> IF i = 1 THEN x ELSE IF i = k THEN f[1] ELSE f[i]]
  <2>3. g \in [1..n -> S] /\ g[1] = x
    BY <1>4, <2>2
  <2>4. \A i, j \in 1..n : i # j => g[i] # g[j]
    BY <1>4, <2>1, <2>2
  <2> HIDE DEF g
  <2>5. g \in Orders
    BY <2>3, <2>4
  <2> QED
    BY <2>2, <2>3, <2>5
<1> QED
  BY <1>2, <1>5, <1>6 DEF n

\* The best of the first k nodes of an order: nothing that can be assigned among them
\* has more to spare.
BestOf(order, k) ==
    {best \in [node : Nodes \cup {NoNode}, spare : Int] :
        /\ best.spare >= -1
        /\ best.spare > 0 => best.node \in Eligible /\ best.spare = Spare(nodes[best.node])
        /\ best.spare <= 0 => best.node = NoNode
        /\ \A i \in 1..k : Assignable(nodes[order[i]]) => Spare(nodes[order[i]]) <= best.spare}

LEMMA SpareType == RegistryTypeOK => \A m \in Registered : Spare(nodes[m]) \in Int
<1> SUFFICES ASSUME RegistryTypeOK, NEW m \in Registered PROVE Spare(nodes[m]) \in Int
  OBVIOUS
<1>1. nodes[m] \in NodeInfo
  BY DEF RegistryTypeOK
<1>2. nodes[m].capacity \in Nat /\ nodes[m].load \in Nat
  BY <1>1, RegistryAssumption DEF NodeInfo
<1> QED
  BY <1>2 DEF Spare

LEMMA BetterStep ==
    ASSUME RegistryTypeOK, NEW k \in Nat, NEW order, NEW best \in BestOf(order, k),
           \A i \in 1..(k + 1) : order[i] \in Registered
    PROVE  Better(best, order[k + 1]) \in BestOf(order, k + 1)
<1> DEFINE n == order[k + 1]
<1>1. n \in Registered /\ n \in Nodes
  BY DEF RegistryTypeOK
<1>2. \A m \in Registered : Spare(nodes[m]) \in Int
  BY SpareType
<1>3. Assignable(nodes[n]) => n \in Eligible /\ Spare(nodes[n]) > 0
  BY DEF Eligible, Assignable
<1>4. /\ best \in [node : Nodes \cup {NoNode}, spare : Int] /\ best.spare >= -1
      /\ best.spare > 0 => best.node \in Eligible /\ best.spare = Spare(nodes[best.node])
      /\ best.spare <= 0 => best.node = NoNode
      /\ \A i \in 1..k : Assignable(nodes[order[i]]) => Spare(nodes[order[i]]) <= best.spare
  BY DEF BestOf
<1>5. \A i \in 1..(k + 1) : i \in 1..k \/ order[i] = n
  OBVIOUS
<1>6. \A i \in 1..k : Spare(nodes[order[i]]) \in Int
  BY <1>2
<1> QED
  BY <1>1, <1>2, <1>3, <1>4, <1>5, <1>6 DEF Better, BestOf

LEMMA LoopFindsBest ==
    ASSUME RegistryTypeOK, NEW order \in Seqs!SetToSeqs(Registered)
    PROVE  BestNode(BestNodeLoop(order))
<1> DEFINE n == Cardinality(Registered)
           start == [node |-> NoNode, spare |-> -1]
           J == [k \in 0..n |-> BestOf(order, k)]
           best == BestLoop!Loop(0, start, order)
<1>1. /\ n \in Nat /\ order \in [1..n -> Registered]
      /\ \A m \in Registered : \E i \in 1..n : order[i] = m
  <2>1. IsFiniteSet(Registered)
    BY RegistryAssumption, FS_Subset DEF RegistryTypeOK
  <2> QED
    BY <2>1, OrderTakesAll
<1> HIDE DEF n
<1>2. start \in J[0]
  BY <1>1 DEF BestOf
<1>3. ASSUME NEW k \in 1..n, NEW b \in J[k - 1] PROVE Better(b, order[k]) \in J[k]
  <2>1. /\ k - 1 \in Nat /\ (k - 1) + 1 = k
        /\ \A i \in 1..k : order[i] \in Registered
    BY <1>1
  <2>2. b \in BestOf(order, k - 1)
    BY <1>1
  <2>3. Better(b, order[k]) \in BestOf(order, k)
    BY <2>1, <2>2, BetterStep
  <2> QED
    BY <1>1, <2>3
<1>4. best \in J[n]
  <2>1. DOMAIN order = 1..n
    BY <1>1
  <2> HIDE DEF J, start
  <2> QED
    BY <1>1, <1>2, <1>3, <2>1, BestLoop!LoopInvariant
<1>5. best \in BestOf(order, n) /\ BestNodeLoop(order) = best.node
  BY <1>1, <1>4, TheLoop
<1> HIDE DEF best
<1>6. \A m \in Eligible : Spare(nodes[m]) <= best.spare /\ Spare(nodes[m]) > 0
  BY <1>1, <1>5 DEF BestOf, Eligible, Assignable
<1>7. best.spare \in Int
  BY <1>5 DEF BestOf
<1>8. CASE best.spare > 0
  <2>1. best.node \in BestNodes
    BY <1>5, <1>6, <1>8 DEF BestOf, BestNodes
  <2> QED
    BY <1>5, <2>1 DEF BestNode
<1>9. CASE best.spare <= 0
  <2>1. \A m \in Eligible : Spare(nodes[m]) \in Int
    BY SpareType DEF Eligible
  <2>2. Eligible = {}
    BY <1>6, <1>7, <1>9, <2>1
  <2>3. BestNodes = {}
    BY <2>2 DEF BestNodes
  <2> QED
    BY <1>5, <1>9, <2>3 DEF BestOf, BestNode
<1> QED
  BY <1>7, <1>8, <1>9

\* Once a best node is the candidate, it stays.
LEMMA LoopKeepsFirst ==
    ASSUME RegistryTypeOK, NEW x \in BestNodes, NEW order \in Seqs!SetToSeqs(Registered),
           Cardinality(Registered) >= 1, order[1] = x
    PROVE  BestNodeLoop(order) = x
<1> DEFINE n == Cardinality(Registered)
           start == [node |-> NoNode, spare |-> -1]
           won == [node |-> x, spare |-> Spare(nodes[x])]
           J == [k \in 0..n |-> IF k = 0 THEN {start} ELSE {won}]
<1>1. n \in Nat /\ order \in [1..n -> Registered] /\ n >= 1
  <2>1. IsFiniteSet(Registered)
    BY RegistryAssumption, FS_Subset DEF RegistryTypeOK
  <2> QED
    BY <2>1, OrderTakesAll
<1> HIDE DEF n
<1>2. /\ x \in Registered /\ Assignable(nodes[x]) /\ Spare(nodes[x]) > 0
      /\ \A m \in Registered : Assignable(nodes[m]) => Spare(nodes[m]) <= Spare(nodes[x])
      /\ \A m \in Registered : Spare(nodes[m]) \in Int
  BY SpareType DEF BestNodes, Eligible, Assignable
<1>3. Better(start, x) = won
  BY <1>2 DEF Better
<1>4. ASSUME NEW m \in Registered PROVE Better(won, m) = won
  BY <1>2 DEF Better
<1>5. ASSUME NEW k \in 1..n, NEW b \in J[k - 1] PROVE Better(b, order[k]) \in J[k]
  <2>1. order[k] \in Registered /\ J[k] = {won}
    BY <1>1
  <2>2. CASE k = 1
    <3>1. b = start
      BY <1>1, <2>2
    <3> QED
      BY <1>3, <2>1, <2>2, <3>1
  <2>3. CASE k # 1
    <3>1. b = won
      BY <1>1, <2>3
    <3> QED
      BY <1>4, <2>1, <3>1
  <2> QED
    BY <2>2, <2>3
<1>6. start \in J[0] /\ J[n] = {won} /\ DOMAIN order = 1..n
  BY <1>1
<1> HIDE DEF J, start
<1>7. BestLoop!Loop(0, start, order) \in J[n]
  BY <1>1, <1>5, <1>6, BestLoop!LoopInvariant
<1>8. BestNodeLoop(order) = won.node
  BY <1>6, <1>7, TheLoop DEF start
<1> QED
  BY <1>8

LEMMA LoopIsBest == RegistryTypeOK => BestNodeLoopIsBest
<1> SUFFICES ASSUME RegistryTypeOK PROVE BestNodeLoopIsBest
  OBVIOUS
<1>1. IsFiniteSet(Registered) /\ Registered \in SUBSET Nodes
  BY RegistryAssumption, FS_Subset DEF RegistryTypeOK
<1>2. ASSUME NEW order \in Seqs!SetToSeqs(Registered)
      PROVE  BestNodeLoop(order) \in {n \in Nodes \cup {NoNode} : BestNode(n)}
  <2>1. BestNode(BestNodeLoop(order))
    BY LoopFindsBest
  <2>2. BestNodes \in SUBSET Nodes
    BY <1>1 DEF BestNodes, Eligible
  <2> QED
    BY <2>1, <2>2 DEF BestNode
<1>3. ASSUME NEW n, BestNode(n)
      PROVE  \E order \in Seqs!SetToSeqs(Registered) : BestNodeLoop(order) = n
  <2>1. CASE BestNodes = {}
    <3>1. PICK order \in Seqs!SetToSeqs(Registered) : TRUE
      BY <1>1, OrderFrom
    <3>2. BestNode(BestNodeLoop(order))
      BY LoopFindsBest
    <3> QED
      BY <1>3, <2>1, <3>2 DEF BestNode
  <2>2. CASE BestNodes # {}
    <3>1. n \in BestNodes /\ n \in Registered
      BY <1>3, <2>2 DEF BestNode, BestNodes, Eligible
    <3>2. PICK order \in Seqs!SetToSeqs(Registered) :
             Cardinality(Registered) >= 1 /\ order[1] = n
      BY <1>1, <3>1, OrderFrom
    <3> QED
      BY <3>1, <3>2, LoopKeepsFirst
  <2> QED
    BY <2>1, <2>2
<1> QED
  BY <1>2, <1>3 DEF BestNodeLoopIsBest

\* In whatever order the map is iterated, the loop picks a node with the most to spare,
\* and none if every node is full, unhealthy or draining; and every such node is picked
\* in some order (registry.go, BestNode).
THEOREM BestNodeIsBest == RegistrySpec => []BestNodeLoopIsBest
BY LoopIsBest, RegistryTyping, PTL
=============================================================================
