-------------------------- MODULE MatchmakerProofs --------------------------
(***************************************************************************)
(* The matchmaker's typing, the bound on overbooking and the agreement of  *)
(* metadata keys and queue, for any number of requests, players and nodes, *)
(* with failures and restarts where the statement allows them.             *)
(* The last section is about the system: gateway, matchmaker and nodes     *)
(* together implement the matchmaker's specification, so that what is      *)
(* proved of the matchmaker holds of them.                                 *)
(***************************************************************************)
EXTENDS System, RegistryProofs, FiniteSetTheorems

-----------------------------------------------------------------------------
(* Typing.                                                                 *)

\* BestNode returns a registered node with room, or nil.
LEMMA BestNodeRoom ==
    ASSUME RegistryTypeOK, NEW n, BestNode(n)
    PROVE  /\ n \in Nodes \cup {NoNode}
           /\ n # NoNode => /\ n \in Registered
                            /\ nodes[n].capacity - nodes[n].load > 0
BY RegistryAssumption
   DEF BestNode, BestNodes, Eligible, Assignable, Spare, RegistryTypeOK

LEMMA TypeInit == Init => TypeOK
BY MatchmakerAssumption, RegistryAssumption
   DEF Init, TypeOK, RegistryInit, RegistryTypeOK, Registered, QueueInit,
       QueueTypeOK

\* Redis' commands keep the queue well-typed.
LEMMA QueueStep ==
    ASSUME QueueTypeOK, NEW p \in Players,
           SetKey(p) \/ PushBack(p) \/ PopFront(p) \/ DeleteKey(p) \/ UNCHANGED redis
    PROVE  QueueTypeOK'
BY DEF QueueTypeOK, SetKey, PushBack, PopFront, DeleteKey, redis

LEMMA TypeStep == TypeOK /\ [Next]_vars => TypeOK'
<1> SUFFICES ASSUME TypeOK, [Next]_vars PROVE TypeOK'
  OBVIOUS
<1> USE MatchmakerAssumption, RegistryAssumption
    DEF TypeOK, Procs, RequestCalls, Answers, DrainerCalls, Goto, Keep, Forget, world
<1>a. UNCHANGED nodes => RegistryTypeOK'
  BY DEF RegistryTypeOK, Registered
<1>b. UNCHANGED redis => QueueTypeOK'
  BY DEF QueueTypeOK, redis
<1>c. ASSUME NEW p \in Procs, IncrementLoad(pick[p]) PROVE RegistryTypeOK'
  BY <1>c, IncrementType
<1>1. ASSUME NEW r \in Requests, Receive(r) PROVE TypeOK'
  BY <1>1, <1>a, <1>b DEF Receive
<1>2. ASSUME NEW r \in Requests, CheckQueued(r) PROVE TypeOK'
  BY <1>2, <1>a, <1>b DEF CheckQueued
<1>3. ASSUME NEW r \in Requests, PickNode(r) PROVE TypeOK'
  BY <1>3, <1>a, <1>b DEF PickNode
<1>4. ASSUME NEW r \in Requests, Match(r) PROVE TypeOK'
  BY <1>4, <1>b, <1>c DEF Match
<1>5. ASSUME NEW r \in Requests, EnqueueSet(r) PROVE TypeOK'
  BY <1>5, <1>a, QueueStep DEF EnqueueSet
<1>6. ASSUME NEW r \in Requests, EnqueuePush(r) PROVE TypeOK'
  BY <1>6, <1>a, QueueStep DEF EnqueuePush
<1>7. ASSUME NEW r \in Requests, RequestFails(r) PROVE TypeOK'
  <2>1. QueueTypeOK'
    BY <1>7, QueueStep DEF RequestFails
  <2> QED
    BY <1>7, <1>a, <2>1 DEF RequestFails
<1>8. CASE DrainTick
  BY <1>8, <1>a, <1>b DEF DrainTick
<1>9. CASE DrainPick
  BY <1>9, <1>a, <1>b DEF DrainPick
<1>10. CASE DrainPop
  <2>1. QueueTypeOK'
    BY <1>10, <1>b, QueueStep DEF DrainPop
  <2>2. popped' \in Players \cup {NoPlayer}
    BY <1>10 DEF DrainPop
  <2> QED
    BY <1>10, <1>a, <2>1, <2>2 DEF DrainPop
<1>11. CASE DrainDelete
  <2>1. QueueTypeOK'
    BY <1>11, <1>b DEF DrainDelete, DeleteKey, QueueTypeOK
  <2> QED
    BY <1>11, <1>a, <2>1 DEF DrainDelete
<1>12. CASE DrainAssign
  BY <1>12, <1>b, <1>c DEF DrainAssign
<1>13. CASE DrainFails
  <2>1. QueueTypeOK'
    BY <1>13, <1>b, QueueStep DEF DrainFails
  <2> QED
    BY <1>13, <1>a, <2>1 DEF DrainFails
<1>14. ASSUME NEW n \in Nodes, NodeUp(n) PROVE TypeOK'
  BY <1>14, <1>a, <1>b DEF NodeUp
<1>15. ASSUME NEW n \in Nodes, RegisterNode(n) PROVE TypeOK'
  <2>1. RegistryTypeOK'
    BY <1>15, RegisterType DEF RegisterNode
  <2> QED
    BY <1>15, <1>b, <2>1 DEF RegisterNode
<1>16. ASSUME NEW n \in Nodes, NodeBeats(n) \/ LateBeat(n) PROVE TypeOK'
  <2>1. PICK l \in 0..MaxLoad : Heartbeat(n, l)
    BY <1>16 DEF NodeBeats, LateBeat
  <2>2. RegistryTypeOK'
    BY <2>1, HeartbeatType
  <2> QED
    BY <1>16, <1>b, <2>2 DEF NodeBeats, LateBeat
<1>17. ASSUME NEW n \in Nodes, NodeDown(n) PROVE TypeOK'
  BY <1>17, <1>a, <1>b DEF NodeDown
<1>18. CASE HealthTick
  BY <1>18, <1>b, HealthCheckType DEF HealthTick
<1>19. CASE Time
  BY <1>19, <1>b, TimePassesType DEF Time
<1>20. CASE Expire
  BY <1>20, <1>a, QueueStep DEF Expire, KeyExpires
<1>21. CASE Restart
  <2>1. RegistryTypeOK'
    BY <1>21 DEF Restart, RegistryTypeOK, Registered
  <2> QED
    BY <1>21, <1>b, <2>1 DEF Restart
<1>22. CASE UNCHANGED vars
  BY <1>22, <1>a, <1>b DEF vars, redis
<1> QED
  BY <1>1, <1>2, <1>3, <1>4, <1>5, <1>6, <1>7, <1>8, <1>9, <1>10, <1>11, <1>12,
     <1>13, <1>14, <1>15, <1>16, <1>17, <1>18, <1>19, <1>20, <1>21, <1>22
     DEF Next, NormalNext, FaultNext, RequestNext, DrainerNext, NodeNext

\* The type invariant holds in every behaviour.
THEOREM Typing == Spec => []TypeOK
BY TypeInit, TypeStep, PTL DEF Spec

-----------------------------------------------------------------------------
(* Overbooking.  A process that has picked a node and has not incremented  *)
(* its load yet is counted with the load: picking adds a holder while there*)
(* is room, incrementing turns a holder into load, and nothing else raises *)
(* the sum above the ceiling by more than the holders there can be.        *)

Booked(n) ==
    nodes[n].load + Cardinality(Holders(n))
        <= Ceiling(nodes[n]) + Cardinality(Procs)

AllBooked == \A n \in Registered : Booked(n)

LEMMA ProcsFinite == IsFiniteSet(Procs) /\ Cardinality(Procs) \in Nat
BY MatchmakerAssumption, FS_AddElement, FS_CardinalityType DEF Procs

LEMMA HoldersCount ==
    ASSUME NEW n
    PROVE  /\ IsFiniteSet(Holders(n))
           /\ Cardinality(Holders(n)) \in Nat
           /\ Cardinality(Holders(n)) <= Cardinality(Procs)
<1>1. Holders(n) \in SUBSET Procs
  BY DEF Holders
<1> QED
  BY <1>1, ProcsFinite, FS_Subset, FS_CardinalityType

LEMMA CeilingFacts ==
    ASSUME NEW info \in NodeInfo
    PROVE  /\ Ceiling(info) \in Nat /\ info.capacity \in Nat
           /\ MaxLoad <= Ceiling(info) /\ info.capacity - 1 <= Ceiling(info)
<1>1. info.capacity \in Capacities
  BY DEF NodeInfo
<1>2. info.capacity \in Nat \ {0} /\ MaxLoad \in Nat
  BY <1>1, RegistryAssumption
<1> QED
  BY <1>2 DEF Ceiling

\* Nodes whose entry is kept, or only loses load, and that gain no holder stay
\* within the bound.
LEMMA StillBooked ==
    ASSUME TypeOK, TypeOK', NEW n \in Registered, n \in Registered', Booked(n),
           nodes'[n].capacity = nodes[n].capacity,
           nodes'[n].load <= nodes[n].load,
           Holders(n)' \subseteq Holders(n)
    PROVE  Booked(n)'
<1>1. Cardinality(Holders(n)') <= Cardinality(Holders(n))
  <2>1. Holders(n)' \in SUBSET Holders(n)
    OBVIOUS
  <2> QED
    BY <2>1, HoldersCount, FS_Subset
<1>2. /\ Cardinality(Holders(n)) \in Nat
      /\ Cardinality(Holders(n)') \in Nat
      /\ Cardinality(Procs) \in Nat
  <2>1. Holders(n)' \in SUBSET Holders(n)
    OBVIOUS
  <2>2. IsFiniteSet(Holders(n)')
    BY <2>1, HoldersCount, FS_Subset
  <2> QED
    BY <2>2, HoldersCount, ProcsFinite, FS_CardinalityType
<1>3. nodes[n] \in NodeInfo /\ nodes'[n] \in NodeInfo
  BY DEF TypeOK, RegistryTypeOK
<1>4. Ceiling(nodes'[n]) = Ceiling(nodes[n]) /\ Ceiling(nodes[n]) \in Int
  BY <1>3, CeilingFacts DEF Ceiling
<1> QED
  BY <1>1, <1>2, <1>3, <1>4 DEF Booked, NodeInfo

\* A node whose load is below its ceiling is within the bound, whoever holds it.
LEMMA RoomIsBooked ==
    ASSUME TypeOK, NEW n \in Registered, nodes[n].load <= Ceiling(nodes[n])
    PROVE  Booked(n)
<1>1. nodes[n] \in NodeInfo
  BY DEF TypeOK, RegistryTypeOK
<1>2. Ceiling(nodes[n]) \in Int
  BY <1>1, CeilingFacts
<1> QED
  BY <1>1, <1>2, HoldersCount, ProcsFinite DEF Booked, NodeInfo

LEMMA PickBooked ==
    ASSUME TypeOK, TypeOK', AllBooked, NEW p \in Procs, NEW m, BestNode(m),
           Keep(p, m), UNCHANGED nodes
    PROVE  AllBooked'
<1> SUFFICES ASSUME NEW n \in Registered' PROVE Booked(n)'
  BY DEF AllBooked
<1>1. n \in Registered
  BY DEF Registered
<1>2. CASE n = m
  <2>1. n # NoNode /\ nodes[n].capacity - nodes[n].load > 0
    BY <1>1, <1>2, RegistryAssumption, BestNodeRoom DEF TypeOK, RegistryTypeOK
  <2>2. nodes'[n].load <= Ceiling(nodes'[n])
    <3>1. nodes[n] \in NodeInfo /\ nodes' = nodes
      BY <1>1 DEF TypeOK, RegistryTypeOK
    <3>2. nodes[n].load \in Nat
      BY <3>1 DEF NodeInfo
    <3> QED
      BY <2>1, <3>1, <3>2, CeilingFacts
  <2>3. /\ nodes'[n] \in NodeInfo
        /\ Cardinality(Holders(n)') <= Cardinality(Procs)
        /\ Cardinality(Holders(n)') \in Nat
    <3>1. Holders(n)' \in SUBSET Procs
      BY DEF Holders
    <3> QED
      BY <3>1, ProcsFinite, FS_Subset, FS_CardinalityType DEF TypeOK, RegistryTypeOK
  <2>4. Ceiling(nodes'[n]) \in Int
    BY <2>3, CeilingFacts
  <2> QED
    BY <2>2, <2>3, <2>4, ProcsFinite DEF Booked, NodeInfo
<1>3. CASE n # m
  <2>1. Holders(n)' \subseteq Holders(n)
    BY <1>3 DEF Holders, Keep, TypeOK
  <2>2. nodes[n].load \in Nat
    BY <1>1 DEF TypeOK, RegistryTypeOK, NodeInfo
  <2> QED
    BY <1>1, <2>1, <2>2, StillBooked DEF AllBooked
<1> QED
  BY <1>2, <1>3

LEMMA IncrementBooked ==
    ASSUME TypeOK, TypeOK', AllBooked, NEW p \in Procs,
           IncrementLoad(pick[p]), Forget(p)
    PROVE  AllBooked'
<1> SUFFICES ASSUME NEW n \in Registered' PROVE Booked(n)'
  BY DEF AllBooked
<1>1. n \in Registered /\ n # NoNode
  BY RegistryAssumption, IncrementType DEF TypeOK, RegistryTypeOK
<1>2. nodes[n] \in NodeInfo
  BY <1>1 DEF TypeOK, RegistryTypeOK
<1>3. CASE n = pick[p]
  <2>1. nodes'[n] = [nodes[n] EXCEPT !.load = @ + 1]
    BY <1>1, <1>3 DEF IncrementLoad, TypeOK, RegistryTypeOK
  <2>2. nodes'[n].load = nodes[n].load + 1 /\ Ceiling(nodes'[n]) = Ceiling(nodes[n])
    BY <1>2, <2>1 DEF NodeInfo, Ceiling
  <2>3. Holders(n)' = Holders(n) \ {p} /\ p \in Holders(n)
    BY <1>1, <1>3 DEF Holders, Forget, Keep, TypeOK
  <2>4. Cardinality(Holders(n)') = Cardinality(Holders(n)) - 1
    BY <2>3, HoldersCount, FS_RemoveElement
  <2>5. Ceiling(nodes[n]) \in Int
    BY <1>2, CeilingFacts
  <2> QED
    BY <1>1, <1>2, <2>2, <2>4, <2>5, HoldersCount, ProcsFinite
       DEF AllBooked, Booked, NodeInfo
<1>4. CASE n # pick[p]
  <2>1. nodes'[n] = nodes[n]
    BY <1>1, <1>4 DEF IncrementLoad, TypeOK, RegistryTypeOK
  <2>2. Holders(n)' \subseteq Holders(n)
    BY <1>1 DEF Holders, Forget, Keep, TypeOK
  <2> QED
    BY <1>1, <1>2, <2>1, <2>2, StillBooked DEF AllBooked, NodeInfo
<1> QED
  BY <1>3, <1>4

\* Steps that leave the registry alone and give no process a node.
LEMMA ReleaseBooked ==
    ASSUME TypeOK, TypeOK', AllBooked, UNCHANGED nodes,
           pick' = pick \/ \E p \in Procs : Forget(p)
    PROVE  AllBooked'
<1> SUFFICES ASSUME NEW n \in Registered' PROVE Booked(n)'
  BY DEF AllBooked
<1>1. n \in Registered /\ n # NoNode /\ nodes[n].load \in Nat
  BY RegistryAssumption DEF TypeOK, RegistryTypeOK, Registered, NodeInfo
<1>2. Holders(n)' \subseteq Holders(n)
  BY <1>1 DEF Holders, Forget, Keep, TypeOK
<1> QED
  BY <1>1, <1>2, StillBooked DEF AllBooked

\* Steps that keep every node's capacity and load, and all picks.
LEMMA AgeBooked ==
    ASSUME TypeOK, TypeOK', AllBooked, UNCHANGED pick,
           Registered' = Registered,
           \A n \in Registered : /\ nodes'[n].capacity = nodes[n].capacity
                                 /\ nodes'[n].load = nodes[n].load
    PROVE  AllBooked'
<1> SUFFICES ASSUME NEW n \in Registered' PROVE Booked(n)'
  BY DEF AllBooked
<1>1. Holders(n)' = Holders(n)
  BY DEF Holders
<1>2. nodes[n].load \in Nat
  BY DEF TypeOK, RegistryTypeOK, NodeInfo
<1> QED
  BY <1>1, <1>2, StillBooked DEF AllBooked

LEMMA BookedStep == TypeOK /\ AllBooked /\ [Next]_vars => AllBooked'
<1> SUFFICES ASSUME TypeOK, AllBooked, [Next]_vars PROVE AllBooked'
  OBVIOUS
<1>t. TypeOK'
  BY TypeStep
<1>p. Drainer \in Procs /\ Requests \subseteq Procs
  BY DEF Procs
<1>1. ASSUME NEW r \in Requests, Receive(r) \/ CheckQueued(r) \/ EnqueueSet(r)
                                   \/ EnqueuePush(r) \/ RequestFails(r)
      PROVE  AllBooked'
  BY <1>1, <1>t, <1>p, ReleaseBooked
     DEF Receive, CheckQueued, EnqueueSet, EnqueuePush, RequestFails
<1>2. ASSUME NEW r \in Requests, PickNode(r) PROVE AllBooked'
  BY <1>2, <1>t, <1>p, PickBooked DEF PickNode
<1>3. ASSUME NEW r \in Requests, Match(r) PROVE AllBooked'
  BY <1>3, <1>t, <1>p, IncrementBooked DEF Match
<1>4. CASE DrainTick \/ DrainPop \/ DrainDelete \/ DrainFails
  BY <1>4, <1>t, <1>p, ReleaseBooked
     DEF DrainTick, DrainPop, DrainDelete, DrainFails
<1>5. CASE DrainPick
  BY <1>5, <1>t, <1>p, PickBooked DEF DrainPick
<1>6. CASE DrainAssign
  BY <1>6, <1>t, <1>p, IncrementBooked DEF DrainAssign
<1>7. ASSUME NEW n \in Nodes, NodeUp(n) \/ NodeDown(n) PROVE AllBooked'
  BY <1>7, <1>t, ReleaseBooked DEF NodeUp, NodeDown
<1>8. ASSUME NEW m \in Nodes, RegisterNode(m) PROVE AllBooked'
  <2> SUFFICES ASSUME NEW n \in Registered' PROVE Booked(n)'
    BY DEF AllBooked
  <2>1. PICK c \in Capacities : Register(m, c)
    BY <1>8 DEF RegisterNode
  <2>2. Holders(n)' = Holders(n) /\ nodes'[n] \in NodeInfo
    BY <1>8, <1>t DEF RegisterNode, Holders, TypeOK, RegistryTypeOK
  <2>3. CASE n = m
    <3>1. nodes'[n].load = 0
      BY <2>1, <2>3 DEF Register, Put, Fresh
    <3>2. Ceiling(nodes'[n]) \in Nat
      BY <2>2, CeilingFacts, RegistryAssumption
    <3> QED
      BY <2>2, <3>1, <3>2, HoldersCount, ProcsFinite DEF Booked
  <2>4. CASE n # m
    <3>1. n \in Registered /\ nodes'[n] = nodes[n]
      BY <2>1, <2>4 DEF Register, Put, Registered
    <3> QED
      BY <2>2, <3>1, <1>t, StillBooked DEF AllBooked, NodeInfo
  <2> QED
    BY <2>3, <2>4
<1>9. ASSUME NEW m \in Nodes, NodeBeats(m) \/ LateBeat(m) PROVE AllBooked'
  <2> SUFFICES ASSUME NEW n \in Registered' PROVE Booked(n)'
    BY DEF AllBooked
  <2>1. PICK l \in 0..MaxLoad : Heartbeat(m, l)
    BY <1>9 DEF NodeBeats, LateBeat
  <2>2. Holders(n)' = Holders(n) /\ nodes'[n] \in NodeInfo /\ n \in Registered
    BY <1>9, <1>t, <2>1
       DEF NodeBeats, LateBeat, Holders, TypeOK, RegistryTypeOK, Heartbeat, Registered
  <2>3. CASE n = m
    <3>1. nodes'[n].load = l
      BY <2>1, <2>2, <2>3 DEF Heartbeat, Beat, TypeOK, RegistryTypeOK
    <3>2. Ceiling(nodes'[n]) \in Int /\ l <= Ceiling(nodes'[n])
      BY <2>2, CeilingFacts, RegistryAssumption
    <3> QED
      BY <2>2, <3>1, <3>2, HoldersCount, ProcsFinite, RegistryAssumption DEF Booked
  <2>4. CASE n # m
    <3>1. nodes'[n] = nodes[n]
      BY <2>1, <2>2, <2>4 DEF Heartbeat, TypeOK, RegistryTypeOK
    <3> QED
      BY <2>2, <3>1, <1>t, StillBooked DEF AllBooked, NodeInfo
  <2> QED
    BY <2>3, <2>4
<1>10. CASE HealthTick
  <2>1. \A n \in Registered : /\ nodes'[n].capacity = nodes[n].capacity
                              /\ nodes'[n].load = nodes[n].load
    BY <1>10 DEF HealthTick, HealthCheck, TypeOK, RegistryTypeOK, NodeInfo
  <2> QED
    BY <1>10, <1>t, <2>1, HealthCheckType, AgeBooked DEF HealthTick, TypeOK
<1>11. CASE Time
  <2>1. \A n \in Registered : /\ nodes'[n].capacity = nodes[n].capacity
                              /\ nodes'[n].load = nodes[n].load
    BY <1>11 DEF Time, TimePasses, Older, TypeOK, RegistryTypeOK, NodeInfo
  <2> QED
    BY <1>11, <1>t, <2>1, TimePassesType, AgeBooked DEF Time, TypeOK
<1>12. CASE Expire
  BY <1>12, <1>t, ReleaseBooked DEF Expire
<1>13. CASE Restart
  BY <1>13 DEF Restart, AllBooked, Registered
<1>14. CASE UNCHANGED vars
  BY <1>14, <1>t, ReleaseBooked DEF vars
<1> QED
  BY <1>1, <1>2, <1>3, <1>4, <1>5, <1>6, <1>7, <1>8, <1>9, <1>10, <1>11, <1>12,
     <1>13, <1>14 DEF Next, NormalNext, FaultNext, RequestNext, DrainerNext, NodeNext

\* A node is overbooked by at most one player per concurrent request, and one
\* for the drainer, also with failures and restarts.
THEOREM Overcommit == Spec => []OvercommitBounded
<1>1. Init => AllBooked
  BY DEF Init, RegistryInit, AllBooked, Registered
<1>2. TypeOK /\ AllBooked => OvercommitBounded
  <2> SUFFICES ASSUME TypeOK, AllBooked, NEW n \in Registered
               PROVE  nodes[n].load <= Ceiling(nodes[n]) + Cardinality(Procs)
    BY DEF OvercommitBounded
  <2>1. nodes[n] \in NodeInfo
    BY DEF TypeOK, RegistryTypeOK
  <2>2. Ceiling(nodes[n]) \in Int
    BY <2>1, CeilingFacts
  <2> QED
    BY <2>1, <2>2, HoldersCount, ProcsFinite DEF AllBooked, Booked, NodeInfo
<1> QED
  BY <1>1, <1>2, BookedStep, Typing, PTL DEF Spec

-----------------------------------------------------------------------------
(* Keys and queue.  KeysBacked is inductive: SET puts its caller between   *)
(* its two commands, RPUSH turns that into an entry, LPOP an entry into the*)
(* drainer's, and the DEL that ends it takes the key away.                 *)

LEMMA ListedAfterPush ==
    ASSUME QueueTypeOK, NEW q, PushBack(q)
    PROVE  Listed' = Listed \cup {q}
<1>1. Listed \cup {q} \subseteq Listed'
  <2>1. \A i \in DOMAIN list : i \in DOMAIN list' /\ list'[i] = list[i]
    BY DEF QueueTypeOK, PushBack
  <2>2. Len(list') \in DOMAIN list' /\ list'[Len(list')] = q
    BY DEF QueueTypeOK, PushBack
  <2> QED
    BY <2>1, <2>2 DEF Listed
<1>2. Listed' \subseteq Listed \cup {q}
  <2>1. ASSUME NEW i \in DOMAIN list' PROVE list'[i] \in Listed \cup {q}
    BY DEF QueueTypeOK, PushBack, Listed
  <2> QED
    BY <2>1 DEF Listed
<1> QED
  BY <1>1, <1>2

LEMMA ListedAfterPop ==
    ASSUME QueueTypeOK, NEW q, PopFront(q)
    PROVE  Listed \subseteq Listed' \cup {q}
<1> SUFFICES ASSUME NEW i \in DOMAIN list PROVE list[i] \in Listed' \cup {q}
  BY DEF Listed
<1>1. CASE i = 1
  BY <1>1 DEF PopFront, QueueTypeOK
<1>2. CASE i # 1
  <2>1. i - 1 \in DOMAIN list' /\ list'[i - 1] = list[i]
    BY <1>2 DEF PopFront, QueueTypeOK
  <2> QED
    BY <2>1 DEF Listed
<1> QED
  BY <1>1, <1>2

LEMMA BackedStep ==
    ASSUME ~MayFail, MaxRestarts = 0
    PROVE  TypeOK /\ KeysBacked /\ [Next]_vars => KeysBacked'
<1> SUFFICES ASSUME TypeOK, KeysBacked, [Next]_vars, NEW p \in keys'
             PROVE  p \in Listed' \/ OnTheWayIn(p)' \/ OnTheWayOut(p)'
  BY DEF KeysBacked
<1> USE MatchmakerAssumption
<1>t. QueueTypeOK /\ Drainer \in Procs /\ Requests \subseteq Procs
  BY DEF TypeOK, Procs
\* A step that keeps Redis and moves no process out of the middle of its commands.
<1>a. ASSUME UNCHANGED redis, popped' = popped \/ pc[Drainer] # "del",
             \A q \in Procs : pc[q] \in {"push", "del"} => pc'[q] = pc[q]
      PROVE  p \in Listed' \/ OnTheWayIn(p)' \/ OnTheWayOut(p)'
  <2>1. p \in keys /\ Listed' = Listed
    BY <1>a DEF redis, Listed
  <2> QED
    BY <1>a, <1>t, <2>1 DEF KeysBacked, OnTheWayIn, OnTheWayOut
<1>1. ASSUME NEW r \in Requests, Receive(r) \/ CheckQueued(r) \/ PickNode(r) \/ Match(r)
      PROVE  p \in Listed' \/ OnTheWayIn(p)' \/ OnTheWayOut(p)'
  BY <1>1, <1>a, <1>t
     DEF TypeOK, Receive, CheckQueued, PickNode, Match, Goto, Answers
<1>2. ASSUME NEW r \in Requests, EnqueueSet(r)
      PROVE  p \in Listed' \/ OnTheWayIn(p)' \/ OnTheWayOut(p)'
  <2>1. pc'[r] = "push" /\ Listed' = Listed /\ (p = Asks[r] \/ p \in keys)
    BY <1>2, <1>t DEF EnqueueSet, Goto, SetKey, Listed, TypeOK
  <2>2. \A q \in Procs : pc[q] \in {"push", "del"} => pc'[q] = pc[q]
    BY <1>2, <1>t DEF EnqueueSet, Goto, TypeOK
  <2>3. popped' = popped
    BY <1>2 DEF EnqueueSet
  <2> QED
    BY <1>t, <2>1, <2>2, <2>3 DEF KeysBacked, OnTheWayIn, OnTheWayOut
<1>3. ASSUME NEW r \in Requests, EnqueuePush(r)
      PROVE  p \in Listed' \/ OnTheWayIn(p)' \/ OnTheWayOut(p)'
  <2>1. Listed' = Listed \cup {Asks[r]} /\ p \in keys
    BY <1>3, <1>t, ListedAfterPush DEF EnqueuePush, PushBack
  <2>2. \A q \in Procs \ {r} : pc'[q] = pc[q]
    BY <1>3, <1>t DEF EnqueuePush, Goto, TypeOK
  <2>3. popped' = popped
    BY <1>3 DEF EnqueuePush
  <2> QED
    BY <1>t, <2>1, <2>2, <2>3 DEF KeysBacked, OnTheWayIn, OnTheWayOut
<1>4. CASE DrainTick \/ DrainPick \/ DrainAssign
  BY <1>4, <1>a, <1>t DEF TypeOK, DrainTick, DrainPick, DrainAssign, Goto
<1>5. CASE DrainPop
  <2>1. CASE list = <<>>
    BY <1>5, <1>a, <1>t, <2>1 DEF TypeOK, DrainPop, Goto, PopFront
  <2>2. CASE list # <<>>
    <3>1. PICK q \in Players : PopFront(q) /\ popped' = q /\ pc'[Drainer] = "del"
      BY <1>5, <1>t, <2>2 DEF DrainPop, Goto, TypeOK
    <3>2. Listed \subseteq Listed' \cup {q} /\ p \in keys
      BY <1>t, <3>1, ListedAfterPop DEF PopFront
    <3>3. \A r \in Requests : pc'[r] = pc[r]
      BY <1>5, <1>t DEF DrainPop, Goto, TypeOK
    <3>4. pc[Drainer] # "del"
      BY <1>5 DEF DrainPop, Goto
    <3> QED
      BY <3>1, <3>2, <3>3, <3>4 DEF KeysBacked, OnTheWayIn, OnTheWayOut
  <2> QED
    BY <2>1, <2>2
<1>6. CASE DrainDelete
  <2>1. p \in keys /\ p # popped /\ Listed' = Listed
    BY <1>6 DEF DrainDelete, DeleteKey, Listed
  <2>2. \A r \in Requests : pc'[r] = pc[r]
    BY <1>6, <1>t DEF DrainDelete, Goto, TypeOK
  <2> QED
    BY <2>1, <2>2 DEF KeysBacked, OnTheWayIn, OnTheWayOut
<1>7. ASSUME NEW n \in Nodes, NodeNext(n)
      PROVE  p \in Listed' \/ OnTheWayIn(p)' \/ OnTheWayOut(p)'
  BY <1>7, <1>a DEF NodeNext, NodeUp, RegisterNode, NodeBeats, LateBeat, NodeDown, world
<1>8. CASE HealthTick \/ Time
  BY <1>8, <1>a DEF HealthTick, Time
<1>9. CASE Expire
  <2>1. p \in keys /\ Listed' = Listed /\ pc' = pc /\ popped' = popped
    BY <1>9 DEF Expire, KeyExpires, DeleteKey, Listed
  <2> QED
    BY <2>1 DEF KeysBacked, OnTheWayIn, OnTheWayOut
<1>10. CASE UNCHANGED vars
  BY <1>10, <1>a DEF vars, redis
<1>11. ~Restart
  BY DEF Restart, TypeOK
<1> QED
  BY <1>1, <1>2, <1>3, <1>4, <1>5, <1>6, <1>7, <1>8, <1>9, <1>10, <1>11
     DEF Next, NormalNext, FaultNext, RequestNext, DrainerNext, RequestFails, DrainFails

\* While no command fails and the matchmaker does not crash, every metadata key
\* belongs to a player in the queue or on the way in or out: nobody is refused
\* as queued who is not.
THEOREM KeysAgree ==
    ASSUME ~MayFail, MaxRestarts = 0
    PROVE  Spec => []KeysBacked
<1>1. Init => KeysBacked
  BY DEF Init, QueueInit, KeysBacked
<1>2. TypeOK /\ KeysBacked /\ [Next]_vars => KeysBacked'
  BY BackedStep
<1> QED
  BY <1>1, <1>2, Typing, PTL DEF Spec

-----------------------------------------------------------------------------
(* Registration.  Only a restart takes a node out of the registry, and a   *)
(* node's loop begins with a registration.                                 *)

LEMMA RegisteredStep == TypeOK /\ BeatingIsRegistered /\ [Next]_vars => BeatingIsRegistered'
<1> SUFFICES ASSUME TypeOK, BeatingIsRegistered, [Next]_vars,
                    restarts' = 0, NEW n \in Nodes, client'[n] = "beating"
             PROVE  n \in Registered'
  BY DEF BeatingIsRegistered
<1>1. CASE Restart
  BY <1>1 DEF Restart, TypeOK
<1>2. ASSUME restarts' = restarts, client' = client, Registered' = Registered
      PROVE  n \in Registered'
  BY <1>2 DEF BeatingIsRegistered
<1>3. CASE restarts' = restarts /\ client' = client /\ UNCHANGED nodes
  BY <1>2, <1>3 DEF Registered
<1>4. ASSUME NEW m, IncrementLoad(m), UNCHANGED world PROVE n \in Registered'
  BY <1>2, <1>4, IncrementType DEF world, TypeOK
<1>5. ASSUME NEW r \in Requests, Receive(r) \/ RequestNext(r) \/ RequestFails(r)
      PROVE  n \in Registered'
  BY <1>3, <1>4, <1>5 DEF Receive, RequestNext, CheckQueued, PickNode, Match,
                          EnqueueSet, EnqueuePush, RequestFails, world
<1>6. CASE DrainerNext \/ DrainFails
  BY <1>3, <1>4, <1>6 DEF DrainerNext, DrainTick, DrainPick, DrainPop, DrainDelete,
                          DrainAssign, DrainFails, world
<1>7. ASSUME NEW m \in Nodes, NodeUp(m) \/ NodeDown(m) PROVE n \in Registered'
  BY <1>7 DEF NodeUp, NodeDown, BeatingIsRegistered, TypeOK, Registered
<1>8. ASSUME NEW m \in Nodes, RegisterNode(m) PROVE n \in Registered'
  <2>1. Registered' = Registered \cup {m}
    BY <1>8, RegisterType DEF RegisterNode, TypeOK
  <2>2. n # m => client[n] = "beating" /\ restarts = 0
    BY <1>8 DEF RegisterNode, TypeOK
  <2> QED
    BY <2>1, <2>2 DEF BeatingIsRegistered
<1>9. ASSUME NEW m \in Nodes, NodeBeats(m) \/ LateBeat(m) PROVE n \in Registered'
  <2>1. PICK l \in 0..MaxLoad : Heartbeat(m, l)
    BY <1>9 DEF NodeBeats, LateBeat
  <2>2. Registered' = Registered
    BY <2>1, HeartbeatType, RegistryAssumption DEF TypeOK
  <2> QED
    BY <1>2, <1>9, <2>2 DEF NodeBeats, LateBeat, world
<1>10. CASE HealthTick \/ Time
  <2>1. Registered' = Registered
    BY <1>10, HealthCheckType, TimePassesType DEF HealthTick, Time, TypeOK
  <2> QED
    BY <1>2, <1>10, <2>1 DEF HealthTick, Time, world
<1>11. CASE Expire \/ UNCHANGED vars
  BY <1>3, <1>11 DEF Expire, vars, world
<1> QED
  BY <1>1, <1>5, <1>6, <1>7, <1>8, <1>9, <1>10, <1>11 DEF Next, NormalNext, FaultNext, NodeNext

\* A node that sends heartbeats is in the registry, until the matchmaker restarts:
\* with lost replies, repeated registrations and heartbeats that arrive late.
THEOREM Beating == Spec => []BeatingIsRegistered
<1>1. Init => BeatingIsRegistered
  BY DEF Init, BeatingIsRegistered
<1> QED
  BY <1>1, RegisteredStep, Typing, PTL DEF Spec

-----------------------------------------------------------------------------
(* Nobody is dropped.  The drainer takes an entry only with empty hands, so*)
(* none is written over.                                                   *)

HandsFull == popped # NoPlayer => pc[Drainer] \in {"del", "inc"}

LEMMA HandsStep == TypeOK /\ HandsFull /\ [Next]_vars => HandsFull'
<1> SUFFICES ASSUME TypeOK, HandsFull, [Next]_vars PROVE HandsFull'
  OBVIOUS
<1>d. Drainer \in Procs /\ Drainer \notin Requests /\ Requests \subseteq Procs
  BY MatchmakerAssumption DEF Procs
<1>a. ASSUME popped' = popped, pc'[Drainer] = pc[Drainer] PROVE HandsFull'
  BY <1>a DEF HandsFull
<1>1. ASSUME NEW r \in Requests, Receive(r) \/ RequestNext(r) \/ RequestFails(r)
      PROVE  HandsFull'
  BY <1>1, <1>a, <1>d DEF Receive, RequestNext, CheckQueued, PickNode, Match,
                          EnqueueSet, EnqueuePush, RequestFails, Goto, TypeOK
<1>2. CASE DrainTick \/ DrainPick \/ DrainFails
  BY <1>2, <1>d DEF DrainTick, DrainPick, DrainFails, Goto, HandsFull
<1>3. CASE DrainPop
  <2>1. pc[Drainer] = "pop" /\ popped = NoPlayer
    BY <1>3 DEF DrainPop, Goto, HandsFull
  <2> QED
    BY <1>3, <1>d, <2>1 DEF DrainPop, Goto, HandsFull, TypeOK
<1>4. CASE DrainDelete \/ DrainAssign
  BY <1>4, <1>d DEF DrainDelete, DrainAssign, Goto, HandsFull, TypeOK
<1>5. ASSUME NEW n \in Nodes, NodeNext(n) PROVE HandsFull'
  BY <1>5, <1>a DEF NodeNext, NodeUp, RegisterNode, NodeBeats, LateBeat, NodeDown
<1>6. CASE HealthTick \/ Time \/ Expire \/ UNCHANGED vars
  BY <1>6, <1>a DEF HealthTick, Time, Expire, vars
<1>7. CASE Restart
  BY <1>7 DEF Restart, HandsFull
<1> QED
  BY <1>1, <1>2, <1>3, <1>4, <1>5, <1>6, <1>7 DEF Next, NormalNext, FaultNext, DrainerNext

LEMMA SurvivesStep ==
    ASSUME ~MayFail, MaxRestarts = 0, TypeOK, HandsFull, Next,
           NEW p \in Players, Pending(p), ~Pending(p)'
    PROVE  DrainAssign
<1>q. QueueTypeOK
  BY DEF TypeOK
<1>a. ~(list' = list /\ popped' = popped)
  BY DEF Pending, Listed
<1>1. ASSUME NEW r \in Requests, EnqueuePush(r) PROVE FALSE
  <2>1. Listed' = Listed \cup {Asks[r]} /\ popped' = popped
    BY <1>1, <1>q, ListedAfterPush DEF EnqueuePush
  <2> QED
    BY <2>1 DEF Pending
<1>2. ASSUME NEW r \in Requests, Receive(r) \/ CheckQueued(r) \/ PickNode(r)
                                   \/ Match(r) \/ EnqueueSet(r)
      PROVE  FALSE
  BY <1>2, <1>a DEF Receive, CheckQueued, PickNode, Match, EnqueueSet, SetKey, redis
<1>3. ~DrainPop
  <2> SUFFICES ASSUME DrainPop PROVE FALSE
    OBVIOUS
  <2>1. popped = NoPlayer /\ p # NoPlayer
    BY MatchmakerAssumption DEF DrainPop, Goto, HandsFull
  <2>2. PICK q \in Players : PopFront(q) /\ popped' = q
    BY <1>a DEF DrainPop, redis
  <2>3. Listed \subseteq Listed' \cup {q}
    BY <1>q, <2>2, ListedAfterPop
  <2> QED
    BY <2>1, <2>2, <2>3 DEF Pending
<1>4. ~(DrainTick \/ DrainPick \/ DrainDelete)
  BY <1>a DEF DrainTick, DrainPick, DrainDelete, DeleteKey, redis
<1>5. ASSUME NEW n \in Nodes, NodeNext(n) PROVE FALSE
  BY <1>5, <1>a DEF NodeNext, NodeUp, RegisterNode, NodeBeats, LateBeat, NodeDown, redis
<1>6. ~(HealthTick \/ Time \/ Expire)
  BY <1>a DEF HealthTick, Time, Expire, KeyExpires, DeleteKey, redis
<1>7. ~Restart
  BY DEF Restart, TypeOK
<1> QED
  BY <1>1, <1>2, <1>3, <1>4, <1>5, <1>6, <1>7
     DEF Next, NormalNext, FaultNext, RequestNext, DrainerNext, RequestFails, DrainFails

\* Without failures and crashes a queued player leaves the queue only by being
\* counted as assigned, for any number of requests, players and nodes.
THEOREM Survival ==
    ASSUME ~MayFail, MaxRestarts = 0
    PROVE  Spec => QueuedSurvives
<1>1. Init => HandsFull
  BY DEF Init, HandsFull
<1>2. TypeOK /\ HandsFull /\ [Next]_vars
        => [\A p \in Players : Pending(p) /\ ~Pending(p)' => DrainAssign]_vars
  BY SurvivesStep
<1> QED
  BY <1>1, <1>2, HandsStep, Typing, PTL DEF Spec, QueuedSurvives

-----------------------------------------------------------------------------
(* The registry inside the matchmaker: handlers, the drainer, the health   *)
(* checker and nodes only call its methods, until a restart empties it.    *)

LEMMA CallsRegistry == TypeOK /\ [Next]_vars => [RegistryCall]_nodes \/ Restart
<1> SUFFICES ASSUME TypeOK, [Next]_vars PROVE [RegistryCall]_nodes \/ Restart
  OBVIOUS
<1>1. ASSUME NEW p \in Procs, IncrementLoad(pick[p]) PROVE [RegistryCall]_nodes
  <2>1. pick[p] \in Nodes \cup {NoNode} /\ NoNode \notin Registered
    BY RegistryAssumption DEF TypeOK, RegistryTypeOK
  <2> QED
    BY <1>1, <2>1 DEF RegistryCall, IncrementLoad
<1>2. ASSUME NEW r \in Requests, Receive(r) \/ RequestNext(r) \/ RequestFails(r)
      PROVE  [RegistryCall]_nodes
  BY <1>1, <1>2 DEF RequestNext, Receive, CheckQueued, PickNode, Match, EnqueueSet,
                    EnqueuePush, RequestFails, Procs
<1>3. CASE DrainerNext \/ DrainFails
  BY <1>1, <1>3 DEF DrainerNext, DrainTick, DrainPick, DrainPop, DrainDelete, DrainAssign,
                    DrainFails, Procs
<1>4. ASSUME NEW n \in Nodes, NodeUp(n) \/ RegisterNode(n) \/ NodeDown(n)
      PROVE  [RegistryCall]_nodes
  BY <1>4 DEF NodeUp, RegisterNode, NodeDown, RegistryCall
<1>5. ASSUME NEW n \in Nodes, NodeBeats(n) \/ LateBeat(n) PROVE [RegistryCall]_nodes
  <2>1. PICK l \in 0..MaxLoad : Heartbeat(n, l)
    BY <1>5 DEF NodeBeats, LateBeat
  <2>2. l \in Nat
    BY RegistryAssumption
  <2> QED
    BY <2>1, <2>2 DEF RegistryCall
<1>6. CASE HealthTick \/ Time \/ Expire \/ UNCHANGED vars
  BY <1>6 DEF HealthTick, Time, Expire, vars, RegistryCall
<1> QED
  BY <1>2, <1>3, <1>4, <1>5, <1>6 DEF Next, NormalNext, FaultNext, NodeNext

\* Whatever goes on in the matchmaker, restarts included, a node that spoke within the
\* timeout is not out of rotation (registry.go, HealthCheck; cmd/main.go).
THEOREM Silence == Spec => []UnhealthyMeansSilent
<1>1. Init => UnhealthyMeansSilent
  BY DEF Init, RegistryInit, UnhealthyMeansSilent, Registered
<1>2. TypeOK /\ UnhealthyMeansSilent /\ [Next]_vars => UnhealthyMeansSilent'
  <2>1. Restart => UnhealthyMeansSilent'
    BY DEF Restart, UnhealthyMeansSilent, Registered
  <2>2. TypeOK => RegistryTypeOK
    BY DEF TypeOK
  <2> QED
    BY <2>1, <2>2, CallsRegistry, CallSilent
<1> QED
  BY <1>1, <1>2, Typing, PTL DEF Spec

-----------------------------------------------------------------------------
(* Every step of the system is a step of the matchmaker or leaves it alone.*)

\* A node never reports more players than there are.
BeatsOK == beat \in [Nodes -> 0..MaxLoad \cup {NoBeat}] /\ hub \in [Nodes -> SUBSET Players]

LEMMA CountBound ==
    ASSUME BeatsOK, NEW n \in Nodes
    PROVE  Cardinality(hub[n]) \in 0..MaxLoad
<1>1. hub[n] \in SUBSET Players
  BY DEF BeatsOK
<1>2. /\ IsFiniteSet(hub[n])
      /\ Cardinality(hub[n]) <= Cardinality(Players)
  BY <1>1, SystemAssumption, FS_Subset
<1>3. Cardinality(hub[n]) \in Nat /\ Cardinality(Players) \in Nat
  BY <1>2, SystemAssumption, FS_CardinalityType
<1> QED
  BY <1>2, <1>3, SystemAssumption, RegistryAssumption

LEMMA HolderType == ASSUME NEW t \in Tokens PROVE Holder(t) \in Players
BY SystemAssumption, MatchmakerAssumption DEF Tokens, Holder

LEMMA BeatsStep == BeatsOK /\ [SystemNext]_systemVars => BeatsOK'
<1> SUFFICES ASSUME BeatsOK, [SystemNext]_systemVars PROVE BeatsOK'
  OBVIOUS
<1> USE DEF edge, game, others
<1>a. UNCHANGED <<hub, beat>> => BeatsOK'
  BY DEF BeatsOK
<1>b. ASSUME UNCHANGED others PROVE BeatsOK'
  BY <1>a, <1>b
<1>1. ASSUME NEW r \in Requests,
             HandleMatch(r) \/ Respond(r) \/ GiveUp(r) \/ HandlerNext(r)
      PROVE  BeatsOK'
  BY <1>1, <1>a, <1>b DEF HandleMatch, Respond, GiveUp, HandlerNext, AnswerMatch
<1>2. CASE (DrainerNext \/ Expire) /\ UNCHANGED others
  BY <1>2, <1>b
<1>3. CASE MatchmakerAlone \/ MatchmakerRestarts
  BY <1>3, <1>b DEF MatchmakerAlone, MatchmakerRestarts, BeatsOK
<1>4. ASSUME NEW n \in Nodes, Start(n) \/ Announce(n) \/ Stop(n) \/ DrainNode(n)
      PROVE  BeatsOK'
  BY <1>4, <1>a, <1>b DEF Start, Announce, Stop, DrainNode
<1>5. ASSUME NEW n \in Nodes, CountLoad(n) PROVE BeatsOK'
  BY <1>5, CountBound DEF CountLoad, BeatsOK
<1>6. ASSUME NEW n \in Nodes, DeliverBeat(n) \/ LoseBeat(n) PROVE BeatsOK'
  BY <1>6 DEF DeliverBeat, LoseBeat, BeatsOK
<1>7. ASSUME NEW n \in Nodes, Exit(n) PROVE BeatsOK'
  BY <1>7 DEF Exit, BeatsOK
<1>8. ASSUME NEW n \in Nodes, NEW t \in Invited, AssignPlayer(n, t) PROVE BeatsOK'
  BY <1>8, <1>a DEF AssignPlayer
<1>9. ASSUME NEW n \in Nodes, NEW t \in Invited, Connect(n, t) PROVE BeatsOK'
  <2>1. Holder(t) \in Players
    BY SystemAssumption, HolderType
  <2> QED
    BY <1>9, <2>1 DEF Connect, BeatsOK
<1>10. ASSUME NEW n \in Nodes, NEW p \in Players, Disconnect(n, p) PROVE BeatsOK'
  BY <1>10 DEF Disconnect, BeatsOK
<1>11. CASE UNCHANGED systemVars
  BY <1>11, <1>b DEF systemVars
<1> QED
  BY <1>1, <1>2, <1>3, <1>4, <1>5, <1>6, <1>7, <1>8, <1>9, <1>10, <1>11
     DEF SystemNext, GameNodeNext, PlayerNext

LEMMA MatchmakerStep == BeatsOK /\ [SystemNext]_systemVars => [Next]_vars
<1> SUFFICES ASSUME BeatsOK, [SystemNext]_systemVars PROVE [Next]_vars
  OBVIOUS
<1>1. ASSUME NEW r \in Requests, HandleMatch(r) \/ HandlerNext(r) PROVE Next
  BY <1>1 DEF HandleMatch, HandlerNext, AnswerMatch, Next, NormalNext, FaultNext, RequestNext
<1>2. ASSUME NEW r \in Requests, Respond(r) \/ GiveUp(r) PROVE UNCHANGED vars
  BY <1>2 DEF Respond, GiveUp
<1>3. CASE DrainerNext \/ Expire \/ MatchmakerAlone \/ MatchmakerRestarts
  BY <1>3 DEF MatchmakerAlone, MatchmakerRestarts, Next, NormalNext, FaultNext
<1>4. ASSUME NEW n \in Nodes, Start(n) \/ Announce(n) \/ Stop(n) PROVE Next
  BY <1>4 DEF Start, Announce, Stop, Next, NormalNext, FaultNext, NodeNext
\* The load in the heartbeat is one that the matchmaker's specification allows,
\* whether the node still runs or not.
<1>5. ASSUME NEW n \in Nodes, DeliverBeat(n) PROVE Next
  <2>1. beat[n] \in 0..MaxLoad /\ Heartbeat(n, beat[n])
    BY <1>5 DEF DeliverBeat, BeatsOK
  <2>2. UNCHANGED <<redis, pc, pick, popped, world>>
    BY <1>5 DEF DeliverBeat
  <2>3. NodeBeats(n) \/ LateBeat(n)
    BY <2>1, <2>2 DEF NodeBeats, LateBeat
  <2> QED
    BY <2>3 DEF Next, NormalNext, FaultNext, NodeNext
<1>6. ASSUME NEW n \in Nodes, CountLoad(n) \/ LoseBeat(n) \/ PlayerNext(n)
      PROVE  UNCHANGED vars
  BY <1>6 DEF CountLoad, LoseBeat, PlayerNext, AssignPlayer, Connect, Disconnect, DrainNode
<1>7. ASSUME NEW n \in Nodes, Exit(n) PROVE [Next]_vars
  BY <1>7 DEF Exit, Next, NormalNext, FaultNext, NodeNext
<1>8. CASE UNCHANGED systemVars
  BY <1>8 DEF systemVars
<1> QED
  BY <1>1, <1>2, <1>3, <1>4, <1>5, <1>6, <1>7, <1>8 DEF SystemNext, GameNodeNext

LEMMA BeatsInit == SystemInit => BeatsOK
BY DEF SystemInit, BeatsOK

\* The gateway, the matchmaker and the nodes that count their players implement
\* the matchmaker of the module Matchmaker.
THEOREM Implementation == SystemSpec => ImplementsMatchmaker
<1>1. SystemInit => Init
  BY DEF SystemInit
<1> QED
  BY <1>1, BeatsInit, BeatsStep, MatchmakerStep, PTL
     DEF SystemSpec, ImplementsMatchmaker, Spec

\* What is proved of the matchmaker holds of the system: the registry's count of a
\* node is above its capacity by one player for each concurrent process at most.
THEOREM SystemOvercommit == SystemSpec => []OvercommitBounded
BY Implementation, Overcommit, PTL DEF ImplementsMatchmaker

\* No node of the system that spoke within the timeout is out of rotation.
THEOREM SystemSilence == SystemSpec => []UnhealthyMeansSilent
BY Implementation, Silence, PTL DEF ImplementsMatchmaker

\* And a node that sends heartbeats is registered, until the matchmaker restarts.
THEOREM SystemBeating == SystemSpec => []BeatingIsRegistered
BY Implementation, Beating, PTL DEF ImplementsMatchmaker

-----------------------------------------------------------------------------
(* Typing of the system.                                                   *)

LEMMA PlayersCount == Cardinality(Players) \in Nat
BY SystemAssumption, FS_CardinalityType

LEMMA SystemTypeStep == SystemTypeOK /\ [SystemNext]_systemVars => SystemTypeOK'
<1> SUFFICES ASSUME SystemTypeOK, [SystemNext]_systemVars PROVE SystemTypeOK'
  OBVIOUS
<1>m. BeatsOK /\ TypeOK
  BY SystemAssumption, PlayersCount, RegistryAssumption DEF SystemTypeOK, BeatsOK
<1>t. TypeOK'
  BY <1>m, MatchmakerStep, TypeStep
<1> USE DEF edge, game, others
<1>a. UNCHANGED others => SystemTypeOK'
  BY <1>t DEF SystemTypeOK
<1>1. ASSUME NEW r \in Requests, HandleMatch(r) \/ Respond(r) \/ GiveUp(r)
      PROVE  SystemTypeOK'
  BY <1>1, <1>t DEF SystemTypeOK, HandleMatch, Respond, GiveUp, GateTo
<1>2. ASSUME NEW r \in Requests, HandlerNext(r) PROVE SystemTypeOK'
  <2>1. CASE AnswerMatch(r)
    <3>1. pick[r] \in Nodes \cup {NoNode}
      BY <1>m DEF TypeOK, Procs
    <3> QED
      BY <2>1, <3>1, <1>t DEF SystemTypeOK, AnswerMatch
  <2> QED
    BY <1>2, <2>1, <1>a DEF HandlerNext
<1>3. CASE (DrainerNext \/ Expire) /\ UNCHANGED others
  BY <1>3, <1>a
<1>4. CASE MatchmakerAlone \/ MatchmakerRestarts
  BY <1>4, <1>a, <1>t DEF MatchmakerAlone, MatchmakerRestarts, SystemTypeOK
<1>5. ASSUME NEW n \in Nodes, Start(n) \/ Announce(n) \/ Stop(n) \/ DrainNode(n)
      PROVE  SystemTypeOK'
  BY <1>5, <1>a, <1>t DEF SystemTypeOK, Start, Announce, Stop, DrainNode
<1>6. ASSUME NEW n \in Nodes, CountLoad(n) PROVE SystemTypeOK'
  <2>1. hub[n] \in SUBSET Players
    BY DEF SystemTypeOK
  <2>2. Cardinality(hub[n]) \in 0..Cardinality(Players)
    BY <2>1, PlayersCount, SystemAssumption, FS_Subset, FS_CardinalityType
  <2> QED
    BY <1>6, <1>t, <2>2 DEF SystemTypeOK, CountLoad
<1>7. ASSUME NEW n \in Nodes, DeliverBeat(n) \/ LoseBeat(n) PROVE SystemTypeOK'
  BY <1>7, <1>t DEF SystemTypeOK, DeliverBeat, LoseBeat
<1>8. ASSUME NEW n \in Nodes, Exit(n) PROVE SystemTypeOK'
  BY <1>8, <1>t DEF SystemTypeOK, Exit
<1>9. ASSUME NEW n \in Nodes, NEW t \in Invited, AssignPlayer(n, t) \/ Connect(n, t)
      PROVE  SystemTypeOK'
  <2>1. t \in Tokens /\ Holder(t) \in Players
    BY SystemAssumption, HolderType
  <2> QED
    BY <1>9, <1>t, <2>1 DEF SystemTypeOK, AssignPlayer, Connect
<1>10. ASSUME NEW n \in Nodes, NEW p \in Players, Disconnect(n, p) PROVE SystemTypeOK'
  BY <1>10, <1>t DEF SystemTypeOK, Disconnect
<1>11. CASE UNCHANGED systemVars
  BY <1>11, <1>a DEF systemVars
<1> QED
  BY <1>1, <1>2, <1>3, <1>4, <1>5, <1>6, <1>7, <1>8, <1>9, <1>10, <1>11
     DEF SystemNext, GameNodeNext, PlayerNext

\* The type invariant of the composed system holds in every behaviour: among other
\* things no heartbeat reports more players than there are.
THEOREM SystemTyping == SystemSpec => []SystemTypeOK
<1>1. SystemInit => SystemTypeOK
  BY TypeInit DEF SystemInit, SystemTypeOK
<1> QED
  BY <1>1, SystemTypeStep, PTL DEF SystemSpec
=============================================================================
