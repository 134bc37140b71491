------------------------- MODULE NodeSessionProofs -------------------------
(***************************************************************************)
(* The sessions of a game node, for any number of players, tokens and      *)
(* connections and any buffer size: no panic, no ghosts, and the abstract  *)
(* admission control is implemented, so that a token admits one connection.*)
(***************************************************************************)
EXTENDS NodeSession, TLAPS

-----------------------------------------------------------------------------
(* Typing.                                                                 *)

LEMMA TypeInit == Init => TypeOK
<1>1. DOMAIN Empty = {} /\ Empty \in [DOMAIN Empty -> Conns]
  BY DEF Empty
<1> SUFFICES ASSUME Init PROVE TypeOK
  OBVIOUS
<1>2. /\ DOMAIN clients \subseteq Players /\ clients \in [DOMAIN clients -> Conns]
      /\ DOMAIN snakes \subseteq Players /\ snakes \in [DOMAIN snakes -> Conns]
  BY <1>1 DEF Init
<1>3. /\ draining \in BOOLEAN /\ panicked \in BOOLEAN /\ tokens \subseteq Tokens
      /\ closed \in [Conns -> BOOLEAN]
      /\ assign \in [Tokens -> {"none", "checked", "accepted", "refused"}]
  BY DEF Init
<1>4. /\ token \in [Conns -> Tokens \cup {NoToken}]
      /\ buffer \in [Conns -> 0..BufferSize]
  BY SessionAssumption DEF Init
<1>5. /\ handler \in [Conns -> Outside \cup Joined]
      /\ reader \in [Conns -> {"off", "reading", "rmClient", "rmPlayer", "close", "done"}]
      /\ writer \in [Conns -> {"off", "running", "done"}]
      /\ socket \in [Conns -> {"none", "open", "closed"}]
  BY DEF Init, Outside, Joined
<1> QED
  BY <1>2, <1>3, <1>4, <1>5 DEF TypeOK

\* What the stages of a connection say of its token, its reader and its channel.
Stages ==
    \A c \in Conns :
        /\ handler[c] \in {"valid", "upgraded"} \cup Joined => token[c] \in Tokens
        /\ handler[c] \in {"new", "refused"} => token[c] = NoToken
        /\ reader[c] # "off" => handler[c] \in {"returned", "cancelled"}
        /\ closed[c] => handler[c] \in Joined

LEMMA PlayerType ==
    ASSUME TypeOK, Stages, NEW c \in Conns, handler[c] \in {"upgraded"} \cup Joined
    PROVE  Player(c) \in Players
BY SessionAssumption DEF Stages, Player

LEMMA TypeStep == TypeOK /\ Stages /\ [Next]_vars => TypeOK'
<1> SUFFICES ASSUME TypeOK, Stages, [Next]_vars PROVE TypeOK'
  OBVIOUS
<1> USE SessionAssumption DEF rpcs, hub, conns, Outside, Joined
<1>1. ASSUME NEW t \in Tokens, AssignPlayer(t) PROVE TypeOK'
  BY <1>1 DEF TypeOK, AssignPlayer
<1>2. ASSUME NEW t \in Tokens, RegisterToken(t) PROVE TypeOK'
  BY <1>2 DEF TypeOK, RegisterToken
<1>3. CASE DrainNode
  BY <1>3 DEF TypeOK, DrainNode
<1>4. ASSUME NEW c \in Conns, NEW t \in Tokens, ValidateToken(c, t) PROVE TypeOK'
  BY <1>4 DEF TypeOK, ValidateToken
<1>5. ASSUME NEW c \in Conns, Upgrade(c) PROVE TypeOK'
  BY <1>5 DEF TypeOK, Upgrade
<1>6. ASSUME NEW c \in Conns, AddClient(c) PROVE TypeOK'
  <2>1. Player(c) \in Players
    BY <1>6, PlayerType DEF AddClient
  <2>a. DOMAIN clients \subseteq Players /\ clients \in [DOMAIN clients -> Conns]
    BY DEF TypeOK
  <2>b. clients' = Put(clients, Player(c), c)
    BY <1>6 DEF AddClient
  <2>2. DOMAIN clients' \subseteq Players /\ clients' \in [DOMAIN clients' -> Conns]
    BY <2>1, <2>a, <2>b DEF Put
  <2> QED
    BY <1>6, <2>2 DEF TypeOK, AddClient
<1>7. ASSUME NEW c \in Conns, AddPlayer(c) PROVE TypeOK'
  <2>1. Player(c) \in Players
    BY <1>7, PlayerType DEF AddPlayer
  <2>a. DOMAIN snakes \subseteq Players /\ snakes \in [DOMAIN snakes -> Conns]
    BY DEF TypeOK
  <2>b. snakes' = Put(snakes, Player(c), c)
    BY <1>7 DEF AddPlayer
  <2>2. DOMAIN snakes' \subseteq Players /\ snakes' \in [DOMAIN snakes' -> Conns]
    BY <2>1, <2>a, <2>b DEF Put
  <2> QED
    BY <1>7, <2>2 DEF TypeOK, AddPlayer
<1>8. ASSUME NEW c \in Conns, StartLoops(c) \/ CancelContext(c) PROVE TypeOK'
  BY <1>8 DEF TypeOK, StartLoops, CancelContext
<1>9. ASSUME NEW c \in Conns, ReadFails(c) \/ ReadTimesOut(c) PROVE TypeOK'
  BY <1>9 DEF TypeOK, ReadFails, ReadTimesOut, ReaderAt
<1>10. ASSUME NEW c \in Conns, RemoveClient(c) PROVE TypeOK'
  <2>1. DOMAIN clients' \subseteq Players /\ clients' \in [DOMAIN clients' -> Conns]
    <3>1. DOMAIN clients \subseteq Players /\ clients \in [DOMAIN clients -> Conns]
      BY DEF TypeOK
    <3>2. clients' = clients \/ clients' = Delete(clients, Player(c))
      BY <1>10 DEF RemoveClient
    <3> QED
      BY <3>1, <3>2 DEF Delete
  <2>2. closed' \in [Conns -> BOOLEAN] /\ panicked' \in BOOLEAN
    BY <1>10 DEF TypeOK, RemoveClient
  <2> QED
    BY <1>10, <2>1, <2>2 DEF TypeOK, RemoveClient, ReaderAt
<1>11. ASSUME NEW c \in Conns, RemovePlayer(c) PROVE TypeOK'
  <2>1. DOMAIN snakes' \subseteq Players /\ snakes' \in [DOMAIN snakes' -> Conns]
    <3>1. DOMAIN snakes \subseteq Players /\ snakes \in [DOMAIN snakes -> Conns]
      BY DEF TypeOK
    <3>2. snakes' = Delete(snakes, Player(c))
      BY <1>11 DEF RemovePlayer
    <3> QED
      BY <3>1, <3>2 DEF Delete
  <2> QED
    BY <1>11, <2>1 DEF TypeOK, RemovePlayer, ReaderAt
<1>12. ASSUME NEW c \in Conns, CloseConn(c) PROVE TypeOK'
  BY <1>12 DEF TypeOK, CloseConn, ReaderAt
<1>13. ASSUME NEW c \in Conns, WriterExits(c) PROVE TypeOK'
  BY <1>13 DEF TypeOK, WriterExits
<1>14. ASSUME NEW c \in Conns, WriterSends(c) PROVE TypeOK'
  BY <1>14 DEF TypeOK, WriterSends
<1>15. ASSUME NEW c \in Conns, PeerCloses(c) PROVE TypeOK'
  BY <1>15 DEF TypeOK, PeerCloses
<1>16. CASE Broadcast
  BY <1>16 DEF TypeOK, Broadcast
<1>17. CASE UNCHANGED vars
  BY <1>17 DEF TypeOK, vars
<1> QED
  BY <1>1, <1>2, <1>3, <1>4, <1>5, <1>6, <1>7, <1>8, <1>9, <1>10, <1>11, <1>12,
     <1>13, <1>14, <1>15, <1>16, <1>17
     DEF Next, HandlerNext, ReaderNext, WriterNext, WriterCancelled,
         WriterSeesClose, WriterFails

-----------------------------------------------------------------------------
(* No panic, no ghosts.  A channel is closed by whoever takes its client   *)
(* out of the hub, and a client gets into the hub once, with a new channel:*)
(* so the clients in the hub have open channels.  That needs to know that  *)
(* a client is in the hub under its own player's name only.                *)

HubOpen == \A p \in DOMAIN clients : ~closed[clients[p]]

Inv == TypeOK /\ Stages /\ NoGhosts /\ HubOpen /\ NoPanic

LEMMA InvInit == Init => Inv
<1> SUFFICES ASSUME Init PROVE Inv
  OBVIOUS
<1>1. Stages /\ NoPanic
  BY DEF Init, Stages, NoPanic, Joined
<1>2. NoGhosts /\ HubOpen
  BY DEF Init, Empty, NoGhosts, HubOpen
<1> QED
  BY <1>1, <1>2, TypeInit DEF Inv

LEMMA StagesStep == Inv /\ [Next]_vars => Stages'
<1> SUFFICES ASSUME Inv, [Next]_vars, NEW d \in Conns
             PROVE  /\ handler'[d] \in {"valid", "upgraded"} \cup Joined
                         => token'[d] \in Tokens
                    /\ handler'[d] \in {"new", "refused"} => token'[d] = NoToken
                    /\ reader'[d] # "off" => handler'[d] \in {"returned", "cancelled"}
                    /\ closed'[d] => handler'[d] \in Joined
  BY DEF Stages
<1> DEFINE Goal == /\ handler'[d] \in {"valid", "upgraded"} \cup Joined
                         => token'[d] \in Tokens
                   /\ handler'[d] \in {"new", "refused"} => token'[d] = NoToken
                   /\ reader'[d] # "off" => handler'[d] \in {"returned", "cancelled"}
                   /\ closed'[d] => handler'[d] \in Joined
<1> USE DEF Inv, TypeOK, Stages, Joined, rpcs, hub, conns
<1>1. ASSUME UNCHANGED <<handler, token, reader, closed>> PROVE Goal
  BY <1>1
<1>2. ASSUME NEW t \in Tokens, AssignPlayer(t) \/ RegisterToken(t) PROVE Goal
  BY <1>2, <1>1 DEF AssignPlayer, RegisterToken
<1>3. CASE DrainNode \/ Broadcast \/ UNCHANGED vars
  BY <1>3, <1>1 DEF DrainNode, Broadcast, vars
<1>4. ASSUME NEW c \in Conns, NEW t \in Tokens, ValidateToken(c, t) PROVE Goal
  BY <1>4 DEF ValidateToken
<1>5. ASSUME NEW c \in Conns, HandlerNext(c) PROVE Goal
  BY <1>5 DEF HandlerNext, Upgrade, AddClient, AddPlayer, StartLoops, CancelContext
<1>6. ASSUME NEW c \in Conns,
             ReadFails(c) \/ ReadTimesOut(c) \/ RemovePlayer(c) \/ CloseConn(c)
      PROVE  Goal
  BY <1>6 DEF ReadFails, ReadTimesOut, RemovePlayer, CloseConn, ReaderAt
<1>7. ASSUME NEW c \in Conns, RemoveClient(c) PROVE Goal
  <2>1. closed' = closed \/ \E p \in DOMAIN clients :
                               closed' = [closed EXCEPT ![clients[p]] = TRUE]
    BY <1>7 DEF RemoveClient
  <2>2. \A p \in DOMAIN clients : handler[clients[p]] \in Joined
    BY DEF NoGhosts, ClientOwned
  <2>3. closed'[d] => handler[d] \in Joined
    BY <2>1, <2>2
  <2> QED
    BY <1>7, <2>3 DEF RemoveClient, ReaderAt
<1>8. ASSUME NEW c \in Conns, WriterNext(c) \/ PeerCloses(c) PROVE Goal
  BY <1>8, <1>1 DEF WriterNext, WriterCancelled, WriterSeesClose, WriterFails,
                    WriterExits, WriterSends, PeerCloses
<1> QED
  BY <1>2, <1>3, <1>4, <1>5, <1>6, <1>7, <1>8 DEF Next, ReaderNext

\* A client or a snake stays owned while its map, its connection's token and
\* its stage stand still, or the stages go on and the entry goes in time.
LEMMA GhostsStep == Inv /\ [Next]_vars => NoGhosts'
<1> SUFFICES ASSUME Inv, [Next]_vars PROVE NoGhosts'
  OBVIOUS
<1>t. TypeOK /\ Stages /\ NoGhosts
  BY DEF Inv
<1>m. /\ \A p \in DOMAIN clients : p \in Players /\ clients[p] \in Conns
      /\ \A p \in DOMAIN snakes : p \in Players /\ snakes[p] \in Conns
  BY <1>t DEF TypeOK
<1> USE DEF rpcs, hub, conns
<1>1. ASSUME UNCHANGED <<clients, snakes, handler, token, reader>> PROVE NoGhosts'
  BY <1>1, <1>t DEF NoGhosts, ClientOwned, SnakeOwned, Player
<1>2. ASSUME NEW t \in Tokens, AssignPlayer(t) \/ RegisterToken(t) PROVE NoGhosts'
  BY <1>2, <1>1 DEF AssignPlayer, RegisterToken
<1>3. CASE DrainNode \/ Broadcast \/ UNCHANGED vars
  BY <1>3, <1>1 DEF DrainNode, Broadcast, vars
<1>4. ASSUME NEW c \in Conns, NEW t \in Tokens, ValidateToken(c, t) PROVE NoGhosts'
  <2>1. \A d \in Conns : d # c => token'[d] = token[d] /\ handler'[d] = handler[d]
    BY <1>4, <1>t DEF ValidateToken, TypeOK
  <2>2. /\ \A p \in DOMAIN clients : clients[p] # c
        /\ \A p \in DOMAIN snakes : snakes[p] # c
    BY <1>4, <1>t DEF ValidateToken, NoGhosts, ClientOwned, SnakeOwned, Joined
  <2>3. UNCHANGED <<clients, snakes, reader>>
    BY <1>4 DEF ValidateToken
  <2> QED
    BY <1>t, <1>m, <2>1, <2>2, <2>3 DEF NoGhosts, ClientOwned, SnakeOwned, Player
<1>5. ASSUME NEW c \in Conns, Upgrade(c) \/ StartLoops(c) \/ CancelContext(c)
      PROVE  NoGhosts'
  <2>1. UNCHANGED <<clients, snakes, token>>
    BY <1>5 DEF Upgrade, StartLoops, CancelContext
  <2>2. \A d \in Conns : /\ handler[d] \in Joined => handler'[d] \in Joined
                         /\ handler[d] \in Joined \ {"added"}
                              => handler'[d] \in Joined \ {"added"}
                         /\ reader[d] \in {"off", "reading", "rmClient", "rmPlayer"}
                              => reader'[d] = reader[d] \/ reader'[d] = "reading"
    BY <1>5, <1>t DEF Upgrade, StartLoops, CancelContext, TypeOK, Joined
  <2> QED
    BY <1>t, <1>m, <2>1, <2>2 DEF NoGhosts, ClientOwned, SnakeOwned, Player
<1>6. ASSUME NEW c \in Conns, AddClient(c) PROVE NoGhosts'
  <2>1. reader[c] = "off" /\ handler'[c] = "added"
    BY <1>6, <1>t DEF AddClient, Stages, TypeOK
  <2>2. \A d \in Conns : d # c => handler'[d] = handler[d]
    BY <1>6, <1>t DEF AddClient, TypeOK
  <2>3. \A p \in DOMAIN snakes : snakes[p] # c
    BY <1>6, <1>t DEF AddClient, NoGhosts, SnakeOwned, Joined
  <2>4. \A p \in DOMAIN clients' : \/ p = Player(c) /\ clients'[p] = c
                                   \/ /\ p \in DOMAIN clients
                                      /\ clients'[p] = clients[p] /\ clients[p] # c
    BY <1>6, <1>t DEF AddClient, Put, NoGhosts, ClientOwned, Joined
  <2>5. UNCHANGED <<snakes, token, reader>>
    BY <1>6 DEF AddClient
  <2>6. \A p \in DOMAIN clients' : ClientOwned(p)'
    BY <1>t, <1>m, <2>1, <2>2, <2>4, <2>5 DEF NoGhosts, ClientOwned, Player, Joined
  <2>7. \A p \in DOMAIN snakes' : SnakeOwned(p)'
    BY <1>t, <1>m, <2>2, <2>3, <2>5 DEF NoGhosts, SnakeOwned, Player
  <2> QED
    BY <2>6, <2>7 DEF NoGhosts
<1>7. ASSUME NEW c \in Conns, AddPlayer(c) PROVE NoGhosts'
  <2>1. reader[c] = "off" /\ handler'[c] = "joined"
    BY <1>7, <1>t DEF AddPlayer, Stages, TypeOK
  <2>2. \A d \in Conns : handler'[d] = handler[d] \/ d = c
    BY <1>7, <1>t DEF AddPlayer, TypeOK
  <2>3. \A p \in DOMAIN snakes' : \/ p = Player(c) /\ snakes'[p] = c
                                  \/ /\ p \in DOMAIN snakes
                                     /\ snakes'[p] = snakes[p] /\ snakes[p] # c
    BY <1>7, <1>t DEF AddPlayer, Put, NoGhosts, SnakeOwned, Joined
  <2>4. UNCHANGED <<clients, token, reader>>
    BY <1>7 DEF AddPlayer
  <2>5. \A p \in DOMAIN clients' : ClientOwned(p)'
    BY <1>t, <1>m, <2>1, <2>2, <2>4 DEF NoGhosts, ClientOwned, Player, Joined
  <2>6. \A p \in DOMAIN snakes' : SnakeOwned(p)'
    BY <1>t, <1>m, <2>1, <2>2, <2>3, <2>4 DEF NoGhosts, SnakeOwned, Player, Joined
  <2> QED
    BY <2>5, <2>6 DEF NoGhosts
<1>8. ASSUME NEW c \in Conns, ReadFails(c) \/ ReadTimesOut(c) PROVE NoGhosts'
  <2>1. UNCHANGED <<clients, snakes, handler, token>>
    BY <1>8 DEF ReadFails, ReadTimesOut
  <2>2. \A d \in Conns : reader'[d] = reader[d] \/ reader'[d] = "rmClient"
    BY <1>8, <1>t DEF ReadFails, ReadTimesOut, ReaderAt, TypeOK
  <2> QED
    BY <1>t, <1>m, <2>1, <2>2 DEF NoGhosts, ClientOwned, SnakeOwned, Player
<1>9. ASSUME NEW c \in Conns, RemoveClient(c) PROVE NoGhosts'
  <2>1. UNCHANGED <<snakes, handler, token>>
    BY <1>9 DEF RemoveClient
  <2>2. \A d \in Conns : reader'[d] = IF d = c THEN "rmPlayer" ELSE reader[d]
    BY <1>9, <1>t DEF RemoveClient, ReaderAt, TypeOK
  <2>3. \A p \in DOMAIN clients' : /\ p \in DOMAIN clients /\ p # Player(c)
                                   /\ clients'[p] = clients[p]
    BY <1>9 DEF RemoveClient, Delete
  <2>4. \A p \in DOMAIN clients' : clients[p] # c
    BY <1>t, <2>3 DEF NoGhosts, ClientOwned
  <2>5. \A p \in DOMAIN clients' : ClientOwned(p)'
    BY <1>t, <1>m, <2>1, <2>2, <2>3, <2>4 DEF NoGhosts, ClientOwned, Player
  <2>6. \A p \in DOMAIN snakes' : SnakeOwned(p)'
    BY <1>t, <1>m, <2>1, <2>2 DEF NoGhosts, SnakeOwned, Player
  <2> QED
    BY <2>5, <2>6 DEF NoGhosts
<1>10. ASSUME NEW c \in Conns, RemovePlayer(c) PROVE NoGhosts'
  <2>1. UNCHANGED <<clients, handler, token>>
    BY <1>10 DEF RemovePlayer
  <2>2. \A d \in Conns : reader'[d] = IF d = c THEN "close" ELSE reader[d]
    BY <1>10, <1>t DEF RemovePlayer, ReaderAt, TypeOK
  <2>3. \A p \in DOMAIN snakes' : /\ p \in DOMAIN snakes /\ p # Player(c)
                                  /\ snakes'[p] = snakes[p]
    BY <1>10 DEF RemovePlayer, Delete
  <2>4. /\ \A p \in DOMAIN snakes' : snakes[p] # c
        /\ \A p \in DOMAIN clients : clients[p] # c
    BY <1>10, <1>t, <2>3
       DEF NoGhosts, SnakeOwned, ClientOwned, RemovePlayer, ReaderAt
  <2>5. \A p \in DOMAIN clients' : ClientOwned(p)'
    BY <1>t, <1>m, <2>1, <2>2, <2>4 DEF NoGhosts, ClientOwned, Player
  <2>6. \A p \in DOMAIN snakes' : SnakeOwned(p)'
    BY <1>t, <1>m, <2>1, <2>2, <2>3, <2>4 DEF NoGhosts, SnakeOwned, Player
  <2> QED
    BY <2>5, <2>6 DEF NoGhosts
<1>11. ASSUME NEW c \in Conns, CloseConn(c) PROVE NoGhosts'
  <2>1. UNCHANGED <<clients, snakes, handler, token>>
    BY <1>11 DEF CloseConn
  <2>2. \A d \in Conns : reader'[d] = reader[d] \/ reader[d] = "close"
    BY <1>11, <1>t DEF CloseConn, ReaderAt, TypeOK
  <2> QED
    BY <1>t, <1>m, <2>1, <2>2 DEF NoGhosts, ClientOwned, SnakeOwned, Player
<1>12. ASSUME NEW c \in Conns, WriterNext(c) \/ PeerCloses(c) PROVE NoGhosts'
  BY <1>12, <1>1 DEF WriterNext, WriterCancelled, WriterSeesClose, WriterFails,
                     WriterExits, WriterSends, PeerCloses
<1> QED
  BY <1>2, <1>3, <1>4, <1>5, <1>6, <1>7, <1>8, <1>9, <1>10, <1>11, <1>12
     DEF Next, HandlerNext, ReaderNext

LEMMA HubStep == Inv /\ [Next]_vars => HubOpen' /\ NoPanic'
<1> SUFFICES ASSUME Inv, [Next]_vars PROVE HubOpen' /\ NoPanic'
  OBVIOUS
<1>t. TypeOK /\ Stages /\ NoGhosts /\ HubOpen /\ NoPanic
  BY DEF Inv
<1>m. \A p \in DOMAIN clients : p \in Players /\ clients[p] \in Conns
  BY <1>t DEF TypeOK
<1> USE DEF rpcs, hub, conns
<1>1. ASSUME UNCHANGED <<clients, closed, panicked>> PROVE HubOpen' /\ NoPanic'
  BY <1>1, <1>t DEF HubOpen, NoPanic
<1>2. ASSUME NEW c \in Conns, AddClient(c) PROVE HubOpen' /\ NoPanic'
  <2>1. ~closed[c]
    BY <1>2, <1>t DEF AddClient, Stages, Joined
  <2>2. \A p \in DOMAIN clients' : \/ clients'[p] = c
                                   \/ p \in DOMAIN clients /\ clients'[p] = clients[p]
    BY <1>2 DEF AddClient, Put
  <2> QED
    BY <1>2, <1>t, <2>1, <2>2 DEF AddClient, HubOpen, NoPanic
<1>3. ASSUME NEW c \in Conns, RemoveClient(c) PROVE HubOpen' /\ NoPanic'
  <2>1. CASE Player(c) \notin DOMAIN clients
    BY <1>3, <2>1, <1>t DEF RemoveClient, HubOpen, NoPanic
  <2>2. CASE Player(c) \in DOMAIN clients
    <3>1. \A p \in DOMAIN clients' : /\ p \in DOMAIN clients /\ p # Player(c)
                                     /\ clients'[p] = clients[p]
      BY <1>3, <2>2 DEF RemoveClient, Delete
    <3>2. \A p \in DOMAIN clients' : clients[p] # clients[Player(c)]
      BY <1>t, <2>2, <3>1 DEF NoGhosts, ClientOwned
    <3>3. closed' = [closed EXCEPT ![clients[Player(c)]] = TRUE]
      BY <1>3, <2>2 DEF RemoveClient
    <3>4. HubOpen'
      BY <1>t, <1>m, <3>1, <3>2, <3>3 DEF HubOpen, TypeOK
    <3>5. ~closed[clients[Player(c)]]
      BY <1>t, <2>2 DEF HubOpen
    <3>6. panicked' = (panicked \/ closed[clients[Player(c)]])
      BY <1>3, <2>2 DEF RemoveClient
    <3> QED
      BY <1>t, <3>4, <3>5, <3>6 DEF NoPanic
  <2> QED
    BY <2>1, <2>2
<1>4. CASE Broadcast
  <2>1. \A c \in {clients[p] : p \in DOMAIN clients} : ~closed[c]
    BY <1>t DEF HubOpen
  <2>2. panicked' = (panicked \/ \E c \in {clients[p] : p \in DOMAIN clients} : closed[c])
    BY <1>4 DEF Broadcast
  <2>3. UNCHANGED <<clients, closed>>
    BY <1>4 DEF Broadcast
  <2> QED
    BY <1>t, <2>1, <2>2, <2>3 DEF NoPanic, HubOpen
<1>5. ASSUME NEW t \in Tokens, AssignPlayer(t) \/ RegisterToken(t)
      PROVE  HubOpen' /\ NoPanic'
  BY <1>5, <1>1 DEF AssignPlayer, RegisterToken
<1>6. CASE DrainNode \/ UNCHANGED vars
  BY <1>6, <1>1 DEF DrainNode, vars
<1>7. ASSUME NEW c \in Conns, NEW t \in Tokens, ValidateToken(c, t)
      PROVE  HubOpen' /\ NoPanic'
  BY <1>7, <1>1 DEF ValidateToken
<1>8. ASSUME NEW c \in Conns, Upgrade(c) \/ AddPlayer(c) \/ StartLoops(c) \/ CancelContext(c)
      PROVE  HubOpen' /\ NoPanic'
  BY <1>8, <1>1 DEF Upgrade, AddPlayer, StartLoops, CancelContext
<1>9. ASSUME NEW c \in Conns, ReadFails(c) \/ ReadTimesOut(c) \/ RemovePlayer(c) \/ CloseConn(c)
      PROVE  HubOpen' /\ NoPanic'
  BY <1>9, <1>1 DEF ReadFails, ReadTimesOut, RemovePlayer, CloseConn
<1>10. ASSUME NEW c \in Conns, WriterNext(c) \/ PeerCloses(c) PROVE HubOpen' /\ NoPanic'
  BY <1>10, <1>1 DEF WriterNext, WriterCancelled, WriterSeesClose, WriterFails,
                     WriterExits, WriterSends, PeerCloses
<1> QED
  BY <1>2, <1>3, <1>4, <1>5, <1>6, <1>7, <1>8, <1>9, <1>10
     DEF Next, HandlerNext, ReaderNext

LEMMA Invariance == Spec => []Inv
<1>1. Inv /\ [Next]_vars => Inv'
  <2>1. Inv => TypeOK /\ Stages
    BY DEF Inv
  <2> QED
    BY <2>1, TypeStep, StagesStep, GhostsStep, HubStep DEF Inv
<1> QED
  BY <1>1, InvInit, PTL DEF Spec

\* The type invariant holds in every behaviour.
THEOREM Typing == Spec => []TypeOK
BY Invariance, PTL DEF Inv

\* No goroutine ever sends on a closed channel or closes one twice.
THEOREM PanicFree == Spec => []NoPanic
BY Invariance, PTL DEF Inv

\* Every client in the hub and every snake in the game belongs to a connection
\* whose teardown is still to come.
THEOREM GhostFree == Spec => []NoGhosts
BY Invariance, PTL DEF Inv

-----------------------------------------------------------------------------
(* Admission.  A token is registered by the one call it was made for, and  *)
(* leaves the map when a connection takes it, so it is never both pending  *)
(* and used.                                                               *)

TokensFresh ==
    \A t \in Tokens :
        /\ assign[t] # "accepted" => t \notin tokens
        /\ assign[t] # "accepted" \/ t \in tokens => \A c \in Conns : token[c] # t

LEMMA FreshStep == Inv /\ TokensFresh /\ [Next]_vars => TokensFresh'
<1> SUFFICES ASSUME Inv, TokensFresh, [Next]_vars PROVE TokensFresh'
  OBVIOUS
<1>t. TypeOK /\ Stages
  BY DEF Inv
<1> USE DEF rpcs, hub, conns
<1>1. ASSUME UNCHANGED <<assign, tokens, token>> PROVE TokensFresh'
  BY <1>1 DEF TokensFresh
<1>2. ASSUME NEW t \in Tokens, AssignPlayer(t) \/ RegisterToken(t) PROVE TokensFresh'
  BY <1>2, <1>t DEF AssignPlayer, RegisterToken, TokensFresh, TypeOK
<1>3. ASSUME NEW c \in Conns, NEW t \in Tokens, ValidateToken(c, t) PROVE TokensFresh'
  <2>1. CASE t \notin tokens
    BY <1>3, <1>1, <2>1 DEF ValidateToken
  <2>2. CASE t \in tokens
    <3>1. /\ assign' = assign /\ assign[t] = "accepted"
          /\ tokens' = tokens \ {t} /\ token' = [token EXCEPT ![c] = t]
      BY <1>3, <2>2 DEF ValidateToken, TokensFresh
    <3> QED
      BY <3>1, <1>t DEF TokensFresh, TypeOK
  <2> QED
    BY <2>1, <2>2
<1>4. ASSUME NEW c \in Conns, HandlerNext(c) \/ ReaderNext(c) \/ WriterNext(c)
                                \/ ReadTimesOut(c) \/ PeerCloses(c)
      PROVE  TokensFresh'
  BY <1>4, <1>1 DEF HandlerNext, Upgrade, AddClient, AddPlayer, StartLoops, CancelContext,
       ReaderNext, ReadFails, RemoveClient, RemovePlayer, CloseConn, ReadTimesOut,
       WriterNext, WriterCancelled, WriterSeesClose, WriterSends, WriterFails,
       WriterExits, PeerCloses
<1>5. CASE DrainNode \/ Broadcast \/ UNCHANGED vars
  BY <1>5, <1>1 DEF DrainNode, Broadcast, vars
<1> QED
  BY <1>2, <1>3, <1>4, <1>5 DEF Next

LEMMA AdmissionStep == Inv /\ TokensFresh /\ [Next]_vars => [Admit!Next]_(Admit!vars)
<1> SUFFICES ASSUME Inv, TokensFresh, [Next]_vars PROVE Admit!Next \/ UNCHANGED Admit!vars
  OBVIOUS
<1>t. TypeOK /\ Stages
  BY DEF Inv
<1> USE DEF rpcs, hub, conns, Joined
\* Steps that keep tokens, and each connection on its side of the door.
<1>1. ASSUME UNCHANGED <<tokens, token>>,
             \A d \in Conns : /\ handler'[d] \in {"refused", "failed"}
                                   <=> handler[d] \in {"refused", "failed"}
                              /\ reader'[d] \in {"close", "done"}
                                   <=> reader[d] \in {"close", "done"}
      PROVE  UNCHANGED Admit!vars
  BY <1>1 DEF Admit!vars, Inside
\* A connection goes: its upgrade fails, or its reader takes its snake out.
<1>2. ASSUME NEW c \in Conns, UNCHANGED <<tokens, token>>, c \in Inside, c \notin Inside',
             \A d \in Conns \ {c} : handler'[d] = handler[d] /\ reader'[d] = reader[d]
      PROVE  Admit!Next
  <2>1. Inside' = Inside \ {c}
    BY <1>2 DEF Inside
  <2> QED
    BY <1>2, <2>1 DEF Admit!Next, Admit!Leave
<1>3. ASSUME NEW t \in Tokens, AssignPlayer(t) PROVE UNCHANGED Admit!vars
  BY <1>3, <1>1 DEF AssignPlayer
<1>4. ASSUME NEW t \in Tokens, RegisterToken(t) PROVE Admit!Next
  <2>1. t \notin tokens /\ \A c \in Conns : token[c] # t
    BY <1>4 DEF RegisterToken, TokensFresh
  <2>2. Inside' = Inside /\ tokens' = tokens \cup {t} /\ token' = token
    BY <1>4 DEF RegisterToken, Inside
  <2> QED
    BY <2>1, <2>2 DEF Admit!Next, Admit!Issue, Admit!Used
<1>5. ASSUME NEW c \in Conns, NEW t \in Tokens, ValidateToken(c, t)
      PROVE  Admit!Next \/ UNCHANGED Admit!vars
  <2>1. token[c] = NoToken /\ reader[c] = "off"
    BY <1>5, <1>t DEF ValidateToken, Stages
  <2>2. CASE t \in tokens
    <3>1. /\ tokens' = tokens \ {t} /\ token' = [token EXCEPT ![c] = t]
          /\ handler' = [handler EXCEPT ![c] = "valid"] /\ reader' = reader
      BY <1>5, <2>2 DEF ValidateToken
    <3>2. t # NoToken
      BY SessionAssumption
    <3>3. Inside' = Inside \cup {c}
      BY <1>t, <2>1, <3>1, <3>2 DEF Inside, TypeOK
    <3> QED
      BY <2>1, <2>2, <3>1, <3>3 DEF Admit!Next, Admit!Admit
  <2>3. CASE t \notin tokens
    <3>1. /\ UNCHANGED <<tokens, token, reader>>
          /\ handler' = [handler EXCEPT ![c] = "refused"]
      BY <1>5, <2>3 DEF ValidateToken
    <3>2. Inside' = Inside
      BY <1>t, <2>1, <3>1 DEF Inside, TypeOK
    <3> QED
      BY <3>1, <3>2 DEF Admit!vars
  <2> QED
    BY <2>2, <2>3
<1>6. ASSUME NEW c \in Conns, Upgrade(c) PROVE Admit!Next \/ UNCHANGED Admit!vars
  <2>1. UNCHANGED <<tokens, token, reader>> /\ handler[c] = "valid" /\ reader[c] = "off"
    BY <1>6, <1>t DEF Upgrade, Stages
  <2>2. CASE handler' = [handler EXCEPT ![c] = "upgraded"]
    BY <1>1, <1>t, <2>1, <2>2 DEF TypeOK
  <2>3. CASE handler' = [handler EXCEPT ![c] = "failed"]
    <3>1. token[c] \in Tokens
      BY <1>t, <2>1 DEF Stages
    <3>2. c \in Inside /\ c \notin Inside'
      BY <1>t, <2>1, <2>3, <3>1, SessionAssumption DEF Inside, TypeOK
    <3> QED
      BY <1>2, <1>t, <2>1, <2>3, <3>2 DEF TypeOK
  <2> QED
    BY <1>6, <2>2, <2>3 DEF Upgrade
<1>7. ASSUME NEW c \in Conns,
             AddClient(c) \/ AddPlayer(c) \/ StartLoops(c) \/ CancelContext(c)
      PROVE  UNCHANGED Admit!vars
  <2>1. reader[c] = "off" \/ CancelContext(c)
    BY <1>7, <1>t DEF AddClient, AddPlayer, StartLoops, Stages
  <2> QED
    BY <1>7, <1>1, <1>t, <2>1
       DEF AddClient, AddPlayer, StartLoops, CancelContext, TypeOK
<1>8. ASSUME NEW c \in Conns, ReadFails(c) \/ ReadTimesOut(c) \/ RemoveClient(c) \/ CloseConn(c)
      PROVE  UNCHANGED Admit!vars
  BY <1>8, <1>1, <1>t
     DEF ReadFails, ReadTimesOut, RemoveClient, CloseConn, ReaderAt, TypeOK
<1>9. ASSUME NEW c \in Conns, RemovePlayer(c) PROVE Admit!Next
  <2>1. /\ UNCHANGED <<tokens, token, handler>> /\ reader[c] = "rmPlayer"
        /\ reader' = [reader EXCEPT ![c] = "close"]
    BY <1>9 DEF RemovePlayer, ReaderAt
  <2>2. handler[c] \in {"returned", "cancelled"} /\ token[c] \in Tokens
    BY <1>t, <2>1 DEF Stages
  <2>3. c \in Inside /\ c \notin Inside'
    BY <1>t, <2>1, <2>2, SessionAssumption DEF Inside, TypeOK
  <2> QED
    BY <1>2, <1>t, <2>1, <2>3 DEF TypeOK
<1>10. ASSUME NEW c \in Conns, WriterNext(c) \/ PeerCloses(c) PROVE UNCHANGED Admit!vars
  BY <1>10, <1>1 DEF WriterNext, WriterCancelled, WriterSeesClose, WriterFails,
                     WriterExits, WriterSends, PeerCloses
<1>11. CASE DrainNode \/ Broadcast \/ UNCHANGED vars
  BY <1>11, <1>1 DEF DrainNode, Broadcast, vars
<1> QED
  BY <1>3, <1>4, <1>5, <1>6, <1>7, <1>8, <1>9, <1>10, <1>11
     DEF Next, HandlerNext, ReaderNext

\* The node implements the abstract admission control, with all its goroutines: a
\* token is issued once, admits one connection, and the connection leaves once.
THEOREM Admitting == Spec => Admits
<1>1. Init => TokensFresh
  BY SessionAssumption DEF Init, TokensFresh
<1>2. Init => Admit!Init
  BY DEF Init, Admit!Init, Inside
<1> QED
  BY <1>1, <1>2, Invariance, FreshStep, AdmissionStep, PTL DEF Spec, Admits, Admit!Spec

\* A token that is pending has not been used.
Unspent == tokens \cap Admit!Used = {}

LEMMA OnceStep ==
    ASSUME TypeOK
    PROVE  Unspent /\ Admit!OneTime /\ [Admit!Next]_(Admit!vars) => Unspent' /\ Admit!OneTime'
<1> SUFFICES ASSUME Unspent, Admit!OneTime, [Admit!Next]_(Admit!vars)
             PROVE  Unspent' /\ Admit!OneTime'
  OBVIOUS
<1>1. ASSUME NEW t \in Tokens, Admit!Issue(t) PROVE Unspent' /\ Admit!OneTime'
  BY <1>1 DEF Admit!Issue, Unspent, Admit!OneTime, Admit!Used
<1>2. ASSUME NEW c \in Conns, NEW t \in Tokens, Admit!Admit(c, t)
      PROVE  Unspent' /\ Admit!OneTime'
  <2>1. \A d \in Conns : token'[d] = IF d = c THEN t ELSE token[d]
    BY <1>2 DEF Admit!Admit, TypeOK
  <2>2. t \notin Admit!Used /\ t \notin tokens' /\ tokens' \subseteq tokens
    BY <1>2 DEF Admit!Admit, Unspent
  <2>3. (Admit!Used)' \subseteq Admit!Used \cup {t}
    BY <2>1 DEF Admit!Used
  <2>4. \A d \in Conns : token[d] # t
    BY <2>2, SessionAssumption DEF Admit!Used
  <2> QED
    BY <2>1, <2>2, <2>3, <2>4 DEF Unspent, Admit!OneTime
<1>3. ASSUME NEW c \in Conns, Admit!Leave(c) PROVE Unspent' /\ Admit!OneTime'
  BY <1>3 DEF Admit!Leave, Unspent, Admit!OneTime, Admit!Used
<1>4. CASE UNCHANGED Admit!vars
  BY <1>4 DEF Admit!vars, Unspent, Admit!OneTime, Admit!Used
<1> QED
  BY <1>1, <1>2, <1>3, <1>4 DEF Admit!Next

\* A token admits one connection at most: whatever implements the abstract admission
\* control does that, and so does the node (hub.go, RegisterToken and ValidateToken).
THEOREM Once == Spec => []Admit!OneTime
<1>1. Init => Unspent /\ Admit!OneTime
  BY DEF Init, Unspent, Admit!OneTime
<1>2. TypeOK /\ Unspent /\ Admit!OneTime /\ [Admit!Next]_(Admit!vars)
        => Unspent' /\ Admit!OneTime'
  BY OnceStep
<1> QED
  BY <1>1, <1>2, Typing, Admitting, PTL DEF Spec, Admits, Admit!Spec

-----------------------------------------------------------------------------
(* Draining.                                                               *)

LEMMA VacantStep == TypeOK /\ Vacant /\ Next => Vacant'
<1> SUFFICES ASSUME TypeOK, Vacant, Next PROVE Vacant'
  OBVIOUS
<1> USE DEF TypeOK, Vacant, Settled, rpcs, hub, conns
<1>1. ASSUME NEW t \in Tokens, AssignPlayer(t) \/ RegisterToken(t) PROVE Vacant'
  BY <1>1 DEF AssignPlayer, RegisterToken
<1>2. CASE DrainNode \/ Broadcast
  BY <1>2 DEF DrainNode, Broadcast
<1>3. ASSUME NEW c \in Conns, NEW t \in Tokens, ValidateToken(c, t) PROVE Vacant'
  BY <1>3 DEF ValidateToken
<1>4. ASSUME NEW c \in Conns, HandlerNext(c) PROVE Vacant'
  BY <1>4 DEF HandlerNext, Upgrade, AddClient, AddPlayer, StartLoops, CancelContext
<1>5. ASSUME NEW c \in Conns, ReaderNext(c) \/ ReadTimesOut(c) PROVE Vacant'
  BY <1>5 DEF ReaderNext, ReadFails, RemoveClient, RemovePlayer, CloseConn,
              ReadTimesOut, ReaderAt, Delete
<1>6. ASSUME NEW c \in Conns, WriterNext(c) \/ PeerCloses(c) PROVE Vacant'
  BY <1>6 DEF WriterNext, WriterCancelled, WriterSeesClose, WriterFails,
              WriterExits, WriterSends, PeerCloses
<1> QED
  BY <1>1, <1>2, <1>3, <1>4, <1>5, <1>6 DEF Next

\* A drained node on which nothing is under way stays empty for good.
THEOREM Drained == Spec => DrainedStaysEmpty
<1>1. TypeOK /\ [Next]_vars => [Vacant => Vacant']_vars
  BY VacantStep
<1> QED
  BY <1>1, Typing, PTL DEF Spec, DrainedStaysEmpty
=============================================================================
