---------------------------- MODULE NodeSession ----------------------------
(***************************************************************************)
(* A player's session on a game node: the assignment RPCs                  *)
(* (services/gamenode/internal/registration/client.go), the WebSocket      *)
(* handler with its reader and writer goroutines                           *)
(* (services/gamenode/internal/network/handler.go), and the two maps they  *)
(* share, the clients of the hub (hub.go) and the snakes of the game       *)
(* (internal/engine/game.go), each behind a lock of its own.               *)
(*                                                                         *)
(* A connection goes through three sequential processes: its handler, and  *)
(* the reader and the writer the handler starts.  Each call to a locked    *)
(* map, each channel operation and each close of the socket is a step.     *)
(* A snake is represented by the connection it was added for.              *)
(***************************************************************************)
EXTENDS Naturals, FiniteSets

CONSTANTS
    Players,
    Tokens,      \* session tokens
    NoToken,     \* no token presented yet
    Owner,       \* Owner[t]: the player t is issued for
    Conns,       \* connection attempts
    BufferSize   \* sendBufferSize

ASSUME SessionAssumption ==
    /\ NoToken \notin Tokens
    /\ Owner \in [Tokens -> Players]
    /\ BufferSize \in Nat \ {0}

VARIABLES
    draining,  \* GameNodeServer.draining
    assign,    \* assign[t]: the AssignPlayer call for token t
    tokens,    \* Hub.tokens
    clients,   \* Hub.clients: from players to connections
    snakes,    \* Game.snakes: from players to connections
    handler,   \* handler[c]: the next step of c's HTTP handler
    token,     \* token[c]: the token that admitted c
    reader,    \* reader[c]: the next step of clientReader
    writer,    \* writer[c]: the state of clientWriter
    socket,    \* socket[c]: the WebSocket connection
    closed,    \* closed[c]: SendCh is closed
    buffer,    \* buffer[c]: frames in SendCh
    panicked   \* a goroutine sent on or closed a closed channel

rpcs == <<draining, assign>>
hub == <<tokens, clients, closed, buffer, panicked>>
conns == <<handler, token, reader, writer, socket>>
vars == <<draining, assign, tokens, clients, snakes, handler, token, reader,
          writer, socket, closed, buffer, panicked>>

\* Stages of a handler before it adds its client, and from then on.
Outside == {"new", "valid", "upgraded", "refused", "failed"}
Joined == {"added", "joined", "returned", "cancelled"}

TypeOK ==
    /\ draining \in BOOLEAN
    /\ assign \in [Tokens -> {"none", "checked", "accepted", "refused"}]
    /\ tokens \subseteq Tokens
    /\ DOMAIN clients \subseteq Players /\ clients \in [DOMAIN clients -> Conns]
    /\ DOMAIN snakes \subseteq Players /\ snakes \in [DOMAIN snakes -> Conns]
    /\ handler \in [Conns -> Outside \cup Joined]
    /\ token \in [Conns -> Tokens \cup {NoToken}]
    /\ reader \in [Conns -> {"off", "reading", "rmClient", "rmPlayer", "close", "done"}]
    /\ writer \in [Conns -> {"off", "running", "done"}]
    /\ socket \in [Conns -> {"none", "open", "closed"}]
    /\ closed \in [Conns -> BOOLEAN]
    /\ buffer \in [Conns -> 0..BufferSize]
    /\ panicked \in BOOLEAN

Empty == [p \in {} |-> 0]

Init ==
    /\ draining = FALSE
    /\ assign = [t \in Tokens |-> "none"]
    /\ tokens = {}
    /\ clients = Empty
    /\ snakes = Empty
    /\ handler = [c \in Conns |-> "new"]
    /\ token = [c \in Conns |-> NoToken]
    /\ reader = [c \in Conns |-> "off"]
    /\ writer = [c \in Conns |-> "off"]
    /\ socket = [c \in Conns |-> "none"]
    /\ closed = [c \in Conns |-> FALSE]
    /\ buffer = [c \in Conns |-> 0]
    /\ panicked = FALSE

Player(c) == Owner[token[c]]

Put(map, p, c) == [q \in DOMAIN map \cup {p} |-> IF q = p THEN c ELSE map[q]]
Delete(map, p) == [q \in DOMAIN map \ {p} |-> map[q]]

-----------------------------------------------------------------------------
(* The gRPC service.  Each token is made for one call.                     *)

\* Mutant of AssignPlayer: the flag is not looked at.
AssignAnyway(t) ==
    /\ assign[t] = "none"
    /\ assign' = [assign EXCEPT ![t] = "checked"]
    /\ UNCHANGED <<draining, hub, snakes, conns>>

\* AssignPlayer reads the draining flag ...
AssignPlayer(t) ==
    /\ assign[t] = "none"
    /\ assign' = [assign EXCEPT ![t] = IF draining THEN "refused" ELSE "checked"]
    /\ UNCHANGED <<draining, hub, snakes, conns>>

\* ... and registers the token afterwards.
RegisterToken(t) ==
    /\ assign[t] = "checked"
    /\ assign' = [assign EXCEPT ![t] = "accepted"]
    /\ tokens' = tokens \cup {t}
    /\ UNCHANGED <<draining, clients, closed, buffer, panicked, snakes, conns>>

DrainNode ==
    /\ draining' = TRUE
    /\ UNCHANGED <<assign, hub, snakes, conns>>

-----------------------------------------------------------------------------
(* The handler of connection c.                                            *)

\* Mutant of ValidateToken: the token is not deleted.
ValidateReusable(c, t) ==
    /\ handler[c] = "new"
    /\ IF t \in tokens
       THEN /\ token' = [token EXCEPT ![c] = t]
            /\ handler' = [handler EXCEPT ![c] = "valid"]
       ELSE /\ handler' = [handler EXCEPT ![c] = "refused"]
            /\ UNCHANGED token
    /\ UNCHANGED <<rpcs, hub, snakes, reader, writer, socket>>

\* ValidateToken looks the token up and deletes it in one critical section.
ValidateToken(c, t) ==
    /\ handler[c] = "new"
    /\ IF t \in tokens
       THEN /\ tokens' = tokens \ {t}
            /\ token' = [token EXCEPT ![c] = t]
            /\ handler' = [handler EXCEPT ![c] = "valid"]
       ELSE /\ handler' = [handler EXCEPT ![c] = "refused"]
            /\ UNCHANGED <<tokens, token>>
    /\ UNCHANGED <<rpcs, clients, closed, buffer, panicked, snakes,
                   reader, writer, socket>>

\* The upgrade succeeds; or it fails, or playerID[:8] panics on a short id and
\* net/http recovers: then the token is spent.
Upgrade(c) ==
    /\ handler[c] = "valid"
    /\ \/ /\ handler' = [handler EXCEPT ![c] = "upgraded"]
          /\ socket' = [socket EXCEPT ![c] = "open"]
       \/ /\ handler' = [handler EXCEPT ![c] = "failed"]
          /\ UNCHANGED socket
    /\ UNCHANGED <<rpcs, hub, snakes, token, reader, writer>>

\* AddClient replaces an earlier client of the player.
AddClient(c) ==
    /\ handler[c] = "upgraded"
    /\ clients' = Put(clients, Player(c), c)
    /\ handler' = [handler EXCEPT ![c] = "added"]
    /\ UNCHANGED <<rpcs, tokens, closed, buffer, panicked, snakes, token,
                   reader, writer, socket>>

\* AddPlayer replaces an earlier snake of the player.
AddPlayer(c) ==
    /\ handler[c] = "added"
    /\ snakes' = Put(snakes, Player(c), c)
    /\ handler' = [handler EXCEPT ![c] = "joined"]
    /\ UNCHANGED <<rpcs, hub, token, reader, writer, socket>>

\* The two goroutines are started and the handler returns.
StartLoops(c) ==
    /\ handler[c] = "joined"
    /\ handler' = [handler EXCEPT ![c] = "returned"]
    /\ reader' = [reader EXCEPT ![c] = "reading"]
    /\ writer' = [writer EXCEPT ![c] = "running"]
    /\ UNCHANGED <<rpcs, hub, snakes, token, socket>>

\* net/http cancels the request's context when ServeHTTP has returned.
CancelContext(c) ==
    /\ handler[c] = "returned"
    /\ handler' = [handler EXCEPT ![c] = "cancelled"]
    /\ UNCHANGED <<rpcs, hub, snakes, token, reader, writer, socket>>

-----------------------------------------------------------------------------
(* clientReader of connection c.                                           *)

ReaderAt(c, from, to) ==
    reader[c] = from /\ reader' = [reader EXCEPT ![c] = to]

\* ReadMessage fails: the socket is closed, by either side, ...
ReadFails(c) ==
    /\ socket[c] = "closed"
    /\ ReaderAt(c, "reading", "rmClient")
    /\ UNCHANGED <<rpcs, hub, snakes, handler, token, writer, socket>>

\* ... or no pong came in time, or a message was too large.
ReadTimesOut(c) ==
    /\ socket[c] = "open"
    /\ ReaderAt(c, "reading", "rmClient")
    /\ UNCHANGED <<rpcs, hub, snakes, handler, token, writer, socket>>

\* Mutant of RemoveClient: the client is closed and left in the map.
CloseClient(c) ==
    /\ ReaderAt(c, "rmClient", "rmPlayer")
    /\ IF Player(c) \in DOMAIN clients
       THEN LET d == clients[Player(c)] IN
            /\ panicked' = (panicked \/ closed[d])
            /\ closed' = [closed EXCEPT ![d] = TRUE]
       ELSE UNCHANGED <<panicked, closed>>
    /\ UNCHANGED <<rpcs, tokens, clients, buffer, snakes, handler, token, writer, socket>>

\* RemoveClient closes and deletes the client that is in the map, whosever it is.
RemoveClient(c) ==
    /\ ReaderAt(c, "rmClient", "rmPlayer")
    /\ IF Player(c) \in DOMAIN clients
       THEN LET d == clients[Player(c)] IN
            /\ panicked' = (panicked \/ closed[d])
            /\ closed' = [closed EXCEPT ![d] = TRUE]
            /\ clients' = Delete(clients, Player(c))
       ELSE UNCHANGED <<panicked, closed, clients>>
    /\ UNCHANGED <<rpcs, tokens, buffer, snakes, handler, token, writer, socket>>

\* Mutant of RemovePlayer: the player leaves the hub but not the game.
LeavePlayer(c) ==
    /\ ReaderAt(c, "rmPlayer", "close")
    /\ UNCHANGED <<rpcs, hub, snakes, handler, token, writer, socket>>

RemovePlayer(c) ==
    /\ ReaderAt(c, "rmPlayer", "close")
    /\ snakes' = Delete(snakes, Player(c))
    /\ UNCHANGED <<rpcs, hub, handler, token, writer, socket>>

CloseConn(c) ==
    /\ ReaderAt(c, "close", "done")
    /\ socket' = [socket EXCEPT ![c] = "closed"]
    /\ UNCHANGED <<rpcs, hub, snakes, handler, token, writer>>

-----------------------------------------------------------------------------
(* clientWriter of connection c; its select takes any case that is ready.  *)

WriterExits(c) ==
    /\ writer[c] = "running"
    /\ writer' = [writer EXCEPT ![c] = "done"]
    /\ socket' = [socket EXCEPT ![c] = "closed"]
    /\ UNCHANGED <<rpcs, hub, snakes, handler, token, reader>>

\* case <-ctx.Done()
WriterCancelled(c) == handler[c] = "cancelled" /\ WriterExits(c)

\* case msg, ok := <-client.SendCh, with ok false: closed and empty
WriterSeesClose(c) == closed[c] /\ buffer[c] = 0 /\ WriterExits(c)

\* case msg, ok := <-client.SendCh, with a frame to write
WriterSends(c) ==
    /\ writer[c] = "running" /\ buffer[c] > 0
    /\ socket[c] = "open"
    /\ buffer' = [buffer EXCEPT ![c] = @ - 1]
    /\ UNCHANGED <<rpcs, tokens, clients, closed, panicked, snakes, conns>>

\* Writing a frame or a ping fails on a closed socket.  (A write that misses its
\* deadline on an open one has the effect of WriterCancelled.)
WriterFails(c) ==
    /\ socket[c] = "closed"
    /\ WriterExits(c)

-----------------------------------------------------------------------------
(* The game loop and the peer.                                             *)

\* Broadcast to every client of the map; a full channel drops the frame.  The
\* select's default case makes no send wait, so the loop is one step.
Broadcast ==
    LET reached == {clients[p] : p \in DOMAIN clients} IN
    /\ reached # {}
    /\ panicked' = (panicked \/ \E c \in reached : closed[c])
    /\ buffer' = [c \in Conns |-> IF c \in reached /\ buffer[c] < BufferSize
                                  THEN buffer[c] + 1 ELSE buffer[c]]
    /\ UNCHANGED <<rpcs, tokens, clients, closed, snakes, conns>>

PeerCloses(c) ==
    /\ socket[c] = "open"
    /\ socket' = [socket EXCEPT ![c] = "closed"]
    /\ UNCHANGED <<rpcs, hub, snakes, handler, token, reader, writer>>

-----------------------------------------------------------------------------
HandlerNext(c) ==
    Upgrade(c) \/ AddClient(c) \/ AddPlayer(c) \/ StartLoops(c) \/ CancelContext(c)

ReaderNext(c) == ReadFails(c) \/ RemoveClient(c) \/ RemovePlayer(c) \/ CloseConn(c)

\* Mutant of WriterNext: write errors are ignored, and so is the context.
WriterUntilClosed(c) == WriterSeesClose(c) \/ WriterSends(c)

WriterNext(c) ==
    WriterCancelled(c) \/ WriterSeesClose(c) \/ WriterSends(c) \/ WriterFails(c)

Next ==
    \/ \E t \in Tokens : AssignPlayer(t) \/ RegisterToken(t)
    \/ DrainNode
    \/ \E c \in Conns :
         \/ \E t \in Tokens : ValidateToken(c, t)
         \/ HandlerNext(c) \/ ReaderNext(c) \/ WriterNext(c)
         \/ ReadTimesOut(c) \/ PeerCloses(c)
    \/ Broadcast

Spec == Init /\ [][Next]_vars

\* The goroutines of a connection go on.  Peers and callers need do nothing, and
\* reads need not time out.
Fairness ==
    \A c \in Conns :
        WF_vars(HandlerNext(c)) /\ WF_vars(ReaderNext(c)) /\ WF_vars(WriterNext(c))

FairSpec == Spec /\ Fairness

-----------------------------------------------------------------------------
(* Properties.                                                             *)

\* The game loop never sends on a closed channel and no channel is closed twice,
\* although connections of the same player replace and remove each other's
\* clients (hub.go, Broadcast and RemoveClient).
NoPanic == ~panicked

\* No ghosts: the client in the hub and the snake in the game were added for a
\* connection of that player whose own teardown is still to remove them, so
\* nothing stays behind when the last connection of a player has gone
\* (handler.go, Handler and the deferred cleanup of clientReader).
ClientOwned(p) ==
    LET c == clients[p] IN
    /\ handler[c] \in Joined /\ Player(c) = p
    /\ reader[c] \in {"off", "reading", "rmClient"}

SnakeOwned(p) ==
    LET c == snakes[p] IN
    /\ handler[c] \in Joined \ {"added"} /\ Player(c) = p
    /\ reader[c] \in {"off", "reading", "rmClient", "rmPlayer"}

NoGhosts ==
    /\ \A p \in DOMAIN clients : ClientOwned(p)
    /\ \A p \in DOMAIN snakes : SnakeOwned(p)

\* The session that is over for a connection: both its goroutines have ended.
Over(c) == reader[c] = "done" /\ writer[c] = "done"

\* A connection whose socket is closed, by either side, or whose client another
\* connection's cleanup removed is torn down completely in the end: reader and
\* writer end even when its client was replaced and its channel is never closed
\* (handler.go, clientReader and clientWriter; hub.go, RemoveClient).
TornDown == \A c \in Conns : (socket[c] = "closed" \/ closed[c]) ~> Over(c)

\* A node that is told to drain still admits the players whose assignment, token
\* or connection is under way, but once these have come and gone it is empty for
\* good: nobody gets onto it any more (client.go, AssignPlayer and DrainNode;
\* handler.go, Handler).
Settled(c) == handler[c] \notin {"valid", "upgraded", "added", "joined"}

Vacant ==
    /\ draining /\ tokens = {}
    /\ \A t \in Tokens : assign[t] # "checked"
    /\ \A c \in Conns : Settled(c)
    /\ DOMAIN clients = {} /\ DOMAIN snakes = {}

DrainedStaysEmpty == [][Vacant => Vacant']_vars

\* The node implements the abstract admission control: one connection for every
\* token, and only for a token that was issued (hub.go, ValidateToken).
Inside == {c \in Conns : /\ token[c] # NoToken
                         /\ handler[c] \notin {"refused", "failed"}
                         /\ reader[c] \notin {"close", "done"}}

Admit == INSTANCE Admission WITH
    pending <- tokens, admitted <- token, inside <- Inside

Admits == Admit!Spec

\* "sends a binary message to ALL connected clients" (hub.go:81): a player with a
\* connection that is open and being read is in the hub, and in the game.
ConnectedIsServed ==
    \A c \in Conns :
        reader[c] = "reading" /\ socket[c] = "open"
            => Player(c) \in DOMAIN clients /\ Player(c) \in DOMAIN snakes

\* "Runs until the send channel is closed" (handler.go:134): the writer of an
\* open connection ends for no other reason.
WriterRunsUntilClosed ==
    [][\A c \in Conns :
          writer[c] = "running" /\ writer'[c] = "done"
              => closed[c] \/ socket[c] = "closed"]_vars
=============================================================================
