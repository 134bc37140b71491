------------------------------ MODULE Shutdown ------------------------------
(***************************************************************************)
(* How the three services end on SIGINT or SIGTERM: the main functions of  *)
(* services/gateway/cmd/main.go, services/matchmaker/cmd/main.go and       *)
(* services/gamenode/cmd/main.go, with the work that is under way then.    *)
(*                                                                         *)
(* A process ends when its main function returns, whatever it still runs.  *)
(* net/http's Shutdown closes the listener, upon which ListenAndServe      *)
(* returns at once, and waits for requests, but not for connections that   *)
(* were hijacked (WebSockets).  gRPC's GracefulStop refuses new calls and  *)
(* waits for those under way; Serve returns after it.  A pgx pool that is  *)
(* closed waits for the connections that are in use.                       *)
(***************************************************************************)
CONSTANTS
    Requests,   \* HTTP requests to the gateway
    Calls,      \* AssignPlayer calls to the game node
    Sockets     \* WebSocket requests to the game node

VARIABLES
    gateway,    \* the gateway's main function
    request,    \* request[r]: the gateway's handler of r
    matchmaker, \* the matchmaker's main function
    rpc,        \* rpc[r]: the matchmaker's handler of the RPC made for r
    node,       \* the game node's main function
    call,       \* call[a]: the node's handler of an AssignPlayer call
    socket      \* socket[s]: the node's handler and goroutines of s

front == <<gateway, request>>
middle == <<matchmaker, rpc>>
back == <<node, call, socket>>
vars == <<front, middle, back>>

TypeOK ==
    /\ gateway \in {"serving", "returned", "disconnected", "exited"}
    /\ request \in [Requests -> {"none", "match", "query", "answer", "done"}]
    /\ matchmaker \in {"serving", "stopping", "exited"}
    /\ rpc \in [Requests -> {"none", "running", "done"}]
    /\ node \in {"serving", "cancelled", "closing", "stopping", "exited"}
    /\ call \in [Calls -> {"none", "running", "done"}]
    /\ socket \in [Sockets -> {"none", "handler", "open", "done"}]

Init ==
    /\ gateway = "serving" /\ request = [r \in Requests |-> "none"]
    /\ matchmaker = "serving" /\ rpc = [r \in Requests |-> "none"]
    /\ node = "serving"
    /\ call = [a \in Calls |-> "none"] /\ socket = [s \in Sockets |-> "none"]

-----------------------------------------------------------------------------
(* The gateway.                                                            *)

RequestTo(r, from, to) ==
    request[r] = from /\ request' = [request EXCEPT ![r] = to]

\* POST /api/match arrives and makes an RPC, or is refused by a matchmaker that is
\* stopping.  A request arrives and makes its call or query in one step.
AskMatch(r) ==
    /\ gateway = "serving"
    /\ IF matchmaker = "serving"
       THEN RequestTo(r, "none", "match") /\ rpc' = [rpc EXCEPT ![r] = "running"]
       ELSE RequestTo(r, "none", "answer") /\ UNCHANGED rpc
    /\ UNCHANGED <<gateway, matchmaker, back>>

\* GET /api/leaderboard or /api/stats takes a connection from the pool.
AskQuery(r) ==
    /\ gateway = "serving"
    /\ RequestTo(r, "none", "query")
    /\ UNCHANGED <<gateway, middle, back>>

\* RequestMatch returns, or fails: the RPC was cut off, the gateway's connection
\* to the matchmaker is closed, or its five seconds are over.
MatchEnds(r) ==
    /\ gateway # "exited"
    /\ RequestTo(r, "match", "answer")
    /\ UNCHANGED <<gateway, middle, back>>

\* The query ends, within three seconds, and gives its connection back.
QueryEnds(r) ==
    /\ gateway # "exited"
    /\ RequestTo(r, "query", "answer")
    /\ UNCHANGED <<gateway, middle, back>>

WriteJSON(r) ==
    /\ gateway # "exited"
    /\ RequestTo(r, "answer", "done")
    /\ UNCHANGED <<gateway, middle, back>>

\* The signal goroutine calls Shutdown, whose wait nobody waits for: the main
\* goroutine's ListenAndServe returns.
GatewaySignal ==
    /\ gateway = "serving"
    /\ gateway' = "returned"
    /\ UNCHANGED <<request, middle, back>>

\* The deferred calls, last one first: the connection to the matchmaker ...
CloseApiServer ==
    /\ gateway = "returned"
    /\ gateway' = "disconnected"
    /\ UNCHANGED <<request, middle, back>>

\* ... and the pool, which waits for its connections; then the process ends.
ClosePool ==
    /\ gateway = "disconnected"
    /\ \A r \in Requests : request[r] # "query"
    /\ gateway' = "exited"
    /\ UNCHANGED <<request, middle, back>>

-----------------------------------------------------------------------------
(* The matchmaker.                                                         *)

RpcEnds(r) ==
    /\ matchmaker # "exited" /\ rpc[r] = "running"
    /\ rpc' = [rpc EXCEPT ![r] = "done"]
    /\ UNCHANGED <<front, matchmaker, back>>

\* The context is cancelled and GracefulStop called.
MatchmakerSignal ==
    /\ matchmaker = "serving"
    /\ matchmaker' = "stopping"
    /\ UNCHANGED <<front, rpc, back>>

\* Serve returns when no RPC is left, and the process ends with it, though the
\* drainer may be between two Redis commands (Restart of Matchmaker).
ServeReturns ==
    /\ matchmaker = "stopping"
    /\ \A r \in Requests : rpc[r] # "running"
    /\ matchmaker' = "exited"
    /\ UNCHANGED <<front, rpc, back>>

-----------------------------------------------------------------------------
(* The game node.                                                          *)

\* AssignPlayer, and its end; accepted as long as the gRPC server is not stopping.
CallStarts(a) ==
    /\ node \in {"serving", "cancelled", "closing"} /\ call[a] = "none"
    /\ call' = [call EXCEPT ![a] = "running"]
    /\ UNCHANGED <<front, middle, node, socket>>

CallEnds(a) ==
    /\ node # "exited" /\ call[a] = "running"
    /\ call' = [call EXCEPT ![a] = "done"]
    /\ UNCHANGED <<front, middle, node, socket>>

SocketTo(s, from, to) ==
    /\ socket[s] = from /\ socket' = [socket EXCEPT ![s] = to]
    /\ UNCHANGED <<front, middle, node, call>>

\* A player connects: accepted until the HTTP server is shut down.
SocketArrives(s) == node \in {"serving", "cancelled"} /\ SocketTo(s, "none", "handler")

\* The token is refused or the upgrade fails; or the connection is hijacked.
HandlerEnds(s) == node # "exited" /\ \E to \in {"done", "open"} : SocketTo(s, "handler", to)

\* The player or the writer closes the connection.
SocketCloses(s) == node # "exited" /\ SocketTo(s, "open", "done")

NodeTo(from, to) ==
    /\ node = from /\ node' = to
    /\ UNCHANGED <<front, middle, call, socket>>

\* "2. Cancel context (stops game loop, heartbeats)"; step 1 is not there.
NodeSignal == NodeTo("serving", "cancelled")

\* Shutdown closes the listener ...
CloseListener == NodeTo("cancelled", "closing")

\* Mutants of ShutdownReturns: its error ends the goroutine, and nobody calls
\* GracefulStop; it waits for hijacked connections, without a limit.
ShutdownFails == NodeTo("closing", "failed")


\* ... and returns when no handler is left, or with handlers left when its ten
\* seconds are over.
ShutdownReturns == NodeTo("closing", "stopping")

\* GracefulStop returns when no call is left, and the process ends.
NodeExits ==
    /\ \A a \in Calls : call[a] # "running"
    /\ NodeTo("stopping", "exited")

-----------------------------------------------------------------------------
GatewayMain == GatewaySignal \/ CloseApiServer \/ ClosePool
MatchmakerMain == MatchmakerSignal \/ ServeReturns
NodeMain == NodeSignal \/ CloseListener \/ ShutdownReturns \/ NodeExits

HandlerNext ==
    \/ \E r \in Requests : MatchEnds(r) \/ QueryEnds(r) \/ WriteJSON(r) \/ RpcEnds(r)
    \/ \E a \in Calls : CallEnds(a)

Next ==
    \/ \E r \in Requests : AskMatch(r) \/ AskQuery(r)
    \/ \E a \in Calls : CallStarts(a)
    \/ \E s \in Sockets : SocketArrives(s) \/ HandlerEnds(s) \/ SocketCloses(s)
    \/ HandlerNext
    \/ GatewayMain \/ MatchmakerMain \/ NodeMain

Spec == Init /\ [][Next]_vars

\* Main functions that have begun to end go on, and so do handlers, each of which
\* has a deadline for what it waits for.  Signals, players and upgrades need not come.
Fairness ==
    /\ WF_vars(CloseApiServer \/ ClosePool)
    /\ WF_vars(ServeReturns)
    /\ WF_vars(CloseListener \/ ShutdownReturns \/ NodeExits)
    /\ \A r \in Requests : WF_vars(MatchEnds(r) \/ QueryEnds(r)) /\ WF_vars(RpcEnds(r))
    /\ \A a \in Calls : WF_vars(CallEnds(a))

FairSpec == Spec /\ Fairness

-----------------------------------------------------------------------------
(* Properties.                                                             *)

=============================================================================
