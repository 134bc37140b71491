--------------------------- MODULE ShutdownProofs ---------------------------
(***************************************************************************)
(* The end of the three services, for any number of requests, calls and    *)
(* sockets: the type invariant.                                            *)
(***************************************************************************)
EXTENDS Shutdown, TLAPS

LEMMA TypeInit == Init => TypeOK
BY DEF Init, TypeOK

LEMMA TypeStep == TypeOK /\ [Next]_vars => TypeOK'
<1> SUFFICES ASSUME TypeOK, [Next]_vars PROVE TypeOK'
  OBVIOUS
<1> USE DEF TypeOK, front, middle, back
<1>1. ASSUME NEW r \in Requests, AskMatch(r) PROVE TypeOK'
  BY <1>1 DEF AskMatch, RequestTo
<1>2. ASSUME NEW r \in Requests,
             AskQuery(r) \/ MatchEnds(r) \/ QueryEnds(r) \/ WriteJSON(r) \/ RpcEnds(r)
      PROVE  TypeOK'
  BY <1>2 DEF AskQuery, MatchEnds, QueryEnds, WriteJSON, RpcEnds, RequestTo
<1>3. ASSUME NEW a \in Calls, CallStarts(a) \/ CallEnds(a) PROVE TypeOK'
  BY <1>3 DEF CallStarts, CallEnds
<1>4. ASSUME NEW s \in Sockets, SocketArrives(s) \/ HandlerEnds(s) \/ SocketCloses(s)
      PROVE  TypeOK'
  BY <1>4 DEF SocketArrives, HandlerEnds, SocketCloses, SocketTo
<1>5. CASE GatewayMain
  BY <1>5 DEF GatewayMain, GatewaySignal, CloseApiServer, ClosePool
<1>6. CASE MatchmakerMain
  BY <1>6 DEF MatchmakerMain, MatchmakerSignal, ServeReturns
<1>7. CASE NodeMain
  BY <1>7 DEF NodeMain, NodeSignal, CloseListener, ShutdownReturns, NodeExits, NodeTo
<1>8. CASE UNCHANGED vars
  BY <1>8 DEF vars
<1> QED
  BY <1>1, <1>2, <1>3, <1>4, <1>5, <1>6, <1>7, <1>8 DEF Next, HandlerNext

\* The type invariant holds in every behaviour.
THEOREM Typing == Spec => []TypeOK
BY TypeInit, TypeStep, PTL DEF Spec
=============================================================================
