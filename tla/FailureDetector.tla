-------------------------- MODULE FailureDetector --------------------------
(***************************************************************************)
(* How the matchmaker learns that a game node is gone: the node's          *)
(* heartbeat loop (services/gamenode/internal/registration/client.go), the *)
(* health checker goroutine (services/matchmaker/cmd/main.go) and the      *)
(* registry between them, with discrete time.                              *)
(*                                                                         *)
(* Timers count down to 0 and an expired timer is served before time goes  *)
(* on: a goroutine whose ticker fired runs within less than a time unit.   *)
(* A heartbeat takes 0..MaxDelay units to reach the registry, or is lost.  *)
(***************************************************************************)
EXTENDS Registry

CONSTANTS
    Interval,   \* HeartbeatInterval, the period of both tickers
    MaxDelay,   \* bound: slowest RPC that is not lost
    MaxLost     \* bound: heartbeats of one node lost in a row

VARIABLES
    checkTimer, \* time until the health checker's ticker fires
    alive,      \* alive[n]: node n runs
    beatTimer,  \* beatTimer[n]: time until n's heartbeat ticker fires
    rpc,        \* rpc[n]: time until n's heartbeat arrives, or NoRpc
    lost        \* lost[n]: heartbeats of n lost since the last that arrived

vars == <<nodes, checkTimer, alive, beatTimer, rpc, lost>>
beats == <<alive, beatTimer, rpc, lost>>

NoRpc == -1

\* cmd/main.go: heartbeatTimeout := cfg.HeartbeatInterval * 3
ASSUME TimingAssumption ==
    /\ Interval \in Nat \ {0}
    /\ MaxDelay \in 0..(Interval - 1)
    /\ MaxLost \in Nat
    /\ HeartbeatTimeout = 3 * Interval
    /\ AgeCap > HeartbeatTimeout + Interval

TypeOK ==
    /\ RegistryTypeOK
    /\ checkTimer \in 0..Interval
    /\ alive \in [Nodes -> BOOLEAN]
    /\ beatTimer \in [Nodes -> 0..(Interval + MaxDelay)]
    /\ rpc \in [Nodes -> {NoRpc} \cup 0..MaxDelay]
    /\ lost \in [Nodes -> 0..MaxLost]

Init ==
    /\ RegistryInit
    /\ checkTimer = Interval
    /\ alive = [n \in Nodes |-> FALSE]
    /\ beatTimer = [n \in Nodes |-> 0]
    /\ rpc = [n \in Nodes |-> NoRpc]
    /\ lost = [n \in Nodes |-> 0]

-----------------------------------------------------------------------------
\* The node starts, or starts again after a crash, and registers; its ticker
\* begins when the reply reaches it.  A restart takes longer than a heartbeat that
\* was in flight; retries of the registration are in Matchmaker.
Start(n) ==
    /\ ~alive[n] /\ rpc[n] = NoRpc
    /\ \E c \in Capacities : Register(n, c)
    /\ alive' = [alive EXCEPT ![n] = TRUE]
    /\ \E reply \in 0..MaxDelay :
         beatTimer' = [beatTimer EXCEPT ![n] = Interval + reply]
    /\ lost' = [lost EXCEPT ![n] = 0]
    /\ UNCHANGED <<checkTimer, rpc>>

\* Mutant of SendBeat: the ticker is given the timeout for its period.
SendBeatRarely(n) ==
    /\ alive[n] /\ beatTimer[n] = 0 /\ rpc[n] = NoRpc
    /\ beatTimer' = [beatTimer EXCEPT ![n] = HeartbeatTimeout]
    /\ \E d \in 0..MaxDelay : rpc' = [rpc EXCEPT ![n] = d]
    /\ UNCHANGED <<nodes, checkTimer, alive, lost>>

\* HeartbeatLoop: the ticker fires, the heartbeat is sent.
SendBeat(n) ==
    /\ alive[n] /\ beatTimer[n] = 0 /\ rpc[n] = NoRpc
    /\ beatTimer' = [beatTimer EXCEPT ![n] = Interval]
    /\ \E d \in 0..MaxDelay : rpc' = [rpc EXCEPT ![n] = d]
    /\ UNCHANGED <<nodes, checkTimer, alive, lost>>

\* The RPC fails: the error is logged and the loop waits for its next tick.
LoseBeat(n) ==
    /\ alive[n] /\ beatTimer[n] = 0 /\ rpc[n] = NoRpc
    /\ lost[n] < MaxLost
    /\ beatTimer' = [beatTimer EXCEPT ![n] = Interval]
    /\ lost' = [lost EXCEPT ![n] = @ + 1]
    /\ UNCHANGED <<nodes, checkTimer, alive, rpc>>

\* The heartbeat reaches the matchmaker, whether or not its sender still runs.
Arrive(n) ==
    /\ rpc[n] = 0
    /\ \E load \in 0..MaxLoad : Heartbeat(n, load)
    /\ rpc' = [rpc EXCEPT ![n] = NoRpc]
    /\ lost' = [lost EXCEPT ![n] = 0]
    /\ UNCHANGED <<checkTimer, alive, beatTimer>>

\* The node dies; nothing tells the matchmaker.
Crash(n) ==
    /\ alive[n]
    /\ alive' = [alive EXCEPT ![n] = FALSE]
    /\ UNCHANGED <<nodes, checkTimer, beatTimer, rpc, lost>>

\* The health checker's ticker fires.
Check ==
    /\ checkTimer = 0
    /\ HealthCheck
    /\ checkTimer' = Interval
    /\ UNCHANGED beats

Down(t) == IF t > 0 THEN t - 1 ELSE t

\* A time unit goes by, once nothing that is due is left undone.
Tick ==
    /\ checkTimer > 0
    /\ \A n \in Nodes : rpc[n] # 0 /\ (alive[n] => beatTimer[n] > 0)
    /\ TimePasses
    /\ checkTimer' = checkTimer - 1
    /\ beatTimer' = [n \in Nodes |-> Down(beatTimer[n])]
    /\ rpc' = [n \in Nodes |-> Down(rpc[n])]
    /\ UNCHANGED <<alive, lost>>

Next ==
    \/ \E n \in Nodes : \/ Start(n)  \/ SendBeat(n) \/ LoseBeat(n)
                        \/ Arrive(n) \/ Crash(n)
    \/ Check
    \/ Tick

Spec == Init /\ [][Next]_vars

\* Time goes on, and the goroutines whose tickers fired run.  A node need
\* neither crash nor start again, and no heartbeat need be lost.
Fairness ==
    /\ WF_vars(Tick) /\ WF_vars(Check)
    /\ \A n \in Nodes : WF_vars(SendBeat(n)) /\ WF_vars(Arrive(n))

FairSpec == Spec /\ Fairness

-----------------------------------------------------------------------------
(* Properties.                                                             *)

\* The detection latency of the timeout and the checker together: a node still
\* in rotation was last heard of at most timeout + interval ago, whatever the
\* phase between its heartbeats and the checks (cmd/main.go, health checker).
DetectedInTime ==
    \A n \in Registered :
        nodes[n].healthy => nodes[n].age <= HeartbeatTimeout + Interval

\* A running node is never taken out of rotation: true when the heartbeats that
\* can be lost in a row and the delays fit into the timeout (cmd/main.go:61-63).
NoFalseAlarm ==
    \A n \in Registered : alive[n] => nodes[n].healthy

InRotation(n) == n \in Registered /\ nodes[n].healthy

\* A node that died is out of rotation in the end, unless it starts again,
\* whatever was still in flight when it died (cmd/main.go, health checker).
CrashDetected ==
    \A n \in Nodes : ~alive[n] ~> (alive[n] \/ ~InRotation(n))
=============================================================================
