----------------------- MODULE FailureDetectorProofs -----------------------
(***************************************************************************)
(* The latency of the failure detector and the absence of false alarms,    *)
(* for every number of nodes, period, delay and number of losses in a row. *)
(***************************************************************************)
EXTENDS FailureDetector, RegistryProofs

-----------------------------------------------------------------------------
(* Typing.                                                                 *)

\* The type invariant is preserved by every step.
LEMMA TypeStep == TypeOK /\ [Next]_vars => TypeOK'
<1> SUFFICES ASSUME TypeOK, [Next]_vars PROVE TypeOK'
  OBVIOUS
<1> USE RegistryAssumption, TimingAssumption DEF TypeOK, NoRpc
<1>1. ASSUME NEW n \in Nodes, Start(n) PROVE TypeOK'
  <2>1. RegistryTypeOK'
    BY <1>1, RegisterType DEF Start
  <2>2. beatTimer' \in [Nodes -> 0..(Interval + MaxDelay)]
    BY <1>1 DEF Start
  <2> QED
    BY <1>1, <2>1, <2>2 DEF Start
<1>2. ASSUME NEW n \in Nodes, SendBeat(n) PROVE TypeOK'
  BY <1>2 DEF SendBeat, RegistryTypeOK, Registered
<1>3. ASSUME NEW n \in Nodes, LoseBeat(n) PROVE TypeOK'
  BY <1>3 DEF LoseBeat, RegistryTypeOK, Registered
<1>4. ASSUME NEW n \in Nodes, Arrive(n) PROVE TypeOK'
  <2>1. RegistryTypeOK'
    <3>1. PICK l \in 0..MaxLoad : Heartbeat(n, l)
      BY <1>4 DEF Arrive
    <3>2. l \in Nat
      OBVIOUS
    <3> QED
      BY <3>1, <3>2, HeartbeatType
  <2> QED
    BY <1>4, <2>1 DEF Arrive
<1>5. ASSUME NEW n \in Nodes, Crash(n) PROVE TypeOK'
  BY <1>5 DEF Crash, RegistryTypeOK, Registered
<1>6. CASE Check
  BY <1>6, HealthCheckType DEF Check, beats
<1>7. CASE Tick
  <2>1. \A t \in 0..(Interval + MaxDelay) : Down(t) \in 0..(Interval + MaxDelay)
    BY DEF Down
  <2>2. \A t \in {-1} \cup 0..MaxDelay : Down(t) \in {-1} \cup 0..MaxDelay
    BY DEF Down
  <2> QED
    BY <1>7, <2>1, <2>2, TimePassesType DEF Tick
<1>8. CASE UNCHANGED vars
  BY <1>8 DEF vars, RegistryTypeOK, Registered
<1> QED
  BY <1>1, <1>2, <1>3, <1>4, <1>5, <1>6, <1>7, <1>8 DEF Next

LEMMA TypeInit == Init => TypeOK
BY RegistryAssumption, TimingAssumption
   DEF Init, RegistryInit, TypeOK, RegistryTypeOK, Registered, NoRpc

\* The type invariant holds in every behaviour.
THEOREM Typing == Spec => []TypeOK
BY TypeInit, TypeStep, PTL DEF Spec

-----------------------------------------------------------------------------
(* Detection.  What is left until the next check bounds the age of a node  *)
(* still in rotation: a check leaves only ages within the timeout, and     *)
(* from then on every unit of age takes a unit off checkTimer.             *)

Latency ==
    \A n \in Registered :
        nodes[n].healthy
            => nodes[n].age + checkTimer <= HeartbeatTimeout + Interval

LEMMA LatencyStep == TypeOK /\ Latency /\ [Next]_vars => Latency'
<1> SUFFICES ASSUME TypeOK, Latency, [Next]_vars,
                    NEW m \in Registered', nodes'[m].healthy
             PROVE  nodes'[m].age + checkTimer' <= HeartbeatTimeout + Interval
  BY DEF Latency
<1> USE RegistryAssumption, TimingAssumption
    DEF TypeOK, RegistryTypeOK, NodeInfo, Latency, Registered
<1>1. ASSUME NEW n \in Nodes, Start(n)
      PROVE  nodes'[m].age + checkTimer' <= HeartbeatTimeout + Interval
  BY <1>1 DEF Start, Register, Put, Fresh
<1>2. ASSUME NEW n \in Nodes, SendBeat(n)
      PROVE  nodes'[m].age + checkTimer' <= HeartbeatTimeout + Interval
  BY <1>2 DEF SendBeat
<1>3. ASSUME NEW n \in Nodes, LoseBeat(n)
      PROVE  nodes'[m].age + checkTimer' <= HeartbeatTimeout + Interval
  BY <1>3 DEF LoseBeat
<1>4. ASSUME NEW n \in Nodes, Arrive(n)
      PROVE  nodes'[m].age + checkTimer' <= HeartbeatTimeout + Interval
  <2>1. PICK l \in 0..MaxLoad : Heartbeat(n, l)
    BY <1>4 DEF Arrive
  <2>2. m \in Registered /\ checkTimer' = checkTimer
    BY <1>4, <2>1 DEF Arrive, Heartbeat
  <2>3. nodes'[m] = nodes[m] \/ nodes'[m].age = 0
    BY <2>1, <2>2 DEF Heartbeat, Beat
  <2> QED
    BY <2>2, <2>3
<1>5. ASSUME NEW n \in Nodes, Crash(n)
      PROVE  nodes'[m].age + checkTimer' <= HeartbeatTimeout + Interval
  BY <1>5 DEF Crash
<1>6. CASE Check
  <2>1. m \in Registered /\ nodes[m] \in NodeInfo
    BY <1>6 DEF Check, HealthCheck
  <2>2. nodes'[m].age = nodes[m].age /\ nodes[m].age <= HeartbeatTimeout
    BY <1>6, <2>1 DEF Check, HealthCheck, TimedOut
  <2> QED
    BY <1>6, <2>1, <2>2 DEF Check
<1>7. CASE Tick
  BY <1>7 DEF Tick, TimePasses, Older
<1>8. CASE UNCHANGED vars
  BY <1>8 DEF vars
<1> QED
  BY <1>1, <1>2, <1>3, <1>4, <1>5, <1>6, <1>7, <1>8 DEF Next

\* A node still in rotation was heard of at most timeout + interval ago.
THEOREM Detection == Spec => []DetectedInTime
<1>1. Init => Latency
  BY DEF Init, RegistryInit, Latency, Registered
<1>2. TypeOK /\ Latency => DetectedInTime
  BY RegistryAssumption, TimingAssumption
     DEF TypeOK, RegistryTypeOK, NodeInfo, Latency, DetectedInTime, Registered
<1> QED
  BY <1>1, <1>2, Typing, LatencyStep, PTL DEF Spec

-----------------------------------------------------------------------------
(* No false alarm.  For a running node, the age plus the time to the last  *)
(* heartbeat that may still be lost, plus its successor's, stays within    *)
(* the timeout.                                                            *)

\* The heartbeats that may be lost in a row, and the delays of the one that
\* gets through and of the reply to the registration, fit into the timeout.
FitsTimeout == (MaxLost + 1) * Interval + 2 * MaxDelay <= HeartbeatTimeout

\* How long n may still stay silent before its next heartbeat is sent.
Silence(n) == beatTimer[n] + (MaxLost - lost[n]) * Interval

OnTime(n) ==
    /\ nodes[n].healthy
    /\ rpc[n] = NoRpc => nodes[n].age + Silence(n) + MaxDelay <= HeartbeatTimeout
    /\ rpc[n] # NoRpc => /\ nodes[n].age + rpc[n] <= HeartbeatTimeout
                         /\ beatTimer[n] <= Interval

Punctual == \A n \in Registered : alive[n] => OnTime(n)

LEMMA LossesLeft ==
    ASSUME TypeOK, NEW n \in Nodes
    PROVE  /\ (MaxLost - lost[n]) * Interval \in Nat
           /\ (MaxLost - (lost[n] + 1)) * Interval
                = (MaxLost - lost[n]) * Interval - Interval
           /\ (MaxLost - 0) * Interval = (MaxLost + 1) * Interval - Interval
<1>1. lost[n] \in Nat /\ MaxLost \in Nat /\ Interval \in Nat /\ lost[n] <= MaxLost
  BY TimingAssumption DEF TypeOK
<1>2. PICK k \in Nat : k = MaxLost - lost[n]
  BY <1>1
<1>3. k * Interval \in Nat
  BY <1>1
<1>4. (MaxLost - (lost[n] + 1)) = k - 1
  BY <1>1, <1>2
<1>5. (k - 1) * Interval = k * Interval - Interval
  BY <1>1
<1>6. (MaxLost - 0) * Interval = (MaxLost + 1) * Interval - Interval
  BY <1>1
<1> QED
  BY <1>2, <1>3, <1>4, <1>5, <1>6

LEMMA PunctualStep ==
    ASSUME FitsTimeout
    PROVE  TypeOK /\ Punctual /\ [Next]_vars => Punctual'
<1> SUFFICES ASSUME TypeOK, Punctual, [Next]_vars,
                    NEW m \in Registered', alive'[m]
             PROVE  OnTime(m)'
  BY DEF Punctual
<1> USE RegistryAssumption, TimingAssumption DEF NoRpc
<1>m. m \in Nodes
  BY TypeStep DEF TypeOK, RegistryTypeOK
<1>a. m \in Registered /\ alive[m] => OnTime(m)
  BY DEF Punctual
<1> DEFINE Rest == (MaxLost - lost[m]) * Interval
<1>b. Rest \in Nat
  BY <1>m, LossesLeft
<1>c. (MaxLost - (lost[m] + 1)) * Interval = Rest - Interval
  BY <1>m, LossesLeft
<1>d. (MaxLost - 0) * Interval + Interval + 2 * MaxDelay <= HeartbeatTimeout
  <2>1. (MaxLost - 0) * Interval = (MaxLost + 1) * Interval - Interval
    BY <1>m, LossesLeft
  <2>2. (MaxLost + 1) * Interval \in Int
    OBVIOUS
  <2> QED
    BY <2>1, <2>2 DEF FitsTimeout
<1>f. (MaxLost - 0) * Interval \in Int
  OBVIOUS
<1> HIDE DEF Rest
<1>e. OnTime(m) <=> /\ nodes[m].healthy
                    /\ rpc[m] = NoRpc => nodes[m].age + (beatTimer[m] + Rest) + MaxDelay
                                            <= HeartbeatTimeout
                    /\ rpc[m] # NoRpc => /\ nodes[m].age + rpc[m] <= HeartbeatTimeout
                                         /\ beatTimer[m] <= Interval
  BY DEF OnTime, Silence, Rest
<1>g. /\ beatTimer[m] \in 0..(Interval + MaxDelay)
      /\ rpc[m] \in {-1} \cup 0..MaxDelay
      /\ lost[m] \in 0..MaxLost
      /\ m \in Registered => nodes[m] \in NodeInfo
  BY <1>m DEF TypeOK, RegistryTypeOK
<1>1. ASSUME NEW n \in Nodes, Start(n) PROVE OnTime(m)'
  <2>1. CASE m = n
    <3>1. nodes'[m].healthy /\ nodes'[m].age = 0
      BY <1>1, <2>1 DEF Start, Register, Put, Fresh, Registered
    <3>2. rpc'[m] = NoRpc /\ lost'[m] = 0
      BY <1>1, <1>m, <2>1 DEF Start, TypeOK
    <3>3. beatTimer'[m] \in Int /\ beatTimer'[m] <= Interval + MaxDelay
      BY <1>1, <1>m, <2>1 DEF Start, TypeOK
    <3> QED
      BY <3>1, <3>2, <3>3, <1>d, <1>f DEF OnTime, Silence
  <2>2. CASE m # n
    <3>1. nodes'[m] = nodes[m] /\ m \in Registered
      BY <1>1, <2>2 DEF Start, Register, Put, Registered
    <3>2. /\ rpc'[m] = rpc[m] /\ lost'[m] = lost[m]
          /\ beatTimer'[m] = beatTimer[m] /\ alive'[m] = alive[m]
      BY <1>1, <1>m, <2>2 DEF Start, TypeOK
    <3> QED
      BY <3>1, <3>2, <1>a DEF OnTime, Silence
  <2> QED
    BY <2>1, <2>2
<1>2. ASSUME NEW n \in Nodes, SendBeat(n) PROVE OnTime(m)'
  <2>1. nodes' = nodes /\ m \in Registered /\ alive[m] /\ lost' = lost
    BY <1>2 DEF SendBeat, Registered
  <2>2. CASE m = n
    <3>1. beatTimer[m] = 0 /\ rpc[m] = NoRpc /\ beatTimer'[m] = Interval
      BY <1>2, <2>2, <1>m DEF SendBeat, TypeOK
    <3>2. rpc'[m] \in 0..MaxDelay
      BY <1>2, <2>2, <1>m DEF SendBeat, TypeOK
    <3>3. nodes[m].age + rpc'[m] <= HeartbeatTimeout
      BY <1>a, <1>b, <1>e, <1>g, <2>1, <3>1, <3>2 DEF NodeInfo
    <3> QED
      BY <1>a, <1>e, <2>1, <3>1, <3>2, <3>3 DEF OnTime
  <2>3. CASE m # n
    <3>1. rpc'[m] = rpc[m] /\ beatTimer'[m] = beatTimer[m]
      BY <1>2, <2>3, <1>m DEF SendBeat, TypeOK
    <3> QED
      BY <1>a, <2>1, <3>1 DEF OnTime, Silence
  <2> QED
    BY <2>2, <2>3
<1>3. ASSUME NEW n \in Nodes, LoseBeat(n) PROVE OnTime(m)'
  <2>1. nodes' = nodes /\ m \in Registered /\ alive[m] /\ rpc' = rpc
    BY <1>3 DEF LoseBeat, Registered
  <2>2. CASE m = n
    <3>1. /\ beatTimer[m] = 0 /\ rpc[m] = NoRpc /\ beatTimer'[m] = Interval
          /\ lost'[m] = lost[m] + 1
      BY <1>3, <2>2, <1>m DEF LoseBeat, TypeOK
    <3>2. Silence(m)' = Rest
      BY <1>b, <1>c, <3>1 DEF Silence
    <3> QED
      BY <1>a, <1>b, <1>e, <1>g, <2>1, <3>1, <3>2 DEF OnTime, NodeInfo
  <2>3. CASE m # n
    <3>1. lost'[m] = lost[m] /\ beatTimer'[m] = beatTimer[m]
      BY <1>3, <2>3, <1>m DEF LoseBeat, TypeOK
    <3> QED
      BY <1>a, <2>1, <3>1 DEF OnTime, Silence
  <2> QED
    BY <2>2, <2>3
<1>4. ASSUME NEW n \in Nodes, Arrive(n) PROVE OnTime(m)'
  <2>1. alive' = alive /\ beatTimer' = beatTimer /\ m \in Registered
    BY <1>4 DEF Arrive, Heartbeat, Registered
  <2>2. CASE m = n
    <3>1. nodes'[m].healthy /\ nodes'[m].age = 0
      BY <1>4, <2>1, <2>2, <1>m DEF Arrive, Heartbeat, Beat, Registered, TypeOK, RegistryTypeOK
    <3>2. rpc'[m] = NoRpc /\ lost'[m] = 0 /\ rpc[m] = 0
      BY <1>4, <2>2, <1>m DEF Arrive, TypeOK
    <3>3. beatTimer[m] <= Interval
      BY <1>a, <1>e, <2>1, <3>2
    <3> QED
      BY <1>d, <1>f, <1>g, <2>1, <3>1, <3>2, <3>3 DEF OnTime, Silence
  <2>3. CASE m # n
    <3>1. nodes'[m] = nodes[m] /\ rpc'[m] = rpc[m] /\ lost'[m] = lost[m]
      BY <1>4, <2>1, <2>3, <1>m DEF Arrive, Heartbeat, Registered, TypeOK, RegistryTypeOK
    <3> QED
      BY <1>a, <2>1, <3>1 DEF OnTime, Silence
  <2> QED
    BY <2>2, <2>3
<1>5. ASSUME NEW n \in Nodes, Crash(n) PROVE OnTime(m)'
  <2>1. m \in Registered /\ alive[m]
    BY <1>5, <1>m DEF Crash, Registered, TypeOK
  <2> QED
    BY <1>5, <1>a, <2>1 DEF Crash, OnTime, Silence
<1>6. CASE Check
  <2>1. m \in Registered /\ alive[m]
    BY <1>6 DEF Check, HealthCheck, Registered, beats
  <2>2. nodes[m].age <= HeartbeatTimeout
    BY <1>a, <1>b, <1>e, <1>g, <2>1 DEF NodeInfo
  <2>3. nodes'[m].age = nodes[m].age /\ nodes'[m].healthy
    BY <1>6, <1>a, <1>e, <1>g, <2>1, <2>2
       DEF Check, HealthCheck, TimedOut, Registered, NodeInfo
  <2> QED
    BY <1>6, <1>a, <2>1, <2>3 DEF Check, beats, OnTime, Silence
<1>7. CASE Tick
  <2>1. m \in Registered /\ alive[m] /\ rpc[m] # 0 /\ beatTimer[m] > 0
    BY <1>7, <1>m DEF Tick, TimePasses, Registered
  <2>2. nodes'[m].healthy /\ nodes'[m].age \in Int /\ nodes'[m].age <= nodes[m].age + 1
    BY <1>7, <1>a, <1>e, <1>g, <2>1 DEF Tick, TimePasses, Older, Registered, NodeInfo
  <2>3. /\ beatTimer'[m] = beatTimer[m] - 1
        /\ rpc'[m] = IF rpc[m] = NoRpc THEN NoRpc ELSE rpc[m] - 1
        /\ lost' = lost
    BY <1>7, <1>g, <1>m, <2>1 DEF Tick, Down
  <2>4. Silence(m)' = beatTimer[m] - 1 + Rest
    BY <2>3 DEF Silence, Rest
  <2>5. nodes[m].age \in Int
    BY <1>g, <2>1 DEF NodeInfo
  <2> QED
    BY <1>a, <1>b, <1>e, <1>g, <2>1, <2>2, <2>3, <2>4, <2>5 DEF OnTime
<1>8. CASE UNCHANGED vars
  BY <1>8, <1>a DEF vars, OnTime, Silence, Registered
<1> QED
  BY <1>1, <1>2, <1>3, <1>4, <1>5, <1>6, <1>7, <1>8 DEF Next

\* When losses and delays fit into the timeout, a running node is never marked
\* unhealthy, in whatever phase heartbeats and checks run.
THEOREM Punctuality ==
    ASSUME FitsTimeout
    PROVE  Spec => []NoFalseAlarm
<1>1. Init => Punctual
  BY DEF Init, RegistryInit, Punctual, Registered
<1>2. Punctual => NoFalseAlarm
  BY DEF Punctual, OnTime, NoFalseAlarm
<1>3. TypeOK /\ Punctual /\ [Next]_vars => Punctual'
  BY PunctualStep
<1> QED
  BY <1>1, <1>2, <1>3, Typing, PTL DEF Spec
=============================================================================
