------------------------ MODULE BluetoothConnectProofs ------------------------
(***************************************************************************)
(* BluetoothConnect for every number of retries and every timeout a u8     *)
(* holds: a connect in which everything takes as long as it may returns    *)
(* before its bound, and the agent is registered once.                     *)
(***************************************************************************)
EXTENDS BluetoothConnect, TLAPS

LEMMA Settings ==
  /\ max_retries \in Nat /\ max_retries >= 1
  /\ connect_timeout \in Nat /\ connect_timeout >= 1
  /\ AgentSecs \in Nat /\ InitSecs \in Nat /\ AgentSecs + InitSecs <= 68
  /\ MaxCalls \in Nat
  BY ConnectAssumption DEF max_retries, connect_timeout, Larger

-----------------------------------------------------------------------------
(* Products, kept away from the steps *)

LEMMA OneMore == \A n, c \in Nat : n >= 1 => (n - 1) * c \in Nat /\ (n - 1) * c + c = n * c
<1> SUFFICES ASSUME NEW n \in Nat, NEW c \in Nat, n >= 1
             PROVE  (n - 1) * c \in Nat /\ (n - 1) * c + c = n * c
  OBVIOUS
<1>1. n - 1 \in Nat
  OBVIOUS
<1>2. (n - 1) * c = n * c - c
  BY <1>1
<1>3. (n - 1) * c \in Nat /\ n * c \in Nat
  BY <1>1
<1> QED BY <1>2, <1>3

LEMMA Monotone == \A m, n, c \in Nat : m <= n => m * c <= n * c
<1> SUFFICES ASSUME NEW m \in Nat, NEW n \in Nat, NEW c \in Nat, m <= n PROVE m * c <= n * c
  OBVIOUS
<1>1. PICK k \in Nat : n = m + k
  <2>1. n - m \in Nat /\ n = m + (n - m)
    OBVIOUS
  <2> QED BY <2>1
<1>2. n * c = m * c + k * c /\ k * c \in Nat /\ m * c \in Nat
  BY <1>1
<1> QED BY <1>2

\* The slack of the bound is 8 s per attempt and 60 s.
LEMMA BoundCovers ==
  AgentSecs + max_retries * AttemptSecs + InitSecs <= retry_connect_bound
<1> DEFINE r == max_retries
           c == connect_timeout
<1>1. AttemptSecs = c + 12
  BY Settings DEF AttemptSecs, AddressWaits, ProbeSecs, PauseSecs
<1>2. r * (c + 20) = r * (c + 12) + 8 * r
  BY Settings
<1>3. r * (c + 12) \in Nat /\ r >= 1 /\ r \in Nat /\ r * (c + 20) \in Nat
  BY Settings
<1>4. retry_connect_bound >= r * (c + 20) + 60
  BY <1>3 DEF retry_connect_bound, Larger
<1> HIDE DEF r, c
<1>5. AgentSecs + r * (c + 12) + InitSecs <= r * (c + 20) + 60
  BY <1>2, <1>3, Settings
<1>6. retry_connect_bound \in Nat
  BY <1>3 DEF retry_connect_bound, Larger, r, c
<1> QED BY <1>1, <1>3, <1>4, <1>5, <1>6, Settings DEF r, c

LEMMA Durations ==
  /\ AttemptSecs \in Nat /\ AttemptSecs = connect_timeout + 12
  /\ AddressWaits = 6 /\ ProbeSecs = 4 /\ PauseSecs = 2
  BY Settings DEF AttemptSecs, AddressWaits, ProbeSecs, PauseSecs

\* What a call has used up never exceeds what all the attempts may.
LEMMA Attempts ==
  ASSUME NEW a \in Nat, a >= 1, a <= max_retries
  PROVE  /\ (a - 1) * AttemptSecs \in Nat
         /\ (a - 1) * AttemptSecs + AttemptSecs = a * AttemptSecs
         /\ a * AttemptSecs <= max_retries * AttemptSecs
         /\ max_retries * AttemptSecs \in Nat /\ a * AttemptSecs \in Nat
  BY Durations, OneMore, Monotone, Settings

-----------------------------------------------------------------------------
LEMMA Initially == Init => IInv
<1> SUFFICES ASSUME Init PROVE IInv
  OBVIOUS
<1>1. TypeOK
  <2>1. attempt \in 0 .. max_retries /\ waits \in 0 .. AddressWaits /\ calls \in 0 .. MaxCalls
    BY Settings DEF Init, AddressWaits
  <2> QED BY <2>1 DEF Init, TypeOK
<1>2. max_retries * AttemptSecs \in Nat
  BY Durations, Settings
<1>3. OnSchedule
  BY <1>2, Settings DEF Init, OnSchedule
<1> QED BY <1>1, <1>3 DEF IInv

LEMMA TypeStep == IInv /\ [Next]_vars => TypeOK'
<1> SUFFICES ASSUME IInv, [Next]_vars PROVE TypeOK'
  OBVIOUS
<1> USE Settings, Durations DEF IInv, TypeOK, OnSchedule, Takes, NextAttempt
<1>1. CASE Connect
  BY <1>1 DEF Connect
<1>2. CASE RegisterAgent
  <2>1. spent' \in Nat /\ registrations' \in Nat
    BY <1>2 DEF RegisterAgent
  <2>2. pc' \in {"dial", "closed"} /\ agent' \in BOOLEAN /\ attempt >= 1
    BY <1>2 DEF RegisterAgent
  <2>3. attempt' = attempt /\ waits' = waits /\ calls' = calls
    BY <1>2 DEF RegisterAgent
  <2> QED BY <2>1, <2>2, <2>3
<1>3. CASE Dial \/ Probe \/ RunInit
  BY <1>3 DEF Dial, Probe, RunInit
<1>4. CASE WaitForAddress
  BY <1>4 DEF WaitForAddress
<1>5. CASE PauseOver
  BY <1>5 DEF PauseOver
<1>6. CASE Disconnect \/ UNCHANGED vars
  BY <1>6 DEF Disconnect, vars
<1> QED BY <1>1, <1>2, <1>3, <1>4, <1>5, <1>6 DEF Next, Call

\* Every step stays within what the attempts so far may have taken.
LEMMA ScheduleStep == IInv /\ [Next]_vars => OnSchedule'
<1> SUFFICES ASSUME IInv, [Next]_vars PROVE OnSchedule'
  OBVIOUS
<1>1. TypeOK /\ OnSchedule /\ TypeOK'
  BY TypeStep DEF IInv
<1> DEFINE Done == (attempt - 1) * AttemptSecs
           All == max_retries * AttemptSecs
<1>2. ASSUME pc \notin {"closed", "open"}
      PROVE  /\ attempt \in Nat /\ attempt >= 1 /\ attempt <= max_retries
             /\ Done \in Nat /\ All \in Nat /\ Done + AttemptSecs <= All
             /\ Done + AttemptSecs = attempt * AttemptSecs
  <2>1. attempt \in Nat /\ attempt >= 1 /\ attempt <= max_retries
    BY <1>1, <1>2, Settings DEF TypeOK
  <2> QED BY <2>1, Attempts
<1>3. All \in Nat
  BY Durations, Settings
<1>4. ASSUME pc \notin {"closed", "open"}
      PROVE  spent <= AgentSecs + Done + InAttempt
  BY <1>1, <1>4 DEF OnSchedule
<1>5. spent \in Nat /\ waits \in 0 .. 6 /\ spent' \in Nat
  BY <1>1, Durations DEF TypeOK
<1> USE Settings, Durations, <1>5 DEF OnSchedule, InAttempt, Takes
<1> HIDE DEF Done, All
<1>6. CASE Connect
  <2>1. (1 - 1) * AttemptSecs = 0
    OBVIOUS
  <2> QED BY <1>6, <2>1 DEF Connect
<1>7. CASE RegisterAgent
  <2>1. (1 - 1) * AttemptSecs = 0 /\ spent = 0 /\ attempt = 1
    BY <1>1, <1>7 DEF RegisterAgent
  <2>2. pc' \in {"dial", "closed"} /\ attempt' = 1 /\ spent' <= AgentSecs
    BY <1>7, <2>1 DEF RegisterAgent
  <2> QED BY <2>1, <2>2, <1>3 DEF All
<1>8. CASE Dial
  <2>1. spent <= AgentSecs + Done /\ Done \in Nat /\ All \in Nat /\ Done + AttemptSecs <= All
    BY <1>8, <1>2, <1>4 DEF Dial
  <2>2. /\ spent' <= AgentSecs + Done + connect_timeout /\ attempt' = attempt /\ waits' = waits
        /\ pc' \in {"address", "pause", "closed"}
    BY <1>8, <2>1 DEF Dial, NextAttempt
  <2> QED BY <2>1, <2>2 DEF Done, All
<1>9. CASE WaitForAddress
  <2>1. spent <= AgentSecs + Done + connect_timeout + waits /\ Done \in Nat
    BY <1>9, <1>2, <1>4 DEF WaitForAddress
  <2>2. /\ attempt' = attempt /\ pc' \in {"address", "probe"}
        /\ \/ spent' = spent /\ waits' = waits
           \/ spent' = spent + 1 /\ waits' = waits + 1
        /\ waits' \in 0 .. 6
    BY <1>9 DEF WaitForAddress
  <2>3. spent' <= AgentSecs + Done + (connect_timeout + waits')
    <3>1. \A s, a, d, c, w \in Nat :
            s <= a + d + c + w => s <= a + d + (c + w) /\ s + 1 <= a + d + (c + (w + 1))
      OBVIOUS
    <3>2. spent <= AgentSecs + Done + (connect_timeout + waits)
          /\ spent + 1 <= AgentSecs + Done + (connect_timeout + (waits + 1))
      BY <2>1, <3>1
    <3> QED BY <2>2, <3>2
  <2>4. (attempt' - 1) * AttemptSecs = Done
    BY <2>2 DEF Done
  <2>5. CASE pc' = "address"
    BY <2>3, <2>4, <2>5
  <2>6. CASE pc' = "probe"
    <3>1. spent' <= AgentSecs + Done + (connect_timeout + 6)
      BY <2>1, <2>2, <2>3
    <3> QED BY <3>1, <2>4, <2>6
  <2> QED BY <2>2, <2>5, <2>6
<1>10. CASE Probe
  <2>1. /\ spent <= AgentSecs + Done + connect_timeout + 6
        /\ Done \in Nat /\ All \in Nat /\ Done + AttemptSecs <= All
    BY <1>10, <1>2, <1>4 DEF Probe
  <2>2. /\ spent' <= AgentSecs + Done + connect_timeout + 10 /\ attempt' = attempt
        /\ pc' \in {"init", "pause", "closed"}
    BY <1>10, <2>1 DEF Probe, NextAttempt
  <2> QED BY <2>1, <2>2 DEF Done, All
<1>11. CASE PauseOver
  <2>1. /\ spent <= AgentSecs + Done + connect_timeout + 10
        /\ Done \in Nat /\ Done + AttemptSecs = attempt * AttemptSecs /\ attempt \in Nat
    BY <1>11, <1>2, <1>4 DEF PauseOver
  <2>2. pc' = "dial" /\ attempt' - 1 = attempt /\ spent' = spent + 2
    BY <1>11, <2>1 DEF PauseOver
  <2>3. (attempt' - 1) * AttemptSecs = Done + AttemptSecs
    BY <2>1, <2>2
  <2>4. spent' <= AgentSecs + (Done + AttemptSecs) + 0
    <3>1. \A s, a, d, c, t \in Nat :
            s <= a + d + c + 10 /\ t = c + 12 => s + 2 <= a + (d + t) + 0
      OBVIOUS
    <3> QED BY <2>1, <2>2, <3>1
  <2> QED BY <2>2, <2>3, <2>4
<1>12. CASE RunInit
  <2>1. /\ spent <= AgentSecs + Done + connect_timeout + 10
        /\ Done \in Nat /\ All \in Nat /\ Done + AttemptSecs <= All
    BY <1>12, <1>2, <1>4 DEF RunInit
  <2>2. spent' <= AgentSecs + All + InitSecs /\ pc' \in {"open", "closed"}
    BY <1>12, <2>1 DEF RunInit
  <2> QED BY <2>2 DEF All
<1>13. CASE Disconnect
  <2>1. CASE pc = "open"
    BY <1>1, <1>13, <2>1 DEF Disconnect
  <2>2. CASE pc # "open"
    <3>1. /\ spent <= AgentSecs + Done + connect_timeout + 10
          /\ Done \in Nat /\ All \in Nat /\ Done + AttemptSecs <= All
      BY <1>13, <2>2, <1>2, <1>4 DEF Disconnect
    <3> QED BY <1>13, <3>1 DEF Disconnect, All
  <2> QED BY <2>1, <2>2
<1>14. CASE UNCHANGED vars
  BY <1>1, <1>14 DEF vars
<1> QED BY <1>6, <1>7, <1>8, <1>9, <1>10, <1>11, <1>12, <1>13, <1>14 DEF Next, Call

\* The inductive invariant, types included.
THEOREM Invariance == Spec => []IInv
<1>1. IInv /\ [Next]_vars => IInv'
  BY TypeStep, ScheduleStep DEF IInv
<1> QED BY Initially, <1>1, PTL DEF Spec

\* No legal number of retries and timeout makes connect run into its own bound.
THEOREM ConnectAlwaysFits == Spec => []ConnectFitsBound
<1>1. IInv => ConnectFitsBound
  <2> SUFFICES ASSUME IInv PROVE spent <= retry_connect_bound
    BY DEF ConnectFitsBound
  <2>1. spent \in Nat /\ retry_connect_bound \in Nat /\ max_retries * AttemptSecs \in Nat
    BY Settings, Durations DEF IInv, TypeOK, retry_connect_bound, Larger
  <2>2. spent <= AgentSecs + max_retries * AttemptSecs + InitSecs
    <3>1. CASE pc \in {"closed", "open"}
      BY <3>1 DEF IInv, OnSchedule
    <3>2. CASE pc \notin {"closed", "open"}
      <4>1. attempt \in Nat /\ attempt >= 1 /\ attempt <= max_retries
        BY <3>2, Settings DEF IInv, TypeOK
      <4>2. /\ (attempt - 1) * AttemptSecs \in Nat
            /\ (attempt - 1) * AttemptSecs + AttemptSecs <= max_retries * AttemptSecs
        BY <4>1, Attempts
      <4>3. InAttempt \in Nat /\ InAttempt <= AttemptSecs
        BY Durations, Settings DEF InAttempt, IInv, TypeOK
      <4>4. spent <= AgentSecs + (attempt - 1) * AttemptSecs + InAttempt
        BY <3>2 DEF IInv, OnSchedule
      <4> QED BY <2>1, <4>2, <4>3, <4>4, Settings, Durations
    <3> QED BY <3>1, <3>2
  <2> QED BY <2>1, <2>2, BoundCovers, Settings
<1> QED BY <1>1, Invariance, PTL

\* The agent is registered once in the life of the adapter.
THEOREM AgentRegisteredOnce == Spec => []AgentOnce
<1> DEFINE Inv == registrations \in Nat /\ (registrations = 0 \/ (registrations = 1 /\ agent))
<1>1. Init => Inv
  BY DEF Init
<1>2. Inv /\ [Next]_vars => Inv'
  BY DEF Next, Call, vars, Connect, RegisterAgent, Dial, WaitForAddress, Probe, PauseOver,
     RunInit, Disconnect
<1>3. Inv => AgentOnce
  BY DEF AgentOnce
<1> HIDE DEF Inv
<1> QED BY <1>1, <1>2, <1>3, PTL DEF Spec

=============================================================================
