----------------------------- MODULE DaemonProofs -----------------------------
(***************************************************************************)
(* Scheduler for every value of its intervals, bounds and limit: IInv is   *)
(* inductive, so `run` always exits disconnected, promptly, and never      *)
(* reuses a link it left in mid-call; the adapter is never called before   *)
(* its pause is over; and the watchdog keeps its contract.                 *)
(*                                                                         *)
(* Then the daemon that main.rs makes of it and of Publisher: both keep    *)
(* their invariants on the common clock, a publish is over when `run`      *)
(* takes it to be, no payload expires before the next cycle, and none      *)
(* survives a sleep.                                                       *)
(***************************************************************************)
EXTENDS Daemon, TLAPS

-----------------------------------------------------------------------------
(* What the helpers compute *)

LEMMA BoundsAreNat == Horizon \in Nat /\ LatencyBound \in Nat
  BY SchedulerAssumption DEF Horizon, LatencyBound, Larger, Positive

LEMMA CountsStayInRange ==
  /\ \A max \in Nat : \A t \in 0..max : CountUp(t, max) \in 0..max
  /\ \A t \in Nat : Countdown(t) \in Nat
  BY DEF CountUp, Countdown

\* A tick moves a unit from what is left to what has passed, or all of the pause is over.
LEMMA TickKeepsSums ==
  \A h \in Nat : \A q, g \in 0..h, t \in Nat :
     /\ q >= g => CountUp(q, h) >= g
     /\ q + t >= g => CountUp(q, h) + Countdown(t) >= g
  BY DEF CountUp, Countdown

-----------------------------------------------------------------------------
(* The Shutdown object inside the scheduler *)

\* Every step of the scheduler is a step of Shutdown, or leaves it alone.
LEMMA ShutdownSteps == [Next]_vars => [S!Next]_shutdownVars
<1> SUFFICES ASSUME [Next]_vars PROVE [S!Next]_shutdownVars
  OBVIOUS
<1>1. CASE SignalThread
  BY <1>1 DEF SignalThread, S!Next
<1>2. CASE Answer
  BY <1>2 DEF Answer, ConnectOk, ConnectErr, PollOk, PollTransient, PollSleeping,
              PollFatal, PollAnswer, LoseLink, Wins, S!Next
<1>3. CASE Step
  BY <1>3 DEF Step, PollWaitFuture, ShutdownBranch, ConnectCheck, StartConnect,
              ConnectTimeout, PauseOver, PollCheck, PaceOver, StartPoll,
              PollTimedOut, PublishDone, DisconnectDone, StartCall, LoseLink, Wins,
              S!Next
<1>4. CASE Tick
  BY <1>4 DEF Tick
<1>5. CASE UNCHANGED vars
  BY <1>5 DEF vars
<1> QED BY <1>1, <1>2, <1>3, <1>4, <1>5 DEF Next

\* Shutdown's own argument, for the scheduler's one waiter.
LEMMA ShutdownInvariant == S!IInv /\ [Next]_vars => S!IInv'
<1> SUFFICES ASSUME S!IInv, [S!Next]_shutdownVars PROVE S!IInv'
  BY ShutdownSteps
<1> USE DEF S!IInv, S!TypeOK, S!ListenersMatch, S!OnlyAfterTrigger, S!NoLostWakeup,
            S!WaitStates, S!ListenerStates
<1>1. CASE S!TriggerStore
  BY <1>1 DEF S!TriggerStore
<1>2. CASE S!TriggerNotify
  BY <1>2 DEF S!TriggerNotify
<1>3. CASE S!Enable(Run)
  BY <1>3 DEF S!Enable
<1>4. CASE S!ReadFlag(Run)
  BY <1>4 DEF S!ReadFlag
<1>5. CASE S!Wake(Run)
  BY <1>5 DEF S!Wake
<1>6. CASE S!Drop(Run)
  BY <1>6 DEF S!Drop
<1>7. CASE UNCHANGED shutdownVars
  BY <1>7 DEF shutdownVars
<1> QED BY <1>1, <1>2, <1>3, <1>4, <1>5, <1>6, <1>7 DEF S!Next, S!Trigger, S!Wait

-----------------------------------------------------------------------------
(* The inductive invariant *)

LEMMA InitIInv == Init => IInv
<1> SUFFICES ASSUME Init PROVE IInv
  OBVIOUS
<1>1. S!IInv
  BY DEF Init, S!Init, S!IInv, S!TypeOK, S!ListenersMatch, S!OnlyAfterTrigger,
         S!NoLostWakeup, S!WaitStates, S!ListenerStates
<1>2. TypeOK
  BY <1>1, BoundsAreNat, SchedulerAssumption
  DEF Init, S!IInv, TypeOK, PcStates, Exits, Adapters, Outcomes, Positive
<1>3. WaitInSelect
  BY DEF Init, S!Init, WaitInSelect
<1>4. LinkMatchesPc /\ OutcomeMatchesPc
  BY DEF Init, LinkMatchesPc, OutcomeMatchesPc, Calls
<1>5. CountBelowLimit
  BY SchedulerAssumption DEF Init, CountBelowLimit, Positive
<1>6. PauseKept
  BY SchedulerAssumption DEF Init, PauseKept, Gap, Calls, Horizon, Larger, Positive
<1>7. OnTime
  <2>1. BeforeExit \in Nat
    BY SchedulerAssumption DEF BeforeExit, Larger
  <2> QED BY <2>1 DEF Init, OnTime
<1> QED BY <1>1, <1>2, <1>3, <1>4, <1>5, <1>6, <1>7 DEF IInv

\* Each step keeps the part of IInv that is about `run` itself.
LEMMA NextRunInv ==
  ASSUME IInv, [Next]_vars, S!IInv'
  PROVE  (TypeOK /\ WaitInSelect /\ LinkMatchesPc /\ OutcomeMatchesPc /\ CountBelowLimit)'
<1> USE SchedulerAssumption, BoundsAreNat
    DEF IInv, TypeOK, WaitInSelect, LinkMatchesPc, OutcomeMatchesPc, CountBelowLimit,
        PcStates, Selects, Exits, Adapters, Calls, Outcomes, Positive, historyVars,
        shutdownVars
<1>0. /\ S!TypeOK /\ S!TypeOK'
      /\ wait[Run] \in S!WaitStates
      /\ Bump \in 0..MaxCount
      /\ cycles < CycleFailureLimit => Bump = cycles + 1
  <2>1. S!TypeOK /\ S!TypeOK' /\ wait[Run] \in S!WaitStates
    BY DEF S!IInv, S!TypeOK
  <2>2. /\ Bump \in 0..MaxCount
        /\ cycles < CycleFailureLimit => Bump = cycles + 1
    <3>1. MaxCount \in Nat /\ CycleFailureLimit \in Nat /\ CycleFailureLimit <= MaxCount
      OBVIOUS
    <3>2. cycles \in 0..MaxCount
      OBVIOUS
    <3> QED BY ONLY <3>1, <3>2 DEF Bump, CountUp
  <2> QED BY <2>1, <2>2
<1>1. CASE SignalThread
  BY <1>0, <1>1 DEF SignalThread, S!Trigger, S!TriggerStore, S!TriggerNotify
<1>2. CASE PollWaitFuture
  BY <1>0, <1>2 DEF PollWaitFuture, S!Wait, S!Enable, S!ReadFlag, S!Wake, S!TypeOK
<1>3. CASE ShutdownBranch
  BY <1>0, <1>3 DEF ShutdownBranch, S!Drop, S!TypeOK, Disconnect
<1>4. CASE ConnectCheck
  BY <1>0, <1>4 DEF ConnectCheck, GoTo, Disconnect
<1>5. CASE StartConnect
  BY <1>0, <1>5 DEF StartConnect, StartCall, StillWaiting
<1>6. CASE ConnectOk \/ ConnectErr \/ ConnectTimeout
  BY <1>0, <1>6 DEF ConnectOk, ConnectErr, ConnectTimeout, Wins, S!Drop, S!TypeOK, Ended,
                    GoTo, Disconnect
<1>7. CASE PauseOver \/ PaceOver
  BY <1>0, <1>7 DEF PauseOver, PaceOver, Wins, S!Drop, S!TypeOK, GoTo
<1>8. CASE PollCheck
  BY <1>0, <1>8 DEF PollCheck, GoTo, Disconnect
<1>9. CASE StartPoll
  BY <1>0, <1>9 DEF StartPoll, StartCall, StillWaiting
<1>10. CASE PollOk \/ PollSleeping
  BY <1>0, <1>10 DEF PollOk, PollSleeping, PollAnswer, Wins, S!Drop, S!TypeOK, Ended, GoTo
<1>11. CASE PollTransient
  BY <1>0, <1>11 DEF PollTransient, PollAnswer, Wins, S!Drop, S!TypeOK, Ended,
                     CountFruitless, WatchdogShouldFire, GoTo, Disconnect
<1>12. CASE PublishDone
  BY <1>0, <1>12 DEF PublishDone, CountFruitless, WatchdogShouldFire, GoTo, Disconnect
<1>13. CASE PollFatal \/ PollTimedOut
  BY <1>0, <1>13 DEF PollFatal, PollTimedOut, LoseLink, Wins, S!Drop, S!TypeOK, Ended,
                     Disconnect
<1>14. CASE DisconnectDone
  BY <1>0, <1>14 DEF DisconnectDone, GoTo
<1>15. CASE Tick
  <2>1. timer' \in Nat /\ pollWait' \in Nat /\ quiet' \in 0..Horizon
    BY <1>15, CountsStayInRange DEF Tick
  <2>2. overdue' \in 0..(LatencyBound + 1)
    <3>1. LatencyBound + 1 \in Nat /\ overdue \in 0..(LatencyBound + 1)
      OBVIOUS
    <3>2. CountUp(overdue, LatencyBound + 1) \in 0..(LatencyBound + 1)
      BY ONLY <3>1, CountsStayInRange
    <3> QED BY <1>15, <3>1, <3>2 DEF Tick
  <2> QED BY <1>0, <1>15, <2>1, <2>2 DEF Tick
<1>16. CASE UNCHANGED vars
  BY <1>0, <1>16 DEF vars
<1> QED
  BY <1>1, <1>2, <1>3, <1>4, <1>5, <1>6, <1>7, <1>8, <1>9, <1>10, <1>11, <1>12, <1>13,
     <1>14, <1>15, <1>16 DEF Next, Answer, Step

LEMMA GapIsNat == \A o \in Outcomes : Gap(o) \in 0..Horizon
  BY SchedulerAssumption DEF Gap, Horizon, Larger, Positive

\* Each step keeps the account of the pauses.
LEMMA NextPauseKept ==
  ASSUME IInv, [Next]_vars
  PROVE  PauseKept'
<1>0. /\ timer \in Nat /\ pollWait \in Nat /\ quiet \in 0..Horizon
      /\ Horizon \in Nat /\ Gap(last) \in 0..Horizon
      /\ PollInterval \in Nat /\ SleepInterval \in Nat
  BY BoundsAreNat, GapIsNat, SchedulerAssumption DEF IInv, TypeOK, Positive
<1> USE <1>0 DEF IInv, LinkMatchesPc, OutcomeMatchesPc, PauseKept, Selects, Exits, Calls,
                 shutdownVars, historyVars
<1>1. CASE SignalThread \/ PollWaitFuture
  BY <1>1 DEF SignalThread, PollWaitFuture
<1>2. CASE ShutdownBranch
  BY <1>2 DEF ShutdownBranch, Disconnect
<1>3. CASE ConnectCheck
  BY <1>3 DEF ConnectCheck, GoTo, Disconnect
<1>4. CASE StartConnect \/ StartPoll
  BY <1>4 DEF StartConnect, StartPoll, StartCall
<1>5. CASE ConnectOk
  BY <1>5 DEF ConnectOk, Wins, Ended, GoTo, Gap
<1>6. CASE ConnectErr
  BY <1>6 DEF ConnectErr, Wins, Ended, GoTo, Gap
<1>7. CASE ConnectTimeout
  BY <1>7 DEF ConnectTimeout, Wins, Ended, Disconnect
<1>8. CASE PauseOver
  BY <1>8 DEF PauseOver, Wins, GoTo
<1>9. CASE PaceOver
  BY <1>9 DEF PaceOver, Wins, GoTo
<1>10. CASE PollCheck
  BY <1>10 DEF PollCheck, GoTo, Disconnect
<1>11. CASE PollOk
  BY <1>11 DEF PollOk, PollAnswer, Wins, Ended
<1>12. CASE PollTransient
  BY <1>12 DEF PollTransient, PollAnswer, Wins, Ended, CountFruitless, GoTo, Disconnect, Gap
<1>13. CASE PollSleeping
  BY <1>13 DEF PollSleeping, PollAnswer, Wins, Ended, GoTo, Gap
<1>14. CASE PublishDone
  BY <1>14 DEF PublishDone, CountFruitless, GoTo, Disconnect, Gap
<1>15. CASE PollFatal \/ PollTimedOut
  BY <1>15 DEF PollFatal, PollTimedOut, LoseLink, Wins, Ended, Disconnect
<1>16. CASE DisconnectDone
  <2>1. CASE after \in Exits
    BY <1>16, <2>1 DEF DisconnectDone, GoTo
  <2>2. CASE after \in {"retry", "lost"}
    <3>1. last' \in {"refused", "lost"} /\ Gap(last') = PollInterval
      BY <1>16, <2>2 DEF DisconnectDone, Gap
    <3>2. pc' \in {"retry", "lost"} /\ timer' = PollInterval /\ quiet' = quiet
      BY <1>16, <2>2 DEF DisconnectDone, GoTo
    <3> QED BY <3>1, <3>2
  <2> QED BY <2>1, <2>2 DEF TypeOK
<1>17. CASE Tick
  <2>1. pc' = pc /\ after' = after /\ adapter' = adapter /\ last' = last
    BY <1>17 DEF Tick
  <2>2. Gap(last') = Gap(last)
    BY <2>1
  <2>3. /\ quiet >= Gap(last) => quiet' >= Gap(last)
        /\ quiet + timer >= Gap(last) => quiet' + timer' >= Gap(last)
        /\ quiet + pollWait >= Gap(last) => quiet' + pollWait' >= Gap(last)
    BY <1>17, TickKeepsSums DEF Tick
  <2> QED BY <2>1, <2>2, <2>3
<1>18. CASE UNCHANGED vars
  BY <1>18 DEF vars
<1> QED
  BY <1>1, <1>2, <1>3, <1>4, <1>5, <1>6, <1>7, <1>8, <1>9, <1>10, <1>11, <1>12, <1>13,
     <1>14, <1>15, <1>16, <1>17, <1>18 DEF Next, Answer, Step

\* A pending wait has not been notified: nobody has been waiting for the stop.
LEMMA PendingMeansInTime ==
  IInv /\ Prompt /\ StillWaiting => overdue = 0
  BY BoundsAreNat DEF IInv, OnTime, TypeOK

\* Once a trigger has finished, a wait that has been polled has its answer.
LEMMA NobodyWaitsOn ==
  ASSUME IInv, ~running, [Next]_vars, StillWaiting'
  PROVE  StillWaiting
<1>1. [S!Next]_shutdownVars
  BY ShutdownSteps
<1>2. wait \in [{Run} -> S!WaitStates] /\ listener \in [{Run} -> S!ListenerStates]
  BY DEF IInv, S!IInv, S!TypeOK
<1> QED BY <1>1, <1>2 DEF S!Next, S!Trigger, S!TriggerStore, S!TriggerNotify, S!Wait,
        S!Enable, S!ReadFlag, S!Wake, S!Drop, StillWaiting, shutdownVars

\* Each step keeps the account of the time since the trigger.
LEMMA NextOnTime ==
  ASSUME IInv, [Next]_vars
  PROVE  OnTime'
<1> SUFFICES ASSUME Prompt
             PROVE  /\ overdue' > 0 => ~running' /\ ~StillWaiting'
                    /\ pc' \notin {"disconnect", "exit"} => overdue' <= BeforeExit
                    /\ pc' = "publish" \/ (pc' = "disconnect" /\ after' \notin Exits)
                          => overdue' + timer' <= BeforeExit
                    /\ pc' = "disconnect" => overdue' + timer' <= LatencyBound
  BY DEF OnTime
<1>0. /\ BeforeExit \in Nat /\ LatencyBound = BeforeExit + DisconnectBound
      /\ PublishBound \in Nat /\ DisconnectBound \in Nat
      /\ PublishBound <= BeforeExit /\ DisconnectBound <= BeforeExit
      /\ timer \in Nat /\ overdue \in 0 .. LatencyBound + 1
  BY SchedulerAssumption, BoundsAreNat
  DEF BeforeExit, LatencyBound, Larger, IInv, TypeOK
<1>1. /\ overdue > 0 => ~running /\ ~StillWaiting
      /\ pc \notin {"disconnect", "exit"} => overdue <= BeforeExit
      /\ pc = "publish" \/ (pc = "disconnect" /\ after \notin Exits)
            => overdue + timer <= BeforeExit
      /\ pc = "disconnect" => overdue + timer <= LatencyBound
      /\ StillWaiting => overdue = 0
  BY PendingMeansInTime DEF IInv, OnTime
<1>2. running' => running
  BY ShutdownSteps DEF S!Next, S!Trigger, S!TriggerStore, S!TriggerNotify, S!Wait,
        S!Enable, S!ReadFlag, S!Wake, S!Drop, shutdownVars
<1>3. ~running => (StillWaiting' => StillWaiting)
  BY NobodyWaitsOn
<1>4. CASE Tick
  <2>1. /\ pc' = pc /\ after' = after /\ pc # "exit" /\ ~Runnable
        /\ running' = running /\ trigger' = trigger /\ timer' = Countdown(timer)
        /\ StillWaiting' = StillWaiting
        /\ overdue' = IF ~running /\ trigger = "idle"
                        THEN CountUp(overdue, LatencyBound + 1) ELSE overdue
    BY <1>4 DEF Tick, shutdownVars, StillWaiting
  <2>2. CASE ~running /\ trigger = "idle"
    <3>1. ~StillWaiting
      BY <2>2 DEF StillWaiting, IInv, S!IInv, S!NoLostWakeup
    <3>2. pc \in {"publish", "disconnect"} /\ timer > 0
      BY <1>0, <2>1, <3>1 DEF Runnable, IInv, TypeOK, PcStates
    <3>3. timer' = timer - 1 /\ overdue' <= overdue + 1 /\ overdue' \in Nat
      BY <1>0, <2>1, <3>2 DEF Countdown, CountUp
    <3> QED BY <1>0, <1>1, <2>1, <2>2, <3>1, <3>2, <3>3
  <2>3. CASE ~(~running /\ trigger = "idle")
    <3>1. overdue' = overdue /\ timer' <= timer /\ timer' \in Nat
      BY <1>0, <2>1, <2>3 DEF Countdown
    <3> QED BY <1>0, <1>1, <2>1, <3>1
  <2> QED BY <2>2, <2>3
<1>5. CASE ~Tick
  <2>1. overdue' = overdue
    BY <1>5 DEF Next, Answer, Step, vars, SignalThread, PollWaitFuture, ShutdownBranch,
         ConnectCheck, ConnectOk, ConnectErr, ConnectTimeout, PauseOver, PollCheck, PaceOver,
         PollOk, PollTransient, PollSleeping, PollAnswer, PublishDone, PollFatal, PollTimedOut,
         LoseLink, DisconnectDone, StartConnect, StartPoll, StartCall
  <2>2. overdue' > 0 => ~running' /\ ~StillWaiting'
    BY <1>1, <1>2, <1>3, <2>1
  <2> SUFFICES /\ pc' \notin {"disconnect", "exit"} => overdue <= BeforeExit
               /\ pc' = "publish" \/ (pc' = "disconnect" /\ after' \notin Exits)
                     => overdue + timer' <= BeforeExit
               /\ pc' = "disconnect" => overdue + timer' <= LatencyBound
    BY <2>1, <2>2
  <2> USE <1>0, <1>1
  <2>3. CASE UNCHANGED <<pc, after, timer>>
    BY <2>3
  <2>4. CASE pc \notin {"disconnect", "exit"} /\ pc' \notin {"disconnect", "publish"}
    BY <2>4
  <2>5. ASSUME StillWaiting,
               \/ pc' = "publish" /\ timer' = PublishBound
               \/ pc' = "disconnect" /\ timer' = DisconnectBound
        PROVE  /\ pc' \notin {"disconnect", "exit"} => overdue <= BeforeExit
               /\ pc' = "publish" \/ (pc' = "disconnect" /\ after' \notin Exits)
                     => overdue + timer' <= BeforeExit
               /\ pc' = "disconnect" => overdue + timer' <= LatencyBound
    <3>1. overdue = 0
      BY <2>5
    <3>2. CASE pc' = "publish" /\ timer' = PublishBound
      BY <3>1, <3>2
    <3>3. CASE pc' = "disconnect" /\ timer' = DisconnectBound
      BY <3>1, <3>3
    <3> QED BY <2>5, <3>2, <3>3
  <2>6. CASE pc \notin {"disconnect", "exit"} /\ pc' = "disconnect"
             /\ timer' = DisconnectBound /\ after' \in Exits
    BY <2>6
  <2>7. CASE DisconnectDone
    <3>1. pc = "disconnect" /\ pc' # "disconnect" /\ pc' # "publish"
          /\ (after \in Exits => pc' = "exit")
      BY <2>7 DEF DisconnectDone, GoTo, IInv, TypeOK, Exits
    <3> QED BY <3>1
  <2> HIDE <1>0, <1>1
  <2>8. CASE SignalThread \/ PollWaitFuture \/ StartConnect \/ StartPoll \/ UNCHANGED vars
    BY <2>3, <2>8 DEF SignalThread, PollWaitFuture, StartConnect, StartPoll, StartCall, vars
  <2>9. CASE ConnectOk \/ ConnectErr \/ PauseOver \/ PaceOver \/ PollSleeping
    BY <2>4, <2>9 DEF ConnectOk, ConnectErr, PauseOver, PaceOver, PollSleeping, PollAnswer,
                      Wins, GoTo
  <2>10. CASE ConnectTimeout \/ PollOk \/ PollFatal \/ PollTimedOut
    <3>1. StillWaiting
      BY <2>10 DEF ConnectTimeout, PollOk, PollAnswer, PollFatal, PollTimedOut, LoseLink, Wins
    <3>2. \/ pc' = "publish" /\ timer' = PublishBound
          \/ pc' = "disconnect" /\ timer' = DisconnectBound
      BY <2>10 DEF ConnectTimeout, PollOk, PollFatal, PollTimedOut, LoseLink, Disconnect
    <3> QED BY <2>5, <3>1, <3>2
  <2>11. CASE ShutdownBranch \/ ConnectCheck \/ PollCheck \/ PollTransient \/ PublishDone
    BY <2>4, <2>6, <2>11 DEF ShutdownBranch, ConnectCheck, PollCheck, PollTransient,
         PollAnswer, Wins, PublishDone, CountFruitless, GoTo, Disconnect, Exits, Selects
  <2> QED BY <1>5, <2>7, <2>8, <2>9, <2>10, <2>11 DEF Next, Answer, Step
<1> QED BY <1>4, <1>5

LEMMA NextIInv == IInv /\ [Next]_vars => IInv'
  BY ShutdownInvariant, NextRunInv, NextPauseKept, NextOnTime DEF IInv

(* IInv holds in every reachable state. *)
THEOREM Invariance == Spec => []IInv
  BY InitIInv, NextIInv, PTL DEF Spec

(***************************************************************************)
(* The stop is prompt, whatever the intervals, the bounds and the adapter: *)
(* it waits for no pause and no call, only for a publish and a disconnect  *)
(* under way and for the last disconnect.                                  *)
(***************************************************************************)
THEOREM StopIsPrompt == Spec => []ShutdownIsPrompt
<1>1. IInv => ShutdownIsPrompt
  <2> SUFFICES ASSUME IInv, Prompt, pc # "exit" PROVE overdue <= LatencyBound
    BY DEF ShutdownIsPrompt
  <2>1. /\ BeforeExit \in Nat /\ LatencyBound = BeforeExit + DisconnectBound
        /\ DisconnectBound \in Nat /\ timer \in Nat /\ overdue \in Nat
    BY SchedulerAssumption, BoundsAreNat
    DEF BeforeExit, LatencyBound, Larger, IInv, TypeOK
  <2> QED BY <2>1 DEF IInv, OnTime
<1> QED BY <1>1, Invariance, PTL

(***************************************************************************)
(* `run` returns only with the adapter disconnected, whatever the adapter  *)
(* answers and whenever the signal comes.                                  *)
(***************************************************************************)
THEOREM ExitIsDisconnected == Spec => []ExitsDisconnected
<1>1. IInv => ExitsDisconnected
  BY DEF IInv, LinkMatchesPc, ExitsDisconnected
<1> QED BY <1>1, Invariance, PTL

-----------------------------------------------------------------------------
(* Action properties *)

\* A step that begins a call is StartConnect on a closed link, or StartPoll on an open one.
LEMMA CallsBegin ==
  ASSUME IInv, [Next]_vars, adapter' \in Calls, adapter' # adapter
  PROVE  \/ StartConnect /\ pc = "connect" /\ adapter = "closed" /\ adapter' = "connecting"
         \/ StartPoll /\ pc = "poll" /\ adapter = "open" /\ adapter' = "polling"
<1>1. \/ StartConnect \/ StartPoll
  BY DEF Next, Answer, Step, vars, SignalThread, PollWaitFuture, ShutdownBranch, ConnectCheck,
         ConnectOk, ConnectErr, ConnectTimeout, PauseOver, PollCheck, PaceOver, PollOk,
         PollTransient, PollSleeping, PollAnswer, PublishDone, PollFatal, PollTimedOut,
         LoseLink, DisconnectDone, Tick, Calls
<1> QED BY <1>1 DEF StartConnect, StartPoll, StartCall, IInv, LinkMatchesPc, Calls

(***************************************************************************)
(* The contract of trait Adapter: no call on a link that was lost or left  *)
(* in mid-call, until a disconnect.                                        *)
(***************************************************************************)
THEOREM ReuseNeedsDisconnect == Spec => NoReuseWithoutDisconnect
<1>1. IInv /\ [Next]_vars =>
        [/\ adapter' = "connecting" => adapter \in {"closed", "connecting"}
         /\ adapter' = "polling" => adapter \in {"open", "polling"}]_vars
  BY CallsBegin DEF Calls
<1> QED BY <1>1, Invariance, PTL DEF Spec, NoReuseWithoutDisconnect

(***************************************************************************)
(* Pacing, for every choice of the intervals: no call begins before the    *)
(* pause that the end of the last one asks for.                            *)
(***************************************************************************)
THEOREM CallsArePaced == Spec => Paced
<1>1. IInv /\ [Next]_vars =>
        [adapter' \in Calls /\ adapter \notin Calls => quiet >= Gap(last)]_vars
  BY CallsBegin DEF IInv, PauseKept, Calls
<1> QED BY <1>1, Invariance, PTL DEF Spec, Paced

(***************************************************************************)
(* After a finished trigger no call begins: a pending wait has been        *)
(* notified by then.                                                       *)
(***************************************************************************)
THEOREM ShutdownStopsCalls == Spec => NoCallAfterShutdown
<1>1. IInv /\ [Next]_vars =>
        [~running /\ trigger = "idle" =>
           ~(adapter' \in Calls /\ adapter \notin Calls)]_vars
  <2>1. ASSUME IInv, StartConnect \/ StartPoll, ~running, trigger = "idle" PROVE FALSE
    BY <2>1 DEF StartConnect, StartPoll, StartCall, StillWaiting, IInv, S!IInv,
                S!NoLostWakeup
  <2> QED BY <2>1, CallsBegin DEF Calls
<1> QED BY <1>1, Invariance, PTL DEF Spec, NoCallAfterShutdown
-----------------------------------------------------------------------------
(* The scheduler implements CycleHealth *)

\* A cycle counted as fruitless is one more, and at the limit it is the trip.
LEMMA CountedCycle ==
  ASSUME IInv, CountFruitless, pc \notin {"disconnect", "exit"}, CycleFailureLimit > 0
  PROVE  /\ cycles' = cycles + 1
         /\ IF cycles + 1 = CycleFailureLimit
              THEN pc' = "disconnect" /\ after' = "exit_watchdog"
              ELSE pc' = "poll_check"
<1>1. /\ CycleFailureLimit \in Nat /\ MaxCount \in Nat /\ CycleFailureLimit <= MaxCount
      /\ cycles \in Nat /\ cycles < CycleFailureLimit
  BY SchedulerAssumption DEF IInv, TypeOK, CountBelowLimit
<1>2. Bump = cycles + 1
  BY <1>1 DEF Bump, CountUp
<1>3. WatchdogShouldFire(Bump) <=> cycles + 1 = CycleFailureLimit
  BY <1>1, <1>2 DEF WatchdogShouldFire
<1> QED BY <1>2, <1>3 DEF CountFruitless, Disconnect, GoTo

\* Every step is a step of CycleHealth, or leaves all that CycleHealth sees alone.
LEMMA HealthSteps ==
  ASSUME IInv, [Next]_vars
  PROVE  [Health!Next]_(Health!vars)
<1> USE DEF Exits, shutdownVars, historyVars, Health!vars
<1>0. CycleFailureLimit \in Nat
  BY SchedulerAssumption
<1>1. CASE SignalThread
  BY <1>1 DEF SignalThread, S!Trigger, S!TriggerStore, S!TriggerNotify, Health!Next, Health!Ask
<1>2. CASE PollWaitFuture
  BY <1>2 DEF PollWaitFuture, S!Wait, S!Enable, S!ReadFlag, S!Wake
<1>3. CASE ShutdownBranch
  <2>1. ~running
    BY <1>3 DEF ShutdownBranch, IInv, S!IInv, S!OnlyAfterTrigger
  <2>2. /\ pc \in Selects /\ pc' \in {"disconnect", "exit"} /\ after' = "exit_clean"
        /\ UNCHANGED <<running, cycles, last>>
    BY <1>3 DEF ShutdownBranch, S!Drop, Disconnect
  <2> QED BY <2>1, <2>2 DEF Selects, Health!Next, Health!Stop
<1>4. CASE ConnectCheck
  BY <1>4 DEF ConnectCheck, GoTo, Disconnect, Health!Next, Health!Stop
<1>5. CASE PollCheck
  BY <1>5 DEF PollCheck, GoTo, Disconnect, Health!Next, Health!Stop
<1>6. CASE StartConnect \/ StartPoll
  BY <1>6 DEF StartConnect, StartPoll, StartCall
<1>7. CASE ConnectOk \/ ConnectErr \/ ConnectTimeout \/ PollFatal \/ PollTimedOut
  <2>1. /\ pc \in {"connect", "poll"}
        /\ \/ pc' \in {"poll_check", "retry"}
           \/ pc' = "disconnect" /\ after' \notin Exits
        /\ last' \in {"connected", "refused", "lost"}
        /\ UNCHANGED <<running, cycles>>
    BY <1>7 DEF ConnectOk, ConnectErr, ConnectTimeout, PollFatal, PollTimedOut, LoseLink, Wins,
                S!Drop, Ended, GoTo, Disconnect
  <2> QED BY <2>1 DEF Health!Next, Health!Hear, Health!Outcomes
<1>8. CASE PauseOver \/ PaceOver
  BY <1>8 DEF PauseOver, PaceOver, Wins, S!Drop, GoTo
<1>9. CASE PollOk
  <2>1. /\ pc = "poll" /\ pc' = "publish" /\ last' \in {"data", "empty"}
        /\ UNCHANGED <<running, cycles>>
    BY <1>9 DEF PollOk, PollAnswer, Wins, S!Drop, Ended
  <2> QED BY <2>1 DEF Health!Next, Health!Hear, Health!Outcomes
<1>10. CASE PollSleeping
  <2>1. /\ pc = "poll" /\ pc' = "poll_check" /\ last' = "asleep" /\ cycles' = 0
        /\ UNCHANGED running
    BY <1>10 DEF PollSleeping, PollAnswer, Wins, S!Drop, Ended, GoTo
  <2> QED BY <2>1, <1>0 DEF Health!Next, Health!HealthyCycle
<1>11. ASSUME CountFruitless, pc \notin {"disconnect", "exit"}, last' \in {"empty", "transient"},
              UNCHANGED running
       PROVE  Health!FruitlessCycle \/ Health!Hear
  <2>1. CASE CycleFailureLimit > 0
    BY <1>11, <2>1, CountedCycle DEF Health!FruitlessCycle
  <2>2. CASE ~(CycleFailureLimit > 0)
    <3>1. pc' = "poll_check"
      BY <1>11, <2>2 DEF CountFruitless, WatchdogShouldFire, GoTo
    <3> QED BY <1>11, <2>2, <3>1 DEF Health!Hear, Health!Outcomes
  <2> QED BY <2>1, <2>2
<1>12. CASE PollTransient
  <2>1. pc = "poll" /\ last' = "transient" /\ UNCHANGED running /\ CountFruitless
    BY <1>12 DEF PollTransient, PollAnswer, Wins, S!Drop, Ended
  <2> QED BY <2>1, <1>11 DEF Health!Next
<1>13. CASE PublishDone
  <2>1. CASE last = "empty"
    <3>1. pc = "publish" /\ last' = "empty" /\ UNCHANGED running /\ CountFruitless
      BY <1>13, <2>1 DEF PublishDone
    <3> QED BY <3>1, <1>11 DEF Health!Next
  <2>2. CASE last = "data"
    <3>1. /\ pc = "publish" /\ pc' = "poll_check" /\ last' = "data" /\ cycles' = 0
          /\ UNCHANGED running
      BY <1>13, <2>2 DEF PublishDone, GoTo
    <3> QED BY <3>1, <1>0 DEF Health!Next, Health!HealthyCycle
  <2> QED BY <1>13, <2>1, <2>2 DEF PublishDone
<1>14. CASE DisconnectDone
  BY <1>14 DEF DisconnectDone, GoTo, IInv, TypeOK
<1>15. CASE Tick
  BY <1>15 DEF Tick
<1>16. CASE UNCHANGED vars
  BY <1>16 DEF vars
<1> QED
  BY <1>1, <1>2, <1>3, <1>4, <1>5, <1>6, <1>7, <1>8, <1>9, <1>10, <1>12, <1>13, <1>14,
     <1>15, <1>16 DEF Next, Answer, Step

(***************************************************************************)
(* The watchdog and the exit code keep the README's promise for every      *)
(* limit: `run` implements CycleHealth.  Lost links and failed connects    *)
(* neither count nor reset, and the only ways out are the trip and a       *)
(* requested stop.                                                         *)
(***************************************************************************)
THEOREM KeepsWatchdogContract == Spec => WatchdogContract
<1>1. Init => Health!Init
  BY SchedulerAssumption DEF Init, S!Init, Health!Init, Exits
<1>2. IInv /\ [Next]_vars => [Health!Next]_(Health!vars)
  BY HealthSteps
<1> QED BY <1>1, <1>2, Invariance, PTL DEF Spec, WatchdogContract, Health!Spec

-----------------------------------------------------------------------------
(* The publisher of the daemon is Publisher, with what is proved of that *)

PP == INSTANCE PublisherProofs WITH timer <- request

LEMMA PublisherConstants ==
  /\ PP!BreakerAssumption /\ PP!PublisherAssumption
  /\ P!Endpoints = PP!Endpoints /\ Len(Order) \in Nat /\ RequestTimeout \in Nat
  /\ P!LongestPublish \in Nat /\ P!ReplayLimit \in Nat /\ P!TripCount \in Nat \ {0}
<1>1. PP!BreakerAssumption /\ PP!PublisherAssumption /\ P!Endpoints = PP!Endpoints
  BY DaemonAssumption DEF P!BreakerAssumption, P!PublisherAssumption, PP!BreakerAssumption,
     PP!PublisherAssumption, P!Endpoints, PP!Endpoints
<1>2. /\ Len(Order) \in Nat /\ RequestTimeout \in Nat
      /\ PP!LongestPublish \in Nat /\ PP!ReplayLimit \in Nat /\ PP!TripCount \in Nat \ {0}
  BY <1>1, PP!LenIsNat, PP!BoundsAreNat, PP!LongestPublishIsNat
  DEF PP!BreakerAssumption, PP!PublisherAssumption
<1> QED BY <1>1, <1>2 DEF P!LongestPublish, PP!LongestPublish, P!ReplayLimit, PP!ReplayLimit,
        P!Larger, PP!Larger, P!TripCount, PP!TripCount

LEMMA SameInit == P!Init <=> PP!Init
  BY DEF P!Init, PP!Init, P!NewBreaker, PP!NewBreaker, P!Empty, PP!Empty, P!Endpoints, PP!Endpoints

LEMMA SameInv == (P!IInv <=> PP!IInv) /\ (P!IInv' <=> PP!IInv')
  BY DEF P!IInv, PP!IInv, P!TypeOK, PP!TypeOK, P!BreakerTracksAnswers, PP!BreakerTracksAnswers,
     P!CacheTracksGood, PP!CacheTracksGood, P!InflightExplained, PP!InflightExplained,
     P!OnSchedule, PP!OnSchedule, P!Breakers, PP!Breakers, P!TripCount, PP!TripCount,
     P!Slots, PP!Slots, P!Goods, PP!Goods, P!Payloads, PP!Payloads, P!MaxAge, PP!MaxAge,
     P!ReplayLimit, PP!ReplayLimit, P!Larger, PP!Larger, P!LongestPublish, PP!LongestPublish,
     P!Endpoints, PP!Endpoints, P!Tracks, PP!Tracks, P!Current, PP!Current,
     P!Replays, PP!Replays

LEMMA SameNext == [P!Next]_(P!vars) <=> [PP!Next]_(PP!vars)
  BY DEF P!Next, PP!Next, P!vars, PP!vars, P!historyVars, PP!historyVars,
     P!StartPublish, PP!StartPublish, P!HandleEndpoint, PP!HandleEndpoint, P!PostOk, PP!PostOk,
     P!PostFailed, PP!PostFailed, P!OnSleeping, PP!OnSleeping,
     P!ServerChanges, PP!ServerChanges, P!Tick, PP!Tick, P!Advance, PP!Advance,
     P!TakeFresh, PP!TakeFresh, P!Payload, PP!Payload, P!Empty, PP!Empty, P!Allow, PP!Allow,
     P!NewBreaker, PP!NewBreaker, P!RecordSuccess, PP!RecordSuccess,
     P!RecordFailure, PP!RecordFailure, P!Older, PP!Older, P!Aged, PP!Aged,
     P!Runnable, PP!Runnable, P!TripCount, PP!TripCount, P!MaxAge, PP!MaxAge,
     P!ReplayLimit, PP!ReplayLimit, P!Larger, PP!Larger, P!LongestPublish, PP!LongestPublish,
     P!Endpoints, PP!Endpoints, P!Current, PP!Current, P!Replays, PP!Replays

LEMMA PublisherKeeps ==
  /\ P!Init => P!IInv
  /\ P!IInv /\ [P!Next]_(P!vars) => P!IInv'
<1>1. PP!Init => PP!IInv
  BY PublisherConstants, PP!InitIInv DEF PP!BreakerAssumption, PP!PublisherAssumption
<1>2. PP!IInv /\ [PP!Next]_(PP!vars) => PP!IInv'
  BY PublisherConstants, PP!NextIInv DEF PP!BreakerAssumption, PP!PublisherAssumption
<1> QED BY <1>1, <1>2, SameInit, SameInv, SameNext

\* The i-th endpoint is like no other.
LEMMA EachHasItsTurn ==
  /\ \A i \in Turns : Order[i] \in P!Endpoints
  /\ \A i, j \in Turns : Order[i] = Order[j] => i = j
  /\ \A e \in P!Endpoints : \E i \in Turns : e = Order[i]
  /\ Replayable \subseteq P!Endpoints
  BY DaemonAssumption DEF P!PublisherAssumption, P!Endpoints, Turns

\* What the publisher's invariant says of one endpoint.
LEMMA EndpointFacts ==
  ASSUME P!IInv
  PROVE  /\ k \in 0..Len(Order) /\ request \in 0..RequestTimeout /\ spent \in Nat
         /\ k = 0 => inflight = NoValue
         /\ \A e \in P!Endpoints : good[e].age \in Nat /\ good[e].slept \in BOOLEAN
         /\ DOMAIN good = P!Endpoints /\ DOMAIN failRun = P!Endpoints
         /\ \A e \in P!Endpoints : failRun[e] \in Nat
<1>1. P!MaxAge \in Nat
  BY PublisherConstants DEF P!MaxAge
<1>2. P!TypeOK
  BY DEF P!IInv
<1>3. \A e \in P!Endpoints : good[e] \in P!Goods
  BY <1>2 DEF P!TypeOK
<1>4. \A g \in P!Goods : g.age \in Nat /\ g.slept \in BOOLEAN
  BY <1>1 DEF P!Goods
<1>5. \A e \in P!Endpoints : failRun[e] \in Nat
  BY <1>2, PublisherConstants DEF P!TypeOK
<1>6. k \in 0..Len(Order) /\ request \in 0..RequestTimeout /\ spent \in Nat
  BY <1>2, PublisherConstants DEF P!TypeOK
<1>7. k = 0 => inflight = NoValue
  BY DEF P!IInv, P!InflightExplained
<1> QED BY <1>2, <1>3, <1>4, <1>5, <1>6, <1>7 DEF P!TypeOK

\* A payload gets older by one at most, and keeps everything else.
LEMMA AgesKeepTheRest ==
  ASSUME P!IInv, NEW e \in P!Endpoints
  PROVE  /\ P!Aged(good[e]).value = good[e].value /\ P!Aged(good[e]).slept = good[e].slept
         /\ P!Aged(good[e]).age \in Nat /\ P!Aged(good[e]).age <= good[e].age + 1
<1>1. good[e] \in P!Goods /\ good[e].age \in Nat
  BY EndpointFacts DEF P!IInv, P!TypeOK
<1> QED BY <1>1 DEF P!Aged, P!Goods

LEMMA EachIsCurrent ==
  ASSUME P!IInv, k # 0
  PROVE  k \in Turns /\ P!Current = Order[k] /\ P!Current \in P!Endpoints
<1>1. k \in Turns
  BY EndpointFacts, PublisherConstants DEF Turns
<1> QED BY <1>1, EachHasItsTurn DEF P!Current

-----------------------------------------------------------------------------
(* Each part of the daemon makes its own steps *)

LEMMA PartsStep == [Steps]_daemonVars => [Next]_vars /\ [P!Next]_(P!vars)
<1> SUFFICES ASSUME [Steps]_daemonVars PROVE [Next]_vars /\ [P!Next]_(P!vars)
  OBVIOUS
<1>1. UNCHANGED publisherVars => UNCHANGED P!vars
  BY DEF publisherVars, P!vars, P!historyVars
<1>2. CASE Publish
  BY <1>2 DEF Publish, Next, Answer, P!Next
<1>3. CASE Sleeping
  BY <1>3 DEF Sleeping, Next, Answer, P!Next
<1>4. CASE PollFailed
  BY <1>1, <1>4 DEF PollFailed, Next, Answer, Step
<1>5. CASE Publishing
  BY <1>5 DEF Publishing, P!Next
<1>6. CASE Published
  BY <1>1, <1>6 DEF Published, Next, Step
<1>7. CASE Running
  BY <1>1, <1>7 DEF Running, Next, Answer, Step
<1>8. CASE Server
  BY <1>8 DEF Server, P!Next
<1>9. CASE Time
  BY <1>9 DEF Time, Next, P!Next
<1>10. CASE UNCHANGED daemonVars
  BY <1>1, <1>10 DEF daemonVars
<1> QED BY <1>2, <1>3, <1>4, <1>5, <1>6, <1>7, <1>8, <1>9, <1>10 DEF Steps

\* The daemon of main.rs is the loop of `run` and the publisher of output.rs on one clock: it does
\* nothing that one of the two, left to itself, would not do, so that what is proved of the safety
\* of Scheduler and of Publisher holds in it.
THEOREM MadeOfItsParts ==
  Daemon => (Init /\ [][Next]_vars) /\ (P!Init /\ [][P!Next]_(P!vars))
<1>1. Start => Init /\ P!Init
  BY DEF Start
<1> QED BY <1>1, PartsStep, PTL DEF Daemon

LEMMA PartsKeep == IInv /\ P!IInv /\ [Steps]_daemonVars => IInv' /\ P!IInv'
  BY PartsStep, NextIInv, PublisherKeeps

LEMMA NextCyclesTypeOK ==
  ASSUME CyclesTypeOK, P!IInv, [Steps]_daemonVars
  PROVE  CyclesTypeOK'
<1> USE DEF CyclesTypeOK
<1>1. CASE Publish \/ Sleeping \/ PollFailed
  BY <1>1 DEF Publish, Sleeping, PollFailed, CycleBegins
<1>2. CASE Publishing
  BY <1>2 DEF Publishing
<1>3. CASE Published \/ Running \/ Server \/ Time \/ UNCHANGED daemonVars
  BY <1>3 DEF Published, Running, Server, Time, daemonVars, cycleVars
<1> QED BY <1>1, <1>2, <1>3 DEF Steps

\* Where the publisher stands.
LEMMA PublisherIsAtWork ==
  ASSUME [Steps]_daemonVars, IInv, P!IInv, OnBudget
  PROVE  \/ Publish /\ k = 0 /\ k' = 1 /\ spent' = 0 /\ pc' = "publish" /\ timer' = PublishBound
         \/ Publishing /\ k # 0 /\ pc = "publish" /\ UNCHANGED <<vars, spent>>
         \/ Time /\ UNCHANGED <<k, pc>>
         \/ Published /\ k = 0 /\ UNCHANGED publisherVars
         \/ k = 0 /\ k' = 0 /\ (Sleeping \/ PollFailed \/ Running)
         \/ Running /\ UNCHANGED <<pc, timer, publisherVars, cycleVars>>
         \/ Server /\ UNCHANGED <<vars, k, inflight, request, spent, good, failRun, reading, cycleVars>>
         \/ UNCHANGED daemonVars
<1>1. CASE Publish
  BY <1>1 DEF Publish, P!StartPublish, PollOk
<1>2. CASE Publishing
  BY <1>2, EndpointFacts DEF Publishing, P!HandleEndpoint, P!PostFailed, P!PostOk
<1>3. CASE Time
  BY <1>3 DEF Time, Tick, P!Tick
<1>4. CASE Published
  BY <1>4 DEF Published
<1>5. CASE Sleeping
  BY <1>5 DEF Sleeping, P!OnSleeping
<1>6. CASE PollFailed
  <2>1. pc = "poll" /\ UNCHANGED k
    BY <1>6 DEF PollFailed, PollTransient, PollAnswer, PollFatal, PollTimedOut, LoseLink, Wins,
                publisherVars
  <2> QED BY <1>6, <2>1 DEF OnBudget
<1>7. CASE Running
  <2>1. UNCHANGED <<publisherVars, cycleVars>> /\ UNCHANGED k
    BY <1>7 DEF Running, publisherVars
  <2>2. pc = "publish" => UNCHANGED <<pc, timer>>
    BY <1>7 DEF Running, SignalThread, ConnectOk, ConnectErr, PollWaitFuture, ShutdownBranch,
       ConnectCheck, StartConnect, StartCall, ConnectTimeout, PauseOver, PollCheck, PaceOver,
       StartPoll, DisconnectDone, Wins, Selects
  <2> QED BY <1>7, <2>1, <2>2 DEF OnBudget
<1>8. CASE Server
  BY <1>8 DEF Server, P!ServerChanges, P!historyVars
<1>9. CASE UNCHANGED daemonVars
  BY <1>9
<1> QED BY <1>1, <1>2, <1>3, <1>4, <1>5, <1>6, <1>7, <1>8, <1>9 DEF Steps

LEMMA NextOnBudget ==
  ASSUME IInv, P!IInv, OnBudget, [Steps]_daemonVars
  PROVE  OnBudget'
<1>1. /\ timer \in Nat /\ spent \in Nat /\ PublishBound \in Nat
      /\ k # 0 => pc = "publish"
      /\ Prompt /\ k # 0 => spent + timer = PublishBound
  BY EndpointFacts, SchedulerAssumption DEF IInv, TypeOK, OnBudget
<1>2. CASE k' = 0
  BY <1>2 DEF OnBudget
<1>3. CASE k' = 1 /\ spent' = 0 /\ pc' = "publish" /\ timer' = PublishBound
  BY <1>1, <1>3 DEF OnBudget
<1>4. CASE k # 0 /\ pc' = pc /\ UNCHANGED <<timer, spent>>
  BY <1>1, <1>4 DEF OnBudget
<1>5. CASE Time /\ UNCHANGED <<k, pc>> /\ k' # 0
  <2>1. Prompt => timer # 0 /\ timer' = timer - 1
    BY <1>1, <1>5 DEF Time, Tick, Runnable, Countdown
  <2>2. Prompt => spent <= PublishBound
    BY <1>1, <1>5
  <2>3. Prompt => spent' = spent + 1
    BY <1>5, <2>2, DaemonAssumption DEF Time, P!Tick
  <2> QED BY <1>1, <1>5, <2>1, <2>3 DEF OnBudget
<1>6. CASE Published /\ k = 0 /\ UNCHANGED publisherVars
  BY <1>2, <1>6 DEF publisherVars
<1> QED BY <1>2, <1>3, <1>4, <1>5, <1>6, PublisherIsAtWork DEF vars, publisherVars, daemonVars

LEMMA NextSleepIsKnown ==
  ASSUME P!IInv, CyclesTypeOK, SleepIsKnown, [Steps]_daemonVars
  PROVE  SleepIsKnown'
<1>1. DOMAIN good = P!Endpoints /\ rested \subseteq P!Endpoints
  BY EndpointFacts DEF CyclesTypeOK
<1>2. CASE Sleeping
  <2>1. ASSUME NEW e \in P!Endpoints PROVE [good[e] EXCEPT !.slept = TRUE].slept
    <3>1. good[e] \in P!Goods
      BY DEF P!IInv, P!TypeOK
    <3> QED BY <3>1 DEF P!Goods
  <2>2. good' = [e \in P!Endpoints |-> [good[e] EXCEPT !.slept = TRUE]] /\ rested' = P!Endpoints
    BY <1>2 DEF Sleeping, P!OnSleeping
  <2> QED BY <2>1, <2>2 DEF SleepIsKnown
<1>3. CASE Publishing /\ P!PostOk
  <2>1. CASE reading[P!Current] # NoValue
    <3>1. k # 0 /\ inflight # NoValue
      BY <1>3, EndpointFacts DEF P!PostOk
    <3>2. Publishing /\ P!PostOk /\ rested' = rested \ {P!Current}
      BY <1>3, <2>1, <3>1, EachIsCurrent DEF Publishing, P!PostOk, P!HandleEndpoint, P!PostFailed
    <3>3. /\ good' = [good EXCEPT ![P!Current] = [value |-> inflight, age |-> 0, slept |-> FALSE]]
          /\ P!Current \notin rested' /\ rested' \subseteq rested
      BY <2>1, <3>2 DEF P!PostOk
    <3> QED BY <1>1, <3>3 DEF SleepIsKnown
  <2>2. CASE reading[P!Current] = NoValue
    <3>1. good' = good /\ rested' \subseteq rested
      BY <1>3, <2>2 DEF Publishing, P!PostOk, P!HandleEndpoint, P!PostFailed
    <3> QED BY <3>1 DEF SleepIsKnown
  <2> QED BY <2>1, <2>2
<1>4. CASE Time
  <2>1. \A e \in P!Endpoints : P!Aged(good[e]).slept = good[e].slept
    BY AgesKeepTheRest
  <2>2. good' = [e \in P!Endpoints |-> P!Aged(good[e])] /\ rested' = rested
    BY <1>4 DEF Time, P!Tick, cycleVars
  <2> QED BY <1>1, <2>1, <2>2 DEF SleepIsKnown
<1>5. CASE UNCHANGED <<good, rested>>
  BY <1>5 DEF SleepIsKnown
<1> QED
  <2>1. Publish \/ PollFailed \/ Published \/ Running \/ Server \/ UNCHANGED daemonVars
          => UNCHANGED <<good, rested>>
    BY DEF Publish, PollFailed, Published, Running, Server, daemonVars, publisherVars, cycleVars,
           P!StartPublish, P!ServerChanges, P!historyVars
  <2>2. Publishing /\ ~P!PostOk => UNCHANGED <<good, rested>>
    BY DEF Publishing, P!HandleEndpoint, P!PostFailed, P!historyVars
  <2> QED BY <1>2, <1>3, <1>4, <1>5, <2>1, <2>2 DEF Steps

-----------------------------------------------------------------------------
(* The age of a reading, from its turn to the next one *)

LEMMA SpansAddUp ==
  /\ Span(0) = 0
  /\ \A m, n \in Nat : Span(n) \in Nat /\ Span(m + n) = Span(m) + Span(n)
  /\ \A n \in Nat : Span(n + 1) = Span(n) + RequestTimeout
<1> DEFINE t == RequestTimeout
<1>1. t \in Nat
  BY PublisherConstants
<1> HIDE DEF t
<1>2. \A m, n \in Nat : n * t \in Nat /\ (m + n) * t = m * t + n * t /\ 0 * t = 0 /\ 1 * t = t
  BY ONLY <1>1
<1>3. \A m, n \in Nat : Span(n) \in Nat /\ Span(m + n) = Span(m) + Span(n)
  BY <1>2 DEF Span, t
<1>4. Span(0) = 0 /\ Span(1) = RequestTimeout
  BY <1>2 DEF Span, t
<1> QED BY <1>3, <1>4

LEMMA TimesAreNat ==
  ASSUME NEW i \in Turns
  PROVE  /\ i \in Nat /\ i >= 1 /\ Len(Order) - i \in Nat /\ Len(Order) \in Nat
         /\ ToEnd(i) \in Nat /\ ToNext(i) \in Nat /\ PollInterval \in Nat /\ PollTimeout \in Nat
         /\ ToNext(i) = ToEnd(i) + PollInterval + PollTimeout
<1>1. i \in Nat /\ i >= 1 /\ Len(Order) - i \in Nat /\ Len(Order) \in Nat
  BY PublisherConstants DEF Turns
<1>2. PollInterval \in Nat /\ PollTimeout \in Nat
  BY SchedulerAssumption DEF Positive
<1>3. ToEnd(i) \in Nat
  BY <1>1, SpansAddUp DEF ToEnd
<1> QED BY <1>1, <1>2, <1>3 DEF ToNext

\* The pause, the poll and the other endpoints' turns are less than the replay limit.
LEMMA NextTurnFits ==
  ASSUME NEW i \in Turns
  PROVE  ToNext(i) + Span(i - 1) <= P!ReplayLimit
<1>1. /\ i \in Nat /\ i >= 1 /\ Len(Order) - i \in Nat /\ Len(Order) \in Nat
      /\ ToNext(i) = Span(Len(Order) - i) + PollInterval + PollTimeout
  BY TimesAreNat DEF ToEnd
<1>2. i - 1 \in Nat /\ Len(Order) - 1 \in Nat /\ (Len(Order) - i) + (i - 1) = Len(Order) - 1
      /\ (Len(Order) - 1) + 1 = Len(Order)
  BY ONLY <1>1
<1>3. Span(Len(Order) - i) + Span(i - 1) = Span(Len(Order) - 1)
  BY <1>1, <1>2, SpansAddUp
<1>4. Span(Len(Order)) = Span(Len(Order) - 1) + RequestTimeout
  BY <1>2, SpansAddUp
<1>5. PublishBound = Span(Len(Order))
  BY DaemonAssumption DEF P!LongestPublish, Span
<1>6. PublishBound - RequestTimeout + PollInterval + PollTimeout <= P!ReplayLimit
  BY DaemonAssumption
<1>7. /\ Span(Len(Order) - i) \in Nat /\ Span(i - 1) \in Nat /\ Span(Len(Order) - 1) \in Nat
      /\ RequestTimeout \in Nat /\ PollInterval \in Nat /\ PollTimeout \in Nat
      /\ P!ReplayLimit \in Nat
  BY <1>1, <1>2, SpansAddUp, PublisherConstants, TimesAreNat
<1> QED BY ONLY <1>1, <1>3, <1>4, <1>5, <1>6, <1>7

\* The turns of a publish: a POST begins, or the turn ends.
TurnEnds ==
    /\ k' = IF k = Len(Order) THEN 0 ELSE k + 1
    /\ inflight' = NoValue
    /\ \A i \in Turns : i # k =>
         /\ good'[Order[i]] = good[Order[i]] /\ failRun'[Order[i]] = failRun[Order[i]]
         /\ Order[i] \in now' <=> Order[i] \in now
    /\ \A i \in Turns : i = k /\ Order[i] \in now' /\ Order[i] \notin now
         => Bridgeable(i)' /\ good'[Order[i]].age = 0

PostBegins ==
    /\ k' = k /\ inflight = NoValue /\ inflight' # NoValue /\ request' = RequestTimeout
    /\ UNCHANGED <<good, failRun, now>>

LEMMA TurnMoves ==
  ASSUME P!IInv, Publishing
  PROVE  /\ k \in Turns /\ UNCHANGED <<vars, before>> /\ posted \subseteq posted'
         /\ \/ PostBegins /\ Order[k] \in posted'
            \/ TurnEnds /\ inflight # NoValue
            \/ TurnEnds /\ inflight = NoValue /\ P!HandleEndpoint /\ ~P!Posts(Order[k])
<1>1. k # 0
  BY EndpointFacts DEF Publishing, P!HandleEndpoint, P!PostFailed, P!PostOk
<1>2. k \in Turns /\ P!Current = Order[k] /\ P!Current \in P!Endpoints
  BY <1>1, EachIsCurrent
<1>3. UNCHANGED <<vars, before>> /\ posted \subseteq posted'
  BY DEF Publishing
<1>4. /\ DOMAIN good = P!Endpoints /\ DOMAIN failRun = P!Endpoints
      /\ \A i \in Turns : Order[i] \in P!Endpoints /\ (i # k => Order[i] # Order[k])
  BY <1>2, EndpointFacts, EachHasItsTurn
<1>5. CASE P!HandleEndpoint
  <2>1. /\ inflight = NoValue /\ UNCHANGED <<good, failRun>>
        /\ \/ inflight' # NoValue /\ request' = RequestTimeout /\ k' = k
           \/ P!Advance
    BY <1>5 DEF P!HandleEndpoint, P!historyVars
  <2>2. now' = now /\ posted' = posted \cup {e \in P!Endpoints : P!Posts(e)}
    BY <1>5, <2>1 DEF Publishing, P!PostFailed, P!PostOk
  <2>3. CASE inflight' # NoValue /\ request' = RequestTimeout /\ k' = k
    BY <1>1, <1>2, <1>3, <2>1, <2>2, <2>3 DEF PostBegins, P!Posts
  <2>4. CASE P!Advance
    <3>1. k' = IF k = Len(Order) THEN 0 ELSE k + 1
      BY <2>4 DEF P!Advance
    <3>2. inflight' = NoValue
      BY <2>4 DEF P!Advance
    <3>3. TurnEnds
      BY <2>1, <2>2, <3>1, <3>2 DEF TurnEnds
    <3> QED BY <1>2, <1>3, <1>5, <2>1, <3>2, <3>3 DEF P!Posts
  <2> QED BY <2>1, <2>3, <2>4
<1>6. CASE P!PostFailed
  <2>1. /\ inflight # NoValue /\ P!Advance /\ good' = good
        /\ \A e \in P!Endpoints : e # Order[k] => failRun'[e] = failRun[e]
    BY <1>2, <1>4, <1>6 DEF P!PostFailed
  <2>2. now' = now
    BY <1>6, <2>1 DEF Publishing, P!HandleEndpoint, P!PostFailed, P!PostOk
  <2>3. /\ k' = IF k = Len(Order) THEN 0 ELSE k + 1
        /\ inflight' = NoValue
    BY <2>1 DEF P!Advance
  <2>4. TurnEnds
    BY <1>4, <2>1, <2>2, <2>3 DEF TurnEnds
  <2> QED BY <1>2, <1>3, <2>1, <2>4
<1>7. CASE P!PostOk
  <2>1. /\ inflight # NoValue /\ P!Advance
        /\ failRun' = [failRun EXCEPT ![Order[k]] = 0]
    BY <1>2, <1>7 DEF P!PostOk
  <2>2. now' = now \cup ({Order[k]} \cap {e \in P!Endpoints : reading[e] # NoValue})
    BY <1>2, <1>7, <2>1 DEF Publishing, P!HandleEndpoint, P!PostFailed, P!PostOk
  <2>3. /\ k' = IF k = Len(Order) THEN 0 ELSE k + 1
        /\ inflight' = NoValue
    BY <2>1 DEF P!Advance
  <2>4. CASE reading[Order[k]] # NoValue
    <3>1. good' = [good EXCEPT ![Order[k]] = [value |-> inflight, age |-> 0, slept |-> FALSE]]
      BY <1>2, <1>7, <2>4 DEF P!PostOk
    <3>2. \A i \in Turns : i = k => Bridgeable(i)' /\ good'[Order[i]].age = 0
      <4>1. good'[Order[k]] = [value |-> inflight, age |-> 0, slept |-> FALSE]
        BY <1>2, <1>4, <3>1
      <4>2. failRun'[Order[k]] = 0
        BY <1>2, <1>4, <2>1
      <4>3. good'[Order[k]].value # NoValue /\ ~good'[Order[k]].slept /\ good'[Order[k]].age = 0
        BY <2>1, <4>1
      <4> QED BY <4>2, <4>3 DEF Bridgeable
    <3>3. \A i \in Turns : i # k =>
            /\ good'[Order[i]] = good[Order[i]] /\ failRun'[Order[i]] = failRun[Order[i]]
            /\ Order[i] \in now' <=> Order[i] \in now
      BY <1>4, <2>1, <2>2, <3>1
    <3> QED BY <1>2, <1>3, <2>1, <2>3, <3>2, <3>3 DEF TurnEnds
  <2>5. CASE reading[Order[k]] = NoValue
    <3>1. good' = good /\ now' = now
      BY <1>2, <1>7, <2>2, <2>5 DEF P!PostOk
    <3>2. \A i \in Turns : i # k =>
            /\ good'[Order[i]] = good[Order[i]] /\ failRun'[Order[i]] = failRun[Order[i]]
            /\ Order[i] \in now' <=> Order[i] \in now
      BY <1>4, <2>1, <3>1
    <3> QED BY <1>2, <1>3, <2>1, <2>3, <3>1, <3>2 DEF TurnEnds
  <2> QED BY <2>4, <2>5
<1> QED BY <1>5, <1>6, <1>7 DEF Publishing

\* What `run` does between two publishes, as far as the age of a reading goes.
LEMMA RunMoves ==
  ASSUME IInv, Running
  PROVE  \/ UNCHANGED <<pc, after, timer, pollWait>>
         \/ /\ pc \in {"connect_check", "connect", "retry", "lost"}
               \/ (pc = "disconnect" /\ after \notin Exits)
            /\ pc' \notin {"pace", "publish"}
         \/ pc' = "exit" \/ (pc' = "disconnect" /\ after' \in Exits)
         \/ pc = "poll_check" /\ pc' = "pace" /\ timer' = pollWait /\ pollWait' = pollWait
         \/ pc = "poll_check" /\ pc' = "poll" /\ timer' = PollTimeout /\ pollWait = 0
         \/ pc = "pace" /\ pc' = "poll_check" /\ pollWait' = pollWait
<1>1. CASE SignalThread \/ PollWaitFuture \/ StartConnect \/ StartPoll
  BY <1>1 DEF SignalThread, PollWaitFuture, StartConnect, StartPoll, StartCall
<1>2. CASE ConnectOk \/ ConnectErr \/ ConnectTimeout \/ PauseOver
  <2>1. pc \in {"connect", "retry", "lost"}
    BY <1>2 DEF ConnectOk, ConnectErr, ConnectTimeout, PauseOver, Wins
  <2>2. pc' \in {"poll_check", "retry", "disconnect", "connect_check"}
    BY <1>2 DEF ConnectOk, ConnectErr, ConnectTimeout, PauseOver, GoTo, Disconnect
  <2>3. pc' \notin {"pace", "publish"}
    BY <2>2
  <2> QED BY <2>1, <2>3
<1>3. CASE ConnectCheck \/ DisconnectDone
  <2>1. after \in Exits \cup {"retry", "lost"}
    BY DEF IInv, TypeOK
  <2>2. CASE ConnectCheck
    <3>1. pc = "connect_check" /\ pc' \in {"connect", "disconnect"}
      BY <2>2 DEF ConnectCheck, GoTo, Disconnect
    <3> QED BY <3>1
  <2>3. CASE DisconnectDone /\ after \in Exits
    BY <2>3 DEF DisconnectDone, GoTo
  <2>4. CASE DisconnectDone /\ after \notin Exits
    <3>1. pc = "disconnect" /\ pc' \in {"retry", "lost"}
      BY <2>1, <2>4 DEF DisconnectDone, GoTo
    <3> QED BY <2>4, <3>1
  <2> QED BY <1>3, <2>2, <2>3, <2>4
<1>4. CASE ShutdownBranch
  BY <1>4 DEF ShutdownBranch, Disconnect, Exits
<1>5. CASE PollCheck
  BY <1>5 DEF PollCheck, GoTo, Disconnect, Exits
<1>6. CASE PaceOver
  BY <1>6 DEF PaceOver, Wins, GoTo
<1> QED BY <1>1, <1>2, <1>3, <1>4, <1>5, <1>6 DEF Running

LEMMA LastAsRunGoesOn ==
  ASSUME DaemonInv, Running
  PROVE  LastIsBridgeable'
<1>1. /\ LastIsBridgeable /\ OnBudget
      /\ UNCHANGED <<k, inflight, request, good, failRun, now>>
  BY DEF DaemonInv, Running, publisherVars, cycleVars
<1>2. CASE UNCHANGED <<pc, after, timer, pollWait>>
  BY <1>1, <1>2 DEF LastIsBridgeable, Bridgeable, AgeOfNow
<1>3. CASE /\ pc \in {"connect_check", "connect", "retry", "lost"}
              \/ (pc = "disconnect" /\ after \notin Exits)
           /\ pc' \notin {"pace", "publish"}
  BY <1>1, <1>3 DEF LastIsBridgeable
<1>4. CASE pc' = "exit" \/ (pc' = "disconnect" /\ after' \in Exits)
  <2>1. CASE pc = "publish"
    <3>1. FALSE
      BY <1>4, <2>1 DEF Running, SignalThread, ConnectOk, ConnectErr, PollWaitFuture,
         ShutdownBranch, ConnectCheck, StartConnect, StartCall, ConnectTimeout, PauseOver,
         PollCheck, PaceOver, StartPoll, DisconnectDone, Wins, Selects
    <3> QED BY <3>1
  <2>2. CASE k = 0
    BY <1>1, <1>4, <2>2 DEF LastIsBridgeable, Bridgeable, AgeOfNow
  <2> QED BY <1>1, <2>1, <2>2 DEF OnBudget
<1>5. CASE pc = "poll_check" /\ pc' = "pace" /\ timer' = pollWait /\ pollWait' = pollWait
  <2>1. k = 0
    BY <1>1, <1>5 DEF OnBudget
  <2> QED BY <1>1, <1>5, <2>1 DEF LastIsBridgeable, Bridgeable, AgeOfNow
<1>6. CASE pc = "poll_check" /\ pc' = "poll" /\ timer' = PollTimeout /\ pollWait = 0
  <2>1. k = 0
    BY <1>1, <1>6 DEF OnBudget
  <2>2. ASSUME NEW i \in Turns, Order[i] \in now
        PROVE  Bridgeable(i) /\ (Prompt => good[Order[i]].age + PollTimeout <= ToNext(i))
    <3>1. Bridgeable(i) /\ (Prompt => good[Order[i]].age + 0 <= ToEnd(i) + PollInterval)
      BY <1>1, <1>6, <2>2 DEF LastIsBridgeable, AgeOfNow
    <3>2. good[Order[i]].age \in Nat
      BY EndpointFacts, EachHasItsTurn DEF DaemonInv
    <3> QED BY <3>1, <3>2, TimesAreNat
  <2> QED BY <1>1, <1>6, <2>1, <2>2 DEF LastIsBridgeable, Bridgeable, AgeOfNow
<1>7. CASE pc = "pace" /\ pc' = "poll_check" /\ pollWait' = pollWait
  <2>1. k = 0
    BY <1>1, <1>7 DEF OnBudget
  <2> QED BY <1>1, <1>7, <2>1 DEF LastIsBridgeable, Bridgeable, AgeOfNow
<1> QED BY <1>2, <1>3, <1>4, <1>5, <1>6, <1>7, RunMoves DEF DaemonInv

LEMMA LastAsPublished ==
  ASSUME DaemonInv, Published, k = 0, UNCHANGED publisherVars
  PROVE  LastIsBridgeable'
<1>1. /\ LastIsBridgeable /\ pc = "publish"
      /\ UNCHANGED <<k, inflight, request, good, failRun, now>>
  BY DEF DaemonInv, Published, PublishDone, publisherVars, cycleVars
<1>2. \/ pc' = "poll_check" /\ pollWait' = PollInterval
      \/ pc' = "disconnect" /\ after' \in Exits
  BY DEF Published, PublishDone, CountFruitless, GoTo, Disconnect, Exits
<1>3. ASSUME NEW i \in Turns, Order[i] \in now
      PROVE  Bridgeable(i) /\ (Prompt => good[Order[i]].age + PollInterval <= ToEnd(i) + PollInterval)
  <2>1. Bridgeable(i) /\ (Prompt => good[Order[i]].age <= ToEnd(i))
    BY <1>1, <1>3 DEF LastIsBridgeable, AgeOfNow
  <2>2. good[Order[i]].age \in Nat
    BY EndpointFacts, EachHasItsTurn DEF DaemonInv
  <2> QED BY <2>1, <2>2, TimesAreNat
<1> QED BY <1>1, <1>2, <1>3 DEF LastIsBridgeable, Bridgeable, AgeOfNow

\* What gets older as fast as a time runs out is on time when that is over.
LEMMA OlderAsTimeRunsOut ==
  \A old, age, left, limit \in Nat :
     age <= old + 1 /\ left # 0 /\ old + left <= limit => age + (left - 1) <= limit
  OBVIOUS

LEMMA LastAsTimePasses ==
  ASSUME DaemonInv, Time, UNCHANGED <<k, pc>>
  PROVE  LastIsBridgeable'
<1>1. /\ LastIsBridgeable /\ OnBudget /\ P!IInv /\ timer \in Nat /\ pollWait \in Nat
      /\ UNCHANGED <<after, inflight, failRun, now>>
      /\ timer' = Countdown(timer) /\ pollWait' = Countdown(pollWait)
      /\ request' = IF request > 0 THEN request - 1 ELSE 0
      /\ good' = [e \in P!Endpoints |-> P!Aged(good[e])]
  BY DEF DaemonInv, IInv, TypeOK, Time, Tick, P!Tick, cycleVars
<1>2. Prompt => /\ pc # "poll_check" /\ ~(pc = "publish" /\ k = 0)
                /\ pc \in {"pace", "poll"} => timer # 0
                /\ k # 0 => inflight # NoValue /\ request # 0
  BY DEF Time, Tick, P!Tick, Runnable, P!Runnable, Selects
<1>3. pc' = "pace" => timer' = pollWait'
  BY <1>1 DEF LastIsBridgeable
<1>4. ASSUME NEW i \in Turns, Order[i] \in now
      PROVE  Bridgeable(i)' /\ AgeOfNow(i, good[Order[i]].age)'
  <2>1. Bridgeable(i) /\ AgeOfNow(i, good[Order[i]].age)
    BY <1>1, <1>4 DEF LastIsBridgeable
  <2>2. Order[i] \in P!Endpoints /\ good'[Order[i]] = P!Aged(good[Order[i]])
    BY <1>1, EachHasItsTurn
  <2>3. PICK old \in Nat : old = good[Order[i]].age
    BY <1>1, <2>2, EndpointFacts
  <2>4. PICK age \in Nat : age = good'[Order[i]].age /\ age <= old + 1
    BY <1>1, <2>2, <2>3, AgesKeepTheRest
  <2>5. Bridgeable(i)'
    BY <1>1, <2>1, <2>2, AgesKeepTheRest DEF Bridgeable
  <2>6. request \in Nat /\ k \in Nat
    BY <1>1, EndpointFacts, PublisherConstants
  <2>7. AgeOfNow(i, old)
    BY <2>1, <2>3
  <2>8. /\ k' # 0 => i < k'
        /\ ~(Prompt /\ k' # 0 /\ inflight' = NoValue)
        /\ ~(Prompt /\ k' = 0 /\ pc' = "publish")
    BY <1>1, <1>2, <2>7 DEF AgeOfNow
  <2>9. Prompt /\ k' # 0 /\ inflight' # NoValue => age + request' <= Span(k' - i)
    <3> SUFFICES ASSUME Prompt, k # 0, inflight # NoValue PROVE age + request' <= Span(k - i)
      BY <1>1
    <3>1. old + request <= Span(k - i) /\ request # 0 /\ request' = request - 1 /\ i < k
      BY <1>1, <1>2, <2>6, <2>7 DEF AgeOfNow
    <3>2. i \in Nat /\ k - i \in Nat
      BY <2>6, <3>1, TimesAreNat
    <3>3. Span(k - i) \in Nat
      BY <3>2, SpansAddUp
    <3> QED BY <2>4, <2>6, <3>1, <3>3, OlderAsTimeRunsOut
  <2>10. Prompt /\ pc' \in {"poll_check", "pace"}
           => age + pollWait' <= ToEnd(i) + PollInterval
    <3> SUFFICES ASSUME Prompt, pc = "pace" PROVE age + pollWait' <= ToEnd(i) + PollInterval
      BY <1>2
    <3>1. timer = pollWait
      BY <1>1 DEF LastIsBridgeable
    <3>2. old + pollWait <= ToEnd(i) + PollInterval /\ pollWait # 0 /\ pollWait' = pollWait - 1
      BY <1>1, <1>2, <2>7, <3>1 DEF AgeOfNow, Countdown
    <3>3. ToEnd(i) + PollInterval \in Nat
      BY TimesAreNat
    <3> QED BY <1>1, <2>4, <3>2, <3>3, OlderAsTimeRunsOut
  <2>11. Prompt /\ pc' = "poll" => age + timer' <= ToNext(i)
    <3> SUFFICES ASSUME Prompt, pc = "poll" PROVE age + timer' <= ToNext(i)
      OBVIOUS
    <3>1. old + timer <= ToNext(i) /\ timer # 0 /\ timer' = timer - 1
      BY <1>1, <1>2, <2>7 DEF AgeOfNow, Countdown
    <3> QED BY <1>1, <2>4, <3>1, TimesAreNat, OlderAsTimeRunsOut
  <2>12. AgeOfNow(i, good[Order[i]].age)'
    BY <2>4, <2>8, <2>9, <2>10, <2>11 DEF AgeOfNow
  <2> QED BY <2>5, <2>12
<1> QED BY <1>1, <1>3, <1>4 DEF LastIsBridgeable

LEMMA LastWhilePublishing ==
  ASSUME DaemonInv, Publishing
  PROVE  LastIsBridgeable'
<1>1. /\ LastIsBridgeable /\ P!IInv /\ pc = "publish" /\ pc' = "publish" /\ k \in Turns
      /\ request \in Nat
  BY TurnMoves, EndpointFacts, PublisherConstants DEF DaemonInv, Publishing, vars
<1>2. k \in Nat /\ k # 0 /\ Len(Order) \in Nat /\ RequestTimeout \in Nat
  BY <1>1, TimesAreNat, PublisherConstants
<1> SUFFICES ASSUME NEW i \in Turns, Order[i] \in now'
             PROVE  Bridgeable(i)' /\ AgeOfNow(i, good[Order[i]].age)'
  BY <1>1 DEF LastIsBridgeable
<1>3. Order[i] \in now =>
        /\ Bridgeable(i) /\ i < k
        /\ Prompt /\ inflight = NoValue => good[Order[i]].age <= Span(k - 1 - i)
        /\ Prompt /\ inflight # NoValue => good[Order[i]].age + request <= Span(k - i)
  BY <1>1, <1>2 DEF LastIsBridgeable, AgeOfNow
<1>4. Order[i] \in P!Endpoints /\ good[Order[i]].age \in Nat /\ i \in Nat
  BY <1>1, EndpointFacts, EachHasItsTurn, TimesAreNat
<1>5. i < k => /\ Span(k - 1 - i) \in Nat /\ Span(k - i) = Span(k - 1 - i) + RequestTimeout
  <2> SUFFICES ASSUME i < k
               PROVE  Span(k - 1 - i) \in Nat /\ Span(k - i) = Span(k - 1 - i) + RequestTimeout
    OBVIOUS
  <2>1. k - 1 - i \in Nat /\ (k - 1 - i) + 1 = k - i
    BY <1>2, <1>4
  <2> QED BY <2>1, SpansAddUp
<1>6. CASE PostBegins
  <2>1. Order[i] \in now /\ UNCHANGED <<k, good, failRun>> /\ inflight = NoValue
        /\ inflight' # NoValue /\ request' = RequestTimeout
    BY <1>6 DEF PostBegins
  <2>2. Prompt => good[Order[i]].age + RequestTimeout <= Span(k - i)
    BY <1>2, <1>3, <1>4, <1>5, <2>1
  <2> QED BY <1>1, <1>2, <1>3, <2>1, <2>2 DEF Bridgeable, AgeOfNow
<1>7. CASE TurnEnds
  <2>1. /\ inflight' = NoValue /\ k' = IF k = Len(Order) THEN 0 ELSE k + 1
        /\ pc' = "publish"
    BY <1>1, <1>7 DEF TurnEnds
  <2>2. i <= k /\ Bridgeable(i)' /\ (Prompt => good'[Order[i]].age <= Span(k - i))
    <3>1. CASE i # k
      <4>1. /\ Order[i] \in now /\ good'[Order[i]] = good[Order[i]]
            /\ failRun'[Order[i]] = failRun[Order[i]]
        BY <1>7, <3>1 DEF TurnEnds
      <4>2. Prompt => good[Order[i]].age <= Span(k - i)
        BY <1>1, <1>2, <1>3, <1>4, <1>5, <4>1
      <4>3. Bridgeable(i)'
        BY <1>3, <4>1 DEF Bridgeable
      <4> QED BY <1>2, <1>3, <1>4, <4>1, <4>2, <4>3
    <3>2. CASE i = k
      <4>1. Order[i] \notin now
        BY <1>2, <1>3, <3>2
      <4>2. Bridgeable(i)' /\ good'[Order[i]].age = 0
        BY <1>7, <3>2, <4>1 DEF TurnEnds
      <4>3. Span(k - i) = 0
        BY <1>2, <3>2, SpansAddUp
      <4> QED BY <1>2, <3>2, <4>2, <4>3
    <3> QED BY <3>1, <3>2
  <2>3. CASE k = Len(Order)
    BY <2>1, <2>2, <2>3 DEF AgeOfNow, ToEnd
  <2>4. CASE k # Len(Order)
    <3>1. k' = k + 1 /\ k' - 1 - i = k - i /\ i < k'
      BY <1>2, <1>4, <2>1, <2>2, <2>4
    <3>2. k' # 0
      BY <1>2, <3>1
    <3>3. Prompt => good'[Order[i]].age <= Span(k' - 1 - i)
      BY <2>2, <3>1
    <3>4. AgeOfNow(i, good[Order[i]].age)'
      BY <2>1, <3>1, <3>2, <3>3 DEF AgeOfNow
    <3> QED BY <2>2, <3>4
  <2> QED BY <2>3, <2>4
<1> QED BY <1>1, <1>6, <1>7, TurnMoves

LEMMA NextLast ==
  ASSUME DaemonInv, [Steps]_daemonVars
  PROVE  LastIsBridgeable'
<1>1. IInv /\ P!IInv /\ OnBudget /\ LastIsBridgeable
  BY DEF DaemonInv
<1>2. CASE Publish \/ Sleeping \/ PollFailed
  <2>1. now' = {} /\ pc' # "pace"
    BY <1>2 DEF Publish, Sleeping, PollFailed, CycleBegins, PollOk, PollSleeping, PollTransient,
                PollFatal, PollTimedOut, LoseLink, Disconnect, CountFruitless, GoTo
  <2> QED BY <2>1 DEF LastIsBridgeable
<1>3. CASE UNCHANGED <<vars, k, inflight, request, good, failRun, now>>
  BY <1>1, <1>3 DEF LastIsBridgeable, Bridgeable, AgeOfNow, vars
<1>4. Server \/ UNCHANGED daemonVars => UNCHANGED <<vars, k, inflight, request, good, failRun, now>>
  BY DEF Server, P!ServerChanges, P!historyVars, daemonVars, publisherVars, cycleVars
<1> QED BY <1>1, <1>2, <1>3, <1>4, PublisherIsAtWork, LastAsRunGoesOn, LastAsPublished,
        LastAsTimePasses, LastWhilePublishing
\* An endpoint that accepted a reading and has not failed since gets its POST, unless that
\* reading is too old.
LEMMA TurnIsTaken ==
  ASSUME P!IInv, P!HandleEndpoint, k \in Turns, inflight = NoValue, k' # k,
         Bridge, Order[k] \in Replayable, Bridgeable(k)
  PROVE  good[Order[k]].age > P!ReplayLimit
<1>1. PP!IInv /\ [PP!Next]_(PP!vars)
  BY SameInv, SameNext DEF P!Next
<1>2. PICK e \in PP!Endpoints : e = Order[k] /\ e \in Replayable
  BY EachHasItsTurn, PublisherConstants
<1>3. PP!LeftAlone(e)
  BY <1>2, TimesAreNat DEF PP!LeftAlone, PP!Current
<1>4. ~PP!Muted(e)
  BY <1>2, PublisherConstants DEF PP!Muted, Bridgeable, P!TripCount, PP!TripCount
<1>5. PP!BreakerAssumption /\ PP!PublisherAssumption
  BY PublisherConstants
<1>6. reading[e] = NoValue
  BY <1>1, <1>3, <1>4, <1>5, PP!WithheldIsMuted DEF PP!BreakerAssumption, PP!PublisherAssumption
<1>7. \/ good[e].value = NoValue \/ good[e].age > PP!ReplayLimit \/ good[e].slept
  BY <1>1, <1>2, <1>3, <1>4, <1>5, <1>6, PP!DropoutFacts
  DEF PP!BreakerAssumption, PP!PublisherAssumption
<1> QED BY <1>2, <1>7 DEF Bridgeable, P!ReplayLimit, PP!ReplayLimit, P!Larger, PP!Larger

LEMMA BeforeAsPublishBegins ==
  ASSUME DaemonInv, Publish
  PROVE  BeforeIsBridged'
<1>1. /\ LastIsBridgeable /\ pc = "poll" /\ timer \in Nat
      /\ k = 0 /\ k' = 1 /\ inflight = NoValue /\ inflight' = NoValue
      /\ UNCHANGED <<good, failRun>> /\ before' = now
  BY EndpointFacts DEF DaemonInv, IInv, TypeOK, Publish, PollOk, PollAnswer, Wins,
                       P!StartPublish, P!historyVars, CycleBegins
<1>2. ASSUME NEW i \in Turns, Order[i] \in now
      PROVE  Bridgeable(i) /\ (Prompt => good[Order[i]].age <= ToNext(i) + Span(1 - 1)) /\ i >= 1
  <2>1. Bridgeable(i) /\ (Prompt => good[Order[i]].age + timer <= ToNext(i))
    BY <1>1, <1>2 DEF LastIsBridgeable, AgeOfNow
  <2>2. good[Order[i]].age \in Nat
    BY EndpointFacts, EachHasItsTurn DEF DaemonInv
  <2>3. Span(1 - 1) = 0
    BY SpansAddUp
  <2> QED BY <1>1, <2>1, <2>2, <2>3, TimesAreNat
<1>3. ASSUME NEW i \in Turns, Order[i] \in now
      PROVE  ~HadTurn(i)' /\ Bridgeable(i)' /\ AgeOfBefore(i, good[Order[i]].age)'
  <2>1. i \in Nat /\ i >= 1
    BY TimesAreNat
  <2>2. ~HadTurn(i)'
    BY <1>1, <2>1 DEF HadTurn
  <2> QED BY <1>1, <1>2, <1>3, <2>2 DEF Bridgeable, AgeOfBefore
<1> QED BY <1>1, <1>3 DEF BeforeIsBridged

LEMMA BeforeWhilePublishing ==
  ASSUME DaemonInv, Publishing
  PROVE  BeforeIsBridged'
<1>1. /\ BeforeIsBridged /\ P!IInv /\ pc = "publish" /\ pc' = "publish" /\ k \in Turns
      /\ request \in Nat /\ before' = before /\ posted \subseteq posted'
  BY TurnMoves, EndpointFacts, PublisherConstants DEF DaemonInv, Publishing, vars
<1>2. k \in Nat /\ k # 0 /\ k <= Len(Order) /\ Len(Order) \in Nat /\ RequestTimeout \in Nat
  BY <1>1, TimesAreNat, PublisherConstants DEF Turns
<1> SUFFICES ASSUME NEW i \in Turns, Order[i] \in before
             PROVE  /\ k' # 0 /\ i >= k' => Bridgeable(i)' /\ AgeOfBefore(i, good[Order[i]].age)'
                    /\ Prompt /\ Bridge /\ Order[i] \in Replayable /\ HadTurn(i)'
                         => Order[i] \in posted'
  BY <1>1 DEF BeforeIsBridged
<1>3. /\ i >= k => Bridgeable(i) /\ AgeOfBefore(i, good[Order[i]].age)
      /\ Prompt /\ Bridge /\ Order[i] \in Replayable /\ HadTurn(i) => Order[i] \in posted
  BY <1>1, <1>2 DEF BeforeIsBridged
<1>4. /\ Order[i] \in P!Endpoints /\ good[Order[i]].age \in Nat /\ i \in Nat
      /\ i <= Len(Order) /\ ToNext(i) \in Nat
  BY <1>1, EndpointFacts, EachHasItsTurn, TimesAreNat DEF Turns
<1>5. Span(k - 1) \in Nat /\ Span(k) = Span(k - 1) + RequestTimeout
  <2>1. k - 1 \in Nat /\ (k - 1) + 1 = k
    BY <1>2
  <2> QED BY <2>1, SpansAddUp
<1>6. CASE PostBegins /\ Order[k] \in posted'
  <2>1. UNCHANGED <<k, good, failRun>> /\ inflight = NoValue
        /\ inflight' # NoValue /\ request' = RequestTimeout
    BY <1>6 DEF PostBegins
  <2>2. i >= k => /\ Bridgeable(i)
                  /\ Prompt => good[Order[i]].age + RequestTimeout <= ToNext(i) + Span(k)
    BY <1>2, <1>3, <1>4, <1>5, <2>1 DEF AgeOfBefore
  <2>3. i >= k' => Bridgeable(i)' /\ AgeOfBefore(i, good[Order[i]].age)'
    BY <2>1, <2>2 DEF Bridgeable, AgeOfBefore
  <2>4. HadTurn(i)' => i = k \/ HadTurn(i)
    BY <1>2, <2>1 DEF HadTurn
  <2> QED BY <1>1, <1>3, <1>6, <2>3, <2>4
<1>7. CASE TurnEnds /\ (inflight # NoValue \/ (P!HandleEndpoint /\ inflight = NoValue))
  <2>1. /\ inflight' = NoValue /\ k' = IF k = Len(Order) THEN 0 ELSE k + 1
        /\ i # k => /\ good'[Order[i]] = good[Order[i]]
                    /\ failRun'[Order[i]] = failRun[Order[i]]
    BY <1>7 DEF TurnEnds
  <2>2. i >= k /\ Prompt => good[Order[i]].age <= ToNext(i) + Span(k)
    BY <1>1, <1>2, <1>3, <1>4, <1>5 DEF AgeOfBefore
  <2>3. ASSUME k' # 0, i >= k' PROVE Bridgeable(i)' /\ AgeOfBefore(i, good[Order[i]].age)'
    <3>1. k' = k + 1 /\ k' - 1 = k /\ i >= k /\ i # k
      BY <1>2, <1>4, <2>1, <2>3
    <3>2. Bridgeable(i)'
      BY <1>3, <2>1, <3>1 DEF Bridgeable
    <3>3. Prompt => good'[Order[i]].age <= ToNext(i) + Span(k' - 1)
      BY <2>1, <2>2, <3>1
    <3>4. AgeOfBefore(i, good[Order[i]].age)'
      BY <2>1, <3>3 DEF AgeOfBefore
    <3> QED BY <3>2, <3>4
  <2>4. ASSUME Prompt, Bridge, Order[i] \in Replayable, HadTurn(i)', ~HadTurn(i) PROVE FALSE
    <3>1. i = k /\ inflight = NoValue
      BY <1>2, <1>4, <2>1, <2>4 DEF HadTurn
    <3>2. good[Order[k]].age > P!ReplayLimit
      <4>1. Bridgeable(k)
        BY <1>2, <1>3, <3>1
      <4>2. k' # k
        BY <1>2, <2>1
      <4> QED BY <1>1, <1>7, <2>4, <3>1, <4>1, <4>2, TurnIsTaken
    <3>3. good[Order[k]].age <= ToNext(k) + Span(k - 1)
      BY <1>2, <1>3, <2>4, <3>1 DEF AgeOfBefore
    <3>4. ToNext(k) + Span(k - 1) <= P!ReplayLimit
      BY <1>1, NextTurnFits
    <3>5. P!ReplayLimit \in Nat /\ good[Order[k]].age \in Nat /\ ToNext(k) + Span(k - 1) \in Nat
      BY <1>4, <1>5, <3>1, PublisherConstants
    <3> QED BY <3>2, <3>3, <3>4, <3>5
  <2> QED BY <1>1, <1>3, <2>3, <2>4
<1> QED BY <1>1, <1>6, <1>7, TurnMoves

LEMMA BeforeAsTimePasses ==
  ASSUME DaemonInv, Time, UNCHANGED <<k, pc>>
  PROVE  BeforeIsBridged'
<1>1. /\ BeforeIsBridged /\ P!IInv
      /\ UNCHANGED <<inflight, failRun, before, posted>>
      /\ request' = IF request > 0 THEN request - 1 ELSE 0
      /\ good' = [e \in P!Endpoints |-> P!Aged(good[e])]
  BY DEF DaemonInv, Time, P!Tick, cycleVars
<1>2. Prompt /\ k # 0 => inflight # NoValue /\ request # 0
  BY DEF Time, P!Tick, P!Runnable
<1> SUFFICES ASSUME pc = "publish", NEW i \in Turns, Order[i] \in before, k # 0, i >= k
             PROVE  Bridgeable(i)' /\ AgeOfBefore(i, good[Order[i]].age)'
  BY <1>1 DEF BeforeIsBridged, HadTurn
<1>3. Bridgeable(i) /\ AgeOfBefore(i, good[Order[i]].age)
  BY <1>1 DEF BeforeIsBridged
<1>4. Order[i] \in P!Endpoints /\ good'[Order[i]] = P!Aged(good[Order[i]])
  BY <1>1, EachHasItsTurn
<1>5. PICK old \in Nat : old = good[Order[i]].age
  BY <1>1, <1>4, EndpointFacts
<1>6. PICK age \in Nat : age = good'[Order[i]].age /\ age <= old + 1
  BY <1>1, <1>4, <1>5, AgesKeepTheRest
<1>7. Bridgeable(i)'
  BY <1>1, <1>3, <1>4, AgesKeepTheRest DEF Bridgeable
<1>8. Prompt => age + request' <= ToNext(i) + Span(k)
  <2> SUFFICES ASSUME Prompt PROVE age + request' <= ToNext(i) + Span(k)
    OBVIOUS
  <2>1. request \in Nat /\ k \in Nat
    BY <1>1, EndpointFacts, PublisherConstants
  <2>2. old + request <= ToNext(i) + Span(k) /\ request # 0 /\ request' = request - 1
    BY <1>1, <1>2, <1>3, <1>5, <2>1 DEF AgeOfBefore
  <2>3. ToNext(i) + Span(k) \in Nat
    <3>1. ToNext(i) \in Nat /\ Span(k) \in Nat
      BY <2>1, TimesAreNat, SpansAddUp
    <3> QED BY <3>1
  <2> QED BY <1>6, <2>1, <2>2, <2>3, OlderAsTimeRunsOut
<1> QED BY <1>1, <1>2, <1>6, <1>7, <1>8 DEF AgeOfBefore

LEMMA NextBefore ==
  ASSUME DaemonInv, [Steps]_daemonVars
  PROVE  BeforeIsBridged'
<1>1. IInv /\ P!IInv /\ OnBudget /\ BeforeIsBridged
  BY DEF DaemonInv
<1>2. CASE UNCHANGED <<pc, k, inflight, request, good, failRun, cycleVars>>
  BY <1>1, <1>2 DEF BeforeIsBridged, Bridgeable, AgeOfBefore, HadTurn, cycleVars
<1>3. CASE pc' # "publish"
  BY <1>3 DEF BeforeIsBridged
<1>4. CASE Sleeping \/ PollFailed \/ Published
  <2>1. pc' # "publish"
    BY <1>4 DEF Sleeping, PollFailed, Published, PollSleeping, PollTransient, PollFatal,
       PollTimedOut, LoseLink, Disconnect, CountFruitless, PublishDone, GoTo
  <2> QED BY <1>3, <2>1
<1>5. CASE Running
  <2>1. UNCHANGED <<k, inflight, request, good, failRun, cycleVars>>
    BY <1>5 DEF Running, publisherVars
  <2>2. pc' = pc \/ pc' # "publish"
    BY <1>1, <1>5, RunMoves
  <2> QED BY <1>2, <1>3, <2>1, <2>2
<1>6. Server \/ UNCHANGED daemonVars => UNCHANGED <<pc, k, inflight, request, good, failRun, cycleVars>>
  BY DEF Server, P!ServerChanges, P!historyVars, daemonVars, vars, publisherVars
<1> QED BY <1>1, <1>2, <1>4, <1>5, <1>6, PublisherIsAtWork, BeforeAsPublishBegins,
        BeforeWhilePublishing, BeforeAsTimePasses
-----------------------------------------------------------------------------
(* The theorems about the daemon *)

LEMMA StartDaemonInv == Start => DaemonInv
<1> SUFFICES ASSUME Start PROVE DaemonInv
  OBVIOUS
<1>1. IInv /\ P!IInv
  BY InitIInv, PublisherKeeps DEF Start
<1>2. pc = "connect_check" /\ k = 0 /\ before = {} /\ now = {} /\ posted = {} /\ rested = {}
  BY DEF Start, Init, P!Init
<1> QED BY <1>1, <1>2 DEF DaemonInv, CyclesTypeOK, OnBudget, SleepIsKnown, LastIsBridgeable,
        BeforeIsBridged

LEMMA NextDaemonInv == DaemonInv /\ [Steps]_daemonVars => DaemonInv'
<1> SUFFICES ASSUME DaemonInv, [Steps]_daemonVars PROVE DaemonInv'
  OBVIOUS
<1>1. IInv /\ P!IInv /\ CyclesTypeOK /\ OnBudget /\ SleepIsKnown
  BY DEF DaemonInv
<1> QED BY <1>1, PartsKeep, NextCyclesTypeOK, NextOnBudget, NextSleepIsKnown, NextLast,
        NextBefore DEF DaemonInv

\* DaemonInv holds in every reachable state: both parts' invariants on one clock, and what is left
\* of a cycle's time for the payloads that the next cycle may have to replay.
THEOREM DaemonInvariance == Daemon => []DaemonInv
  BY StartDaemonInv, NextDaemonInv, PTL DEF Daemon

\* `run` and `publish` agree on who is at work, and the longest publish that Scheduler assumes in
\* its bound on the stop is the longest there is.
THEOREM PublishTakesItsTime == Daemon => []PublishInTime
<1>1. DaemonInv => PublishInTime
  <2> SUFFICES ASSUME DaemonInv PROVE PublishInTime
    OBVIOUS
  <2>1. P!IInv /\ OnBudget
    BY DEF DaemonInv
  <2>2. PP!PublishIsBounded
    BY <2>1, PublisherConstants, SameInv, PP!BoundedByIInv
    DEF PP!BreakerAssumption, PP!PublisherAssumption
  <2>3. P!PublishIsBounded
    BY <2>2 DEF P!PublishIsBounded, PP!PublishIsBounded, P!LongestPublish, PP!LongestPublish
  <2>4. ASSUME Prompt, timer = 0, inflight # NoValue PROVE request = 0
    <3>1. /\ k \in Turns /\ k \in Nat /\ request \in Nat /\ spent \in Nat
          /\ Len(Order) - k \in Nat /\ (Len(Order) - k) + k = Len(Order)
      BY <2>1, <2>4, EndpointFacts, EachIsCurrent, TimesAreNat, PublisherConstants
    <3>2. spent + 0 = PublishBound
      BY <2>1, <2>4, <3>1, TimesAreNat DEF OnBudget
    <3>3. spent + request <= Span(k)
      BY <2>1, <2>4, <3>1, TimesAreNat DEF P!IInv, P!OnSchedule, Span
    <3>4. PublishBound = Span(Len(Order))
      BY DaemonAssumption DEF P!LongestPublish, Span
    <3>5. Span(Len(Order)) = Span(Len(Order) - k) + Span(k)
      BY <3>1, SpansAddUp
    <3>6. Span(k) \in Nat /\ Span(Len(Order) - k) \in Nat
      BY <3>1, SpansAddUp
    <3> QED BY <3>1, <3>2, <3>3, <3>4, <3>5, <3>6
  <2> QED BY <2>1, <2>3, <2>4 DEF OnBudget, PublishInTime
<1> QED BY <1>1, DaemonInvariance, PTL

\* With code that takes no time, no pace and no slow server makes a payload expire before the next
\* cycle: an endpoint whose reading the last cycle delivered gets a POST in this one too, for every
\* list of endpoints and every interval that DaemonAssumption allows.
THEOREM CyclesAreBridged == Daemon => NextCycleBridges
<1>1. ASSUME DaemonInv, [Steps]_daemonVars, Prompt, Bridge, pc = "publish", pc' # "publish"
      PROVE  before' \cap Replayable \subseteq posted'
  <2>1. BeforeIsBridged /\ IInv /\ P!IInv /\ OnBudget /\ CyclesTypeOK
    BY <1>1 DEF DaemonInv
  <2>2. k = 0 /\ UNCHANGED <<before, posted>>
    <3>1. Running => UNCHANGED <<before, posted>>
      BY DEF Running, cycleVars
    <3>2. Published => UNCHANGED <<before, posted>>
      BY DEF Published, cycleVars
    <3>3. Sleeping \/ PollFailed => pc = "poll"
      BY DEF Sleeping, PollFailed, PollSleeping, PollTransient, PollAnswer, PollFatal,
             PollTimedOut, LoseLink, Wins
    <3> QED BY <1>1, <2>1, <3>1, <3>2, <3>3, PublisherIsAtWork DEF vars, daemonVars
  <2>3. ASSUME NEW e \in before, e \in Replayable PROVE e \in posted
    <3>1. PICK i \in Turns : e = Order[i]
      BY <2>1, <2>3, EachHasItsTurn DEF CyclesTypeOK
    <3> QED BY <1>1, <2>1, <2>2, <2>3, <3>1 DEF BeforeIsBridged, HadTurn
  <2> QED BY <2>2, <2>3
<1>2. DaemonInv /\ [Steps]_daemonVars =>
        [Prompt /\ Bridge /\ pc = "publish" /\ pc' # "publish"
           => before' \cap Replayable \subseteq posted']_daemonVars
  BY <1>1
<1> QED BY <1>2, DaemonInvariance, PTL DEF Daemon, NextCycleBridges

\* No endpoint gets a replay from before the car slept, however the daemon is delayed.
THEOREM SleepIsFinal == Daemon => NothingFromBeforeSleep
<1>1. ASSUME DaemonInv, [Steps]_daemonVars, NEW e \in P!Endpoints,
             P!Posts(e), reading[e] = NoValue
      PROVE  e \notin rested
  <2>1. P!IInv /\ SleepIsKnown /\ [P!Next]_(P!vars)
    BY <1>1, PartsStep DEF DaemonInv
  <2>2. PP!IInv /\ [PP!Next]_(PP!vars) /\ PP!Posts(e) /\ e \in PP!Endpoints
    BY <1>1, <2>1, SameInv, SameNext, PublisherConstants
    DEF P!Posts, PP!Posts, P!Current, PP!Current
  <2>3. ~good[e].slept
    BY <1>1, <2>2, PublisherConstants, PP!ReplayFacts
    DEF PP!BreakerAssumption, PP!PublisherAssumption
  <2> QED BY <2>1, <2>3 DEF SleepIsKnown
<1>2. DaemonInv /\ [Steps]_daemonVars =>
        [\A e \in P!Endpoints : P!Posts(e) /\ reading[e] = NoValue => e \notin rested]_daemonVars
  BY <1>1
<1> QED BY <1>2, DaemonInvariance, PTL DEF Daemon, NothingFromBeforeSleep

=============================================================================
