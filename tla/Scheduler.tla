------------------------------ MODULE Scheduler ------------------------------
(***************************************************************************)
(* scheduler.rs, `run`: the loop that connects the adapter, polls it at    *)
(* the configured pace, hands each reading to the publisher, and ends on a *)
(* shutdown request or when the cycle watchdog trips.                      *)
(*                                                                         *)
(* pc names the point of `run` the task is at.  The five select!           *)
(* statements race Shutdown.wait (module Shutdown, one waiter) against a   *)
(* timer or an adapter call under a timer; `biased` polls the wait first,  *)
(* so another branch completes only while the wait is pending.  The        *)
(* publisher and the adapter's disconnect are awaited without that race.   *)
(*                                                                         *)
(* Time is discrete and relative: timer and pollWait count down, and Tick  *)
(* is the only action that moves them.  With Prompt the task and the       *)
(* signal thread take no time between two waits; without, they may be      *)
(* delayed for any time, as on a loaded machine.                           *)
(***************************************************************************)
EXTENDS Naturals

CONSTANTS
    PollInterval,       \* daemon.poll_interval_secs
    SleepInterval,      \* daemon.car_sleep_interval_secs
    ConnectBound,       \* adapter.connect_bound()
    PollTimeout,        \* POLL_TIMEOUT
    PublishBound,       \* longest publish: its POSTs, one after another, each time out
    DisconnectBound,    \* longest adapter.disconnect(); the code sets no bound
    CycleFailureLimit,  \* daemon.cycle_failure_limit, 0 disables the watchdog
    MaxCount,           \* largest no_publish_cycles told apart
    Prompt              \* TRUE: code takes no time; FALSE: it may be delayed

Positive == Nat \ {0}

ASSUME SchedulerAssumption ==
    /\ {PollInterval, SleepInterval, ConnectBound, PollTimeout} \subseteq Positive
    /\ {PublishBound, DisconnectBound, CycleFailureLimit, MaxCount} \subseteq Nat
    /\ MaxCount >= CycleFailureLimit
    /\ Prompt \in BOOLEAN

VARIABLES
    running, trigger, wait, listener,   \* the Shutdown object
    pc,          \* where `run` is
    after,       \* where it goes when the disconnect under way returns
    timer,       \* time left of the sleep or timeout of the await at pc
    pollWait,    \* poll_deadline - now, 0 once it has passed
    cycles,      \* no_publish_cycles
    adapter,     \* the adapter's link, and the call in progress on it
    last,        \* history: how the last adapter call ended
    quiet,       \* history: time since then, up to Horizon
    overdue      \* history: time since a trigger finished, up to LatencyBound + 1

shutdownVars == <<running, trigger, wait, listener>>
historyVars  == <<last, quiet>>
vars == <<shutdownVars, pc, after, timer, pollWait, cycles, adapter, historyVars, overdue>>

Run == "run"
S == INSTANCE Shutdown WITH Waiters <- {Run}

Selects  == {"connect", "retry", "pace", "poll", "lost"}
PcStates == Selects \cup {"connect_check", "poll_check", "publish", "disconnect", "exit"}
\* "dirty": a future was dropped in mid-call.  "broken": a poll reported the link lost.
Adapters == {"closed", "connecting", "open", "polling", "broken", "dirty"}
Calls    == {"connecting", "polling"}
Exits    == {"exit_clean", "exit_watchdog"}
Outcomes == {"none", "connected", "refused", "data", "empty", "transient", "lost", "asleep"}

Larger(a, b)  == IF a >= b THEN a ELSE b
Countdown(t)  == IF t > 0 THEN t - 1 ELSE 0
CountUp(t, max) == IF t < max THEN t + 1 ELSE max
Horizon       == Larger(PollInterval, SleepInterval)

\* A publish or a reconnecting disconnect may be under way, then one disconnect follows.
LatencyBound  == Larger(PublishBound, DisconnectBound) + DisconnectBound

Init ==
    /\ S!Init
    /\ pc = "connect_check"
    /\ after = "exit_clean"
    /\ timer = 0
    /\ pollWait = 0
    /\ cycles = 0
    /\ adapter = "closed"
    /\ last = "none"
    /\ quiet = Horizon
    /\ overdue = 0

-----------------------------------------------------------------------------
(* Steps common to several places of `run` *)

\* Go to p, where an await has d time units.
GoTo(p, d) ==
    /\ pc' = p
    /\ timer' = d
    /\ UNCHANGED after

\* adapter.disconnect().await, then go on at `next`.
Disconnect(next) ==
    /\ pc' = "disconnect"
    /\ after' = next
    /\ timer' = DisconnectBound

\* The wait was polled first, and is pending.
StillWaiting == wait[Run] = "parked" /\ listener[Run] = "listening"

\* A branch other than shutdown wins the select at p, and drops the wait.
Wins(p) ==
    /\ pc = p
    /\ StillWaiting
    /\ S!Drop(Run)

Ended(outcome) ==
    /\ last' = outcome
    /\ quiet' = 0

\* no_publish_cycles += 1, counted up to MaxCount.
Bump == CountUp(cycles, MaxCount)

WatchdogShouldFire(count) == CycleFailureLimit > 0 /\ count >= CycleFailureLimit

\* A cycle without data: count it, and give up or go on at the usual pace.
CountFruitless ==
    /\ cycles' = Bump
    /\ IF WatchdogShouldFire(Bump)
         THEN Disconnect("exit_watchdog") /\ UNCHANGED pollWait
         ELSE GoTo("poll_check", 0) /\ pollWait' = PollInterval

-----------------------------------------------------------------------------
(* The signal thread and the wait future *)

SignalThread ==
    /\ S!Trigger
    /\ UNCHANGED <<pc, after, timer, pollWait, cycles, adapter, historyVars, overdue>>

PollWaitFuture ==
    /\ pc \in Selects
    /\ S!Wait(Run)
    /\ UNCHANGED <<pc, after, timer, pollWait, cycles, adapter, historyVars, overdue>>

\* The shutdown branch of any of the selects; a call in progress is dropped.
ShutdownBranch ==
    /\ pc \in Selects
    /\ wait[Run] = "returned"
    /\ S!Drop(Run)
    /\ after' = "exit_clean"
    /\ IF pc = "lost"
         THEN pc' = "exit" /\ timer' = 0
         ELSE Disconnect("exit_clean")
    /\ adapter' = IF adapter \in Calls THEN "dirty" ELSE adapter
    /\ UNCHANGED <<pollWait, cycles, historyVars, overdue>>

-----------------------------------------------------------------------------
(* 'connect loop *)

ConnectCheck ==
    /\ pc = "connect_check"
    /\ IF running THEN GoTo("connect", ConnectBound) ELSE Disconnect("exit_clean")
    /\ UNCHANGED <<shutdownVars, pollWait, cycles, adapter, historyVars, overdue>>

\* The select polls the adapter's future for the first time.
StartCall(p, call) ==
    /\ pc = p
    /\ StillWaiting
    /\ adapter \notin Calls
    /\ adapter' = call
    /\ UNCHANGED <<shutdownVars, pc, after, timer, pollWait, cycles, historyVars, overdue>>

StartConnect == StartCall("connect", "connecting")

\* Variant with a fault: a reconnect starts the count of fruitless cycles again.
ConnectOkResets ==
    /\ Wins("connect")
    /\ adapter = "connecting"
    /\ adapter' = "open"
    /\ Ended("connected")
    /\ GoTo("poll_check", 0)
    /\ cycles' = 0
    /\ UNCHANGED <<pollWait, overdue>>

ConnectOk ==
    /\ Wins("connect")
    /\ adapter = "connecting"
    /\ adapter' = "open"
    /\ Ended("connected")
    /\ GoTo("poll_check", 0)
    /\ UNCHANGED <<pollWait, cycles, overdue>>

ConnectErr ==
    /\ Wins("connect")
    /\ adapter = "connecting"
    /\ adapter' = "closed"
    /\ Ended("refused")
    /\ GoTo("retry", PollInterval)
    /\ UNCHANGED <<pollWait, cycles, overdue>>

\* Variants with a fault: no disconnect after the timeout, and no timeout.
ConnectTimeoutKeepsLink ==
    /\ Wins("connect")
    /\ adapter = "connecting"
    /\ timer = 0
    /\ adapter' = "dirty"
    /\ Ended("refused")
    /\ GoTo("retry", PollInterval)
    /\ UNCHANGED <<pollWait, cycles, overdue>>

ConnectUnbounded == FALSE

ConnectTimeout ==
    /\ Wins("connect")
    /\ adapter = "connecting"
    /\ timer = 0
    /\ adapter' = "dirty"
    /\ Ended("refused")
    /\ Disconnect("retry")
    /\ UNCHANGED <<pollWait, cycles, overdue>>

\* The pause after a failed connect, or after a lost link, is over.
PauseOver ==
    /\ Wins("retry") \/ Wins("lost")
    /\ timer = 0
    /\ GoTo("connect_check", 0)
    /\ UNCHANGED <<pollWait, cycles, adapter, historyVars, overdue>>

-----------------------------------------------------------------------------
(* The polling loop *)

PollCheck ==
    /\ pc = "poll_check"
    /\ \/ ~running /\ Disconnect("exit_clean")
       \/ running /\ pollWait > 0 /\ GoTo("pace", pollWait)
       \/ running /\ pollWait = 0 /\ GoTo("poll", PollTimeout)
    /\ UNCHANGED <<shutdownVars, pollWait, cycles, adapter, historyVars, overdue>>

PaceOver ==
    /\ Wins("pace")
    /\ timer = 0
    /\ GoTo("poll_check", 0)
    /\ UNCHANGED <<pollWait, cycles, adapter, historyVars, overdue>>

StartPoll == StartCall("poll", "polling")

\* The adapter answers the poll; its link stays up.
PollAnswer(outcome) ==
    /\ Wins("poll")
    /\ adapter = "polling"
    /\ adapter' = "open"
    /\ Ended(outcome)
    /\ UNCHANGED overdue

\* Ok(metrics), with data or without: publish, and judge the cycle after that.
PollOk ==
    \E outcome \in {"data", "empty"} :
        /\ PollAnswer(outcome)
        /\ pc' = "publish"
        /\ timer' = PublishBound
        /\ UNCHANGED <<after, pollWait, cycles>>

PublishDone ==
    /\ pc = "publish"
    /\ \/ /\ last = "data"
          /\ cycles' = 0
          /\ pollWait' = PollInterval
          /\ GoTo("poll_check", 0)
       \/ /\ last = "empty"
          /\ CountFruitless
    /\ UNCHANGED <<shutdownVars, adapter, historyVars, overdue>>

PollTransient ==
    /\ PollAnswer("transient")
    /\ CountFruitless

\* Variant with a fault: a sleeping car is polled at the usual pace.
PollSleepingTooSoon ==
    /\ PollAnswer("asleep")
    /\ cycles' = 0
    /\ pollWait' = PollInterval
    /\ GoTo("poll_check", 0)

PollSleeping ==
    /\ PollAnswer("asleep")
    /\ cycles' = 0
    /\ pollWait' = SleepInterval
    /\ GoTo("poll_check", 0)

\* Variant with a fault: a lost link resets the count of fruitless cycles.
LoseLinkResets(how) ==
    /\ Wins("poll")
    /\ adapter = "polling"
    /\ adapter' = how
    /\ Ended("lost")
    /\ Disconnect("lost")
    /\ cycles' = 0
    /\ UNCHANGED <<pollWait, overdue>>

\* FatalConn: drop the link and pause before the next connect.
LoseLink(how) ==
    /\ Wins("poll")
    /\ adapter = "polling"
    /\ adapter' = how
    /\ Ended("lost")
    /\ Disconnect("lost")
    /\ UNCHANGED <<pollWait, cycles, overdue>>

PollFatal == LoseLink("broken")

PollTimedOut == timer = 0 /\ LoseLink("dirty")

-----------------------------------------------------------------------------
(* The disconnect returns; `next` is its continuation *)

DisconnectDone ==
    /\ pc = "disconnect"
    /\ adapter' = "closed"
    /\ IF after \in Exits
         THEN GoTo("exit", 0)
         ELSE GoTo(after, PollInterval)
    /\ UNCHANGED <<shutdownVars, pollWait, cycles, historyVars, overdue>>

-----------------------------------------------------------------------------
(* Time *)

\* Some code can run now.
Runnable ==
    \/ trigger = "stored"
    \/ pc \in {"connect_check", "poll_check"}
    \/ pc \in Selects /\ (~StillWaiting \/ timer = 0)
    \/ pc \in {"connect", "poll"} /\ adapter \notin Calls
    \/ pc \in {"publish", "disconnect"} /\ timer = 0

Tick ==
    /\ pc # "exit"
    /\ Prompt => ~Runnable
    /\ timer' = Countdown(timer)
    /\ pollWait' = Countdown(pollWait)
    /\ quiet' = CountUp(quiet, Horizon)
    /\ overdue' = IF ~running /\ trigger = "idle"
                    THEN CountUp(overdue, LatencyBound + 1) ELSE overdue
    /\ UNCHANGED <<shutdownVars, pc, after, cycles, adapter, last>>

-----------------------------------------------------------------------------
\* What the adapter answers, if it does.
Answer ==
    \/ ConnectOk \/ ConnectErr
    \/ PollOk \/ PollTransient \/ PollSleeping \/ PollFatal

\* What the task does by itself, the awaits with a bound of their own included.
Step ==
    \/ PollWaitFuture \/ ShutdownBranch
    \/ ConnectCheck \/ StartConnect \/ ConnectTimeout \/ PauseOver
    \/ PollCheck \/ PaceOver \/ StartPoll \/ PollTimedOut \/ PublishDone
    \/ DisconnectDone

Next == SignalThread \/ Answer \/ Step \/ Tick

\* Time passes, a trigger once begun finishes, and the task is scheduled; the
\* adapter owes no answer and nobody owes a signal.
Fairness ==
    /\ WF_vars(Tick)
    /\ WF_vars(SignalThread /\ trigger = "stored")
    /\ WF_vars(Step)

Spec == Init /\ [][Next]_vars /\ Fairness

-----------------------------------------------------------------------------
TypeOK ==
    /\ S!TypeOK
    /\ pc \in PcStates
    /\ after \in Exits \cup {"retry", "lost"}
    /\ timer \in Nat
    /\ pollWait \in Nat
    /\ cycles \in 0..MaxCount
    /\ adapter \in Adapters
    /\ last \in Outcomes
    /\ quiet \in 0..Horizon
    /\ overdue \in 0..(LatencyBound + 1)

\* Only a select holds a wait future.
WaitInSelect == pc \notin Selects => wait[Run] = "idle"

(***************************************************************************)
(* Where the adapter's link and calls stand at each point of `run`: a call *)
(* is in progress only under its own select, and only behind a pending     *)
(* wait; the polling loop has an open link; the pauses have none.          *)
(***************************************************************************)
LinkMatchesPc ==
    /\ pc \in {"connect_check", "retry", "lost", "exit"} => adapter = "closed"
    /\ pc = "connect" => adapter \in {"closed", "connecting"}
    /\ pc = "poll" => adapter \in {"open", "polling"}
    /\ pc \in {"poll_check", "pace", "publish"} => adapter = "open"
    /\ pc = "disconnect" => adapter \notin Calls
    /\ adapter \in Calls => wait[Run] \in {"parked", "returned"}

\* What the last call left for `run` to do.
OutcomeMatchesPc ==
    /\ pc = "publish" => last \in {"data", "empty"}
    /\ pc = "exit" => after \in Exits

\* The count stays under the limit until the trip that ends the run.
CountBelowLimit ==
    CycleFailureLimit > 0 =>
        \/ cycles < CycleFailureLimit
        \/ /\ cycles = CycleFailureLimit
           /\ pc \in {"disconnect", "exit"}
           /\ after = "exit_watchdog"

\* The least pause that must follow a call that ended so.
Gap(outcome) ==
    IF outcome = "asleep" THEN SleepInterval
    ELSE IF outcome \in {"none", "connected"} THEN 0 ELSE PollInterval

\* What is still to be waited for makes up the pause that the last call needs.
PauseKept ==
    /\ pc \in {"retry", "lost"} => quiet + timer >= Gap(last)
    /\ pc \in {"retry", "lost"} \/ (pc = "disconnect" /\ after \in {"retry", "lost"})
          => last \in {"refused", "lost"}
    /\ pc \in {"connect_check", "connect", "poll"} /\ adapter \notin Calls
          => quiet >= Gap(last)
    /\ pc \in {"poll_check", "pace"} => quiet + pollWait >= Gap(last)

(***************************************************************************)
(* With code that takes no time: what has passed since a trigger finished, *)
(* and what the await at pc may still take, is one publish or disconnect   *)
(* before the last disconnect, and that one after it.  Time only passes    *)
(* then in these awaits, since no wait future is pending any more.         *)
(***************************************************************************)
BeforeExit == Larger(PublishBound, DisconnectBound)

OnTime ==
    Prompt =>
      /\ overdue > 0 => ~running /\ ~StillWaiting
      /\ pc \notin {"disconnect", "exit"} => overdue <= BeforeExit
      /\ pc = "publish" \/ (pc = "disconnect" /\ after \notin Exits)
            => overdue + timer <= BeforeExit
      /\ pc = "disconnect" => overdue + timer <= LatencyBound

IInv ==
    /\ TypeOK
    /\ S!IInv
    /\ WaitInSelect
    /\ LinkMatchesPc
    /\ OutcomeMatchesPc
    /\ CountBelowLimit
    /\ PauseKept
    /\ OnTime

(***************************************************************************)
(* `run` never returns with the adapter connected, or with a call dropped  *)
(* halfway on its link: every way out goes through a disconnect, including *)
(* the pause after a lost link, which leaves without one of its own.       *)
(***************************************************************************)
ExitsDisconnected == pc = "exit" => adapter = "closed"

(***************************************************************************)
(* The contract of trait Adapter: after a dropped connect or poll future,  *)
(* and after a lost link, the adapter is disconnected before it is used    *)
(* again; and it polls only over a link a connect has opened.              *)
(***************************************************************************)
NoReuseWithoutDisconnect ==
    [][/\ adapter' = "connecting" => adapter \in {"closed", "connecting"}
       /\ adapter' = "polling" => adapter \in {"open", "polling"}]_vars

(***************************************************************************)
(* Pacing: whatever the sequence of outcomes, timeouts and reconnects, the *)
(* adapter is left alone for poll_interval after each poll, lost link or   *)
(* failed connect, and for car_sleep_interval after it found the car       *)
(* asleep.  A permanently failing adapter is never hammered.               *)
(***************************************************************************)
Paced ==
    [][adapter' \in Calls /\ adapter \notin Calls => quiet >= Gap(last)]_vars

(***************************************************************************)
(* Once a trigger has finished, `run` starts no new call on the adapter,   *)
(* wherever the signal found it.                                           *)
(***************************************************************************)
NoCallAfterShutdown ==
    [][~running /\ trigger = "idle" =>
         ~(adapter' \in Calls /\ adapter \notin Calls)]_vars

(***************************************************************************)
(* With code that takes no time, a finished trigger ends the run within    *)
(* LatencyBound: neither an adapter that never answers nor a pause of any  *)
(* length is waited for, only a publish and the disconnects.               *)
(***************************************************************************)
ShutdownIsPrompt == Prompt /\ pc # "exit" => overdue <= LatencyBound

(***************************************************************************)
(* The watchdog and the exit code keep the README's promise (CycleHealth). *)
(***************************************************************************)
Health == INSTANCE CycleHealth WITH
    fruitless <- IF CycleFailureLimit > 0 THEN cycles ELSE 0,
    asked     <- ~running,
    outcome   <- IF last \in {"data", "asleep"} THEN "good"
                 ELSE IF last \in {"empty", "transient"} THEN "fruitless" ELSE "link",
    status    <- IF pc \notin {"disconnect", "exit"} \/ after \notin Exits
                   THEN "running"
                   ELSE IF after = "exit_watchdog" THEN "tripped" ELSE "stopped"

WatchdogContract == Health!Spec

-----------------------------------------------------------------------------
(***************************************************************************)
(* A signal that reached `trigger` ends the run, wherever it finds it and  *)
(* even if the adapter never answers.                                      *)
(***************************************************************************)
ShutdownEnds == trigger = "stored" ~> pc = "exit"

(***************************************************************************)
(* The daemon never hangs on its adapter: every call ends, by an answer, a *)
(* timeout or a shutdown, and after it another call begins or the run ends.*)
(***************************************************************************)
NeverStuck ==
    /\ adapter \in Calls ~> adapter \notin Calls
    /\ adapter \notin Calls ~> (adapter \in Calls \/ pc = "exit")

(***************************************************************************)
(* A source that stops yielding data trips the watchdog even when lost     *)
(* links and failed connects come between its fruitless cycles for ever.   *)
(***************************************************************************)
StarvationTrips ==
    /\ CycleFailureLimit > 0
    /\ <>[](last \notin {"data", "asleep"})
    /\ []<>(last \in {"empty", "transient"})
    => <>(pc = "exit")
=============================================================================
