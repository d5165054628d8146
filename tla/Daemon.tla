-------------------------------- MODULE Daemon --------------------------------
(***************************************************************************)
(* The daemon as main.rs puts it together: the loop of Scheduler and the   *)
(* Publisher it drives.  A poll that answers with metrics is followed by   *)
(* one publish, which `run` awaits to its end; a sleeping car empties the  *)
(* publisher's cache; any other outcome leaves the publisher alone.  Both  *)
(* parts share the clock, so that the pace of the one meets the replay     *)
(* limit and the request timeouts of the other.                            *)
(***************************************************************************)
EXTENDS Scheduler, Sequences

CONSTANTS Order, Replayable, Values, NoValue, MinReplayAge, RequestTimeout,
          Bridge, Threshold, BreakerDur   \* of Publisher and CircuitBreaker

VARIABLES
    breaker, cache, reading, k, inflight, up, good, failRun, sinceFail, spent,
    request,  \* time left of the request under way (Publisher's timer)
    before,   \* history: endpoints that accepted a reading of the last poll but one,
    now,      \*   and of the last poll
    posted,   \* history: endpoints that got a POST since the last poll
    rested    \* history: endpoints whose last good reading is from before a sleep

P == INSTANCE Publisher WITH timer <- request

publisherVars == <<breaker, cache, reading, k, inflight, up, good, failRun, sinceFail,
                   spent, request>>
cycleVars == <<before, now, posted, rested>>
daemonVars == <<vars, publisherVars, cycleVars>>

\* From one payload of an endpoint to its next turn: the other endpoints' POSTs, the pause and
\* a poll.  The code's 120 s and 3 x 10 s meet it at every interval: they are less than half of
\* MIN_REPLAY_AGE, 600 s.
ASSUME DaemonAssumption ==
    /\ P!BreakerAssumption /\ P!PublisherAssumption
    /\ PublishBound = P!LongestPublish
    /\ PublishBound - RequestTimeout + PollInterval + PollTimeout <= P!ReplayLimit

Start ==
    /\ Init /\ P!Init
    /\ before = {} /\ now = {} /\ posted = {} /\ rested = {}

\* A poll has ended: its cycle begins.
CycleBegins ==
    /\ before' = now /\ now' = {} /\ posted' = {}

-----------------------------------------------------------------------------
\* Ok(metrics): empty metrics make no payload, others may or may not make one.
Publish ==
    /\ PollOk /\ P!StartPublish
    /\ last' = "empty" => reading' = [e \in P!Endpoints |-> NoValue]
    /\ CycleBegins /\ UNCHANGED rested

\* Variant with a fault: the publisher is not told that the car sleeps.
SleepingUntold ==
    /\ PollSleeping /\ UNCHANGED publisherVars
    /\ CycleBegins /\ rested' = P!Endpoints

Sleeping ==
    /\ PollSleeping /\ P!OnSleeping
    /\ CycleBegins /\ rested' = P!Endpoints

\* A transient error, a lost link and a timeout publish nothing, not even a replay.
PollFailed ==
    /\ PollTransient \/ PollFatal \/ PollTimedOut
    /\ CycleBegins /\ UNCHANGED <<publisherVars, rested>>

\* publish goes on with the next endpoint, or a POST ends.
Publishing ==
    /\ pc = "publish"
    /\ \/ P!HandleEndpoint
          /\ posted' = posted \cup {e \in P!Endpoints : P!Posts(e)}
          /\ UNCHANGED <<now, rested>>
       \/ P!PostFailed /\ UNCHANGED <<now, rested, posted>>
       \/ P!PostOk /\ UNCHANGED posted
          /\ LET fresh == {P!Current} \cap {e \in P!Endpoints : reading[e] # NoValue} IN
             now' = now \cup fresh /\ rested' = rested \ fresh
    /\ UNCHANGED <<vars, before>>

\* publish has returned, and run goes on.
Published ==
    /\ k = 0 /\ PublishDone
    /\ UNCHANGED <<publisherVars, cycleVars>>

\* What run does by itself or with the adapter, and the signal thread.
Running ==
    /\ \/ SignalThread \/ ConnectOk \/ ConnectErr
       \/ PollWaitFuture \/ ShutdownBranch
       \/ ConnectCheck \/ StartConnect \/ ConnectTimeout \/ PauseOver
       \/ PollCheck \/ PaceOver \/ StartPoll \/ DisconnectDone
    /\ UNCHANGED <<publisherVars, cycleVars>>

Server ==
    /\ \E e \in P!Endpoints : P!ServerChanges(e)
    /\ UNCHANGED <<vars, cycleVars>>

Time ==
    /\ Tick /\ P!Tick
    /\ Prompt => ~(pc = "publish" /\ k = 0)
    /\ UNCHANGED cycleVars

Steps == Publish \/ Sleeping \/ PollFailed \/ Publishing \/ Published \/ Running \/ Server \/ Time

Daemon == Start /\ [][Steps]_daemonVars

-----------------------------------------------------------------------------
(* Properties *)

\* run and publish agree on who is at work, and the longest publish that Scheduler assumes,
\* in its bound on the stop, is the longest there is: when it is over, so is the request.
PublishInTime ==
    /\ k # 0 => pc = "publish"
    /\ P!PublishIsBounded
    /\ Prompt /\ pc = "publish" /\ timer = 0 /\ inflight # NoValue => request = 0

\* With code that takes no time, no pace and no slow server makes a payload expire before the
\* cycle that follows its own: an endpoint whose reading the last cycle delivered gets a POST
\* in this one too, a replay if need be (run, take_fresh, with_poll_interval).
NextCycleBridges ==
    [][Prompt /\ Bridge /\ pc = "publish" /\ pc' # "publish"
         => before' \cap Replayable \subseteq posted']_daemonVars

\* No endpoint gets a replay from before the car slept, whatever happened in between (run,
\* on_sleeping).
NothingFromBeforeSleep ==
    [][\A e \in P!Endpoints : P!Posts(e) /\ reading[e] = NoValue => e \notin rested]_daemonVars

-----------------------------------------------------------------------------
(* Why they hold: what is left of a cycle's time when it is at a given point *)

\* run and publish count the time of the same publish.
OnBudget ==
    /\ k # 0 => pc = "publish"
    /\ Prompt /\ k # 0 => spent + timer = PublishBound

SleepIsKnown == \A e \in rested : good[e].slept

Turns == 1..Len(Order)

\* The payload of the i-th endpoint would be replayed, but for its age.
Bridgeable(i) ==
    good[Order[i]].value # NoValue /\ ~good[Order[i]].slept /\ failRun[Order[i]] = 0

\* The longest that n turns take.
Span(n) == n * RequestTimeout

\* The longest from the i-th payload to the end of its publish, and to that of the next poll.
ToEnd(i)  == Span(Len(Order) - i)
ToNext(i) == ToEnd(i) + PollInterval + PollTimeout

\* A reading of the last poll: its age is on time for the next publish.
AgeOfNow(i, age) ==
    /\ k # 0 => i < k
    /\ Prompt /\ k # 0 /\ inflight = NoValue => age <= Span(k - 1 - i)
    /\ Prompt /\ k # 0 /\ inflight # NoValue => age + request <= Span(k - i)
    /\ Prompt /\ k = 0 /\ pc = "publish" => age <= ToEnd(i)
    /\ Prompt /\ pc \in {"poll_check", "pace"} => age + pollWait <= ToEnd(i) + PollInterval
    /\ Prompt /\ pc = "poll" => age + timer <= ToNext(i)

LastIsBridgeable ==
    /\ now # {} => \/ pc \in {"publish", "poll_check", "pace", "poll", "exit"}
                   \/ pc = "disconnect" /\ after \in Exits
    /\ \A i \in Turns : Order[i] \in now => Bridgeable(i) /\ AgeOfNow(i, good[Order[i]].age)
    /\ pc = "pace" => timer = pollWait

\* A reading of the poll before: its age is on time for its turn, and it gets its turn.
AgeOfBefore(i, age) ==
    Prompt =>
      /\ inflight = NoValue => age <= ToNext(i) + Span(k - 1)
      /\ inflight # NoValue => age + request <= ToNext(i) + Span(k)

HadTurn(i) == k = 0 \/ i < k \/ (i = k /\ inflight # NoValue)

BeforeIsBridged ==
    pc = "publish" =>
      \A i \in Turns : Order[i] \in before =>
        /\ k # 0 /\ i >= k => Bridgeable(i) /\ AgeOfBefore(i, good[Order[i]].age)
        /\ Prompt /\ Bridge /\ Order[i] \in Replayable /\ HadTurn(i) => Order[i] \in posted

CyclesTypeOK == {before, now, posted, rested} \subseteq SUBSET P!Endpoints

DaemonInv ==
    /\ IInv /\ P!IInv /\ CyclesTypeOK
    /\ OnBudget /\ SleepIsKnown /\ LastIsBridgeable /\ BeforeIsBridged

=============================================================================
