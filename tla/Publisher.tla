------------------------------ MODULE Publisher ------------------------------
(***************************************************************************)
(* output.rs, struct Publisher: `publish` takes the endpoints one after    *)
(* another; each gets this cycle's payload, or a replay of the last one it *)
(* accepted, through a circuit breaker of its own.  `on_sleeping` empties  *)
(* the cache.  `run` awaits the two in turn, so they never overlap.        *)
(*                                                                         *)
(* A POST takes time: the breaker is asked before it, and told after it.   *)
(* It ends by an answer or by REQUEST_TIMEOUT.  Whether an endpoint works  *)
(* is up to its server and changes at any time.                            *)
(*                                                                         *)
(* Times are ages that stop counting where no comparison can tell them     *)
(* apart any more.  With Prompt, code takes no time (see Scheduler).       *)
(***************************************************************************)
EXTENDS CircuitBreaker, Sequences

CONSTANTS
    Order,           \* the endpoints, in the order `publish` takes them
    Replayable,      \* those with a slot in PublishCache: all but the raw topic
    Values,          \* payloads
    NoValue,         \* no payload
    MinReplayAge,    \* MIN_REPLAY_AGE
    PollInterval,    \* daemon.poll_interval_secs
    RequestTimeout,  \* REQUEST_TIMEOUT
    Bridge,          \* daemon.bridge_dropouts
    Prompt

Endpoints == {Order[i] : i \in 1..Len(Order)}
Larger(a, b) == IF a >= b THEN a ELSE b

ASSUME PublisherAssumption ==
    /\ Order \in Seq(Endpoints) /\ Order # <<>>
    /\ \A i, j \in 1..Len(Order) : Order[i] = Order[j] => i = j
    /\ Replayable \subseteq Endpoints
    /\ NoValue \notin Values
    /\ {MinReplayAge, PollInterval, RequestTimeout} \subseteq Nat
    /\ {Bridge, Prompt} \subseteq BOOLEAN

\* with_poll_interval
ReplayLimit == Larger(MinReplayAge, 2 * PollInterval)

\* The longest `publish` of code that takes no time.
LongestPublish == Len(Order) * RequestTimeout

VARIABLES
    breaker,    \* breaker[e]: the endpoint's CircuitBreaker
    cache,      \* cache[e]: its Stamped payload; value NoValue when the slot is None
    reading,    \* reading[e]: what build_* makes of this cycle's metrics, or NoValue
    k,          \* the endpoint `publish` is at, as an index of Order; 0 outside publish
    inflight,   \* the payload being POSTed, or NoValue
    timer,      \* time left of the request's timeout
    up,         \* the endpoints whose server accepts a POST
    good,       \* history: the last payload of a reading that e accepted, its age, and
                \*   whether the car slept since
    failRun,    \* history: consecutive failed POSTs to e, up to TripCount
    sinceFail,  \* history: time since the last of them, up to BreakerDur
    spent       \* history, with Prompt only: the duration of this publish

historyVars == <<good, failRun, sinceFail>>
vars == <<breaker, cache, reading, k, inflight, timer, up, historyVars, spent>>

MaxAge == ReplayLimit + 1
Empty  == [value |-> NoValue, age |-> 0]

Init ==
    /\ breaker = [e \in Endpoints |-> NewBreaker]
    /\ cache = [e \in Endpoints |-> Empty]
    /\ reading = [e \in Endpoints |-> NoValue]
    /\ k = 0
    /\ inflight = NoValue
    /\ timer = 0
    /\ up \in SUBSET Endpoints
    /\ good = [e \in Endpoints |-> [value |-> NoValue, age |-> 0, slept |-> FALSE]]
    /\ failRun = [e \in Endpoints |-> 0]
    /\ sinceFail = [e \in Endpoints |-> BreakerDur]
    /\ spent = 0

-----------------------------------------------------------------------------
Current == Order[k]

\* A new cycle's metrics: any endpoint may or may not find its fields in them.
StartPublish ==
    /\ k = 0
    /\ reading' \in [Endpoints -> Values \cup {NoValue}]
    /\ k' = 1
    /\ spent' = 0
    /\ UNCHANGED <<breaker, cache, inflight, timer, up, historyVars>>

\* Go on with the next endpoint; after the last, `publish` returns.
Advance ==
    /\ k' = IF k = Len(Order) THEN 0 ELSE k + 1
    /\ inflight' = NoValue
    /\ timer' = 0
    /\ reading' = IF k = Len(Order) THEN [e \in Endpoints |-> NoValue] ELSE reading

\* Variant with a fault: an entry exactly as old as the limit is dropped.
TakeFreshTooShort(e) ==
    IF cache[e].value # NoValue /\ cache[e].age < ReplayLimit THEN cache[e] ELSE Empty

\* take_fresh: an entry that is too old is dropped, one that is not is left as it is.
TakeFresh(e) ==
    IF cache[e].value # NoValue /\ cache[e].age <= ReplayLimit THEN cache[e] ELSE Empty

Replays(e) == reading[e] = NoValue /\ Bridge /\ e \in Replayable

Payload(e) == IF Replays(e) THEN TakeFresh(e).value ELSE reading[e]

\* Variant with a fault: the request has the connect timeout on top of its own.
HandleEndpointTwoTimeouts ==
    /\ k # 0
    /\ inflight = NoValue
    /\ cache' = IF Replays(Current)
                  THEN [cache EXCEPT ![Current] = TakeFresh(Current)] ELSE cache
    /\ IF Payload(Current) # NoValue /\ Allow(breaker[Current])
         THEN /\ inflight' = Payload(Current)
              /\ timer' = RequestTimeout + 1
              /\ UNCHANGED <<k, reading>>
         ELSE Advance
    /\ UNCHANGED <<breaker, up, historyVars, spent>>

\* Pick the payload and ask the breaker; POST, or leave the endpoint alone.
HandleEndpoint ==
    /\ k # 0
    /\ inflight = NoValue
    /\ cache' = IF Replays(Current)
                  THEN [cache EXCEPT ![Current] = TakeFresh(Current)] ELSE cache
    /\ IF Payload(Current) # NoValue /\ Allow(breaker[Current])
         THEN /\ inflight' = Payload(Current)
              /\ timer' = RequestTimeout
              /\ UNCHANGED <<k, reading>>
         ELSE Advance
    /\ UNCHANGED <<breaker, up, historyVars, spent>>

\* Variant with a fault: a replay is cached again, as if it were a new reading.
PostOkCachesReplays ==
    /\ inflight # NoValue
    /\ Current \in up
    /\ breaker' = [breaker EXCEPT ![Current] = RecordSuccess(@)]
    /\ cache' = IF Current \in Replayable
                  THEN [cache EXCEPT ![Current] = [value |-> inflight, age |-> 0]]
                  ELSE cache
    /\ good' = IF reading[Current] # NoValue
                 THEN [good EXCEPT ![Current] =
                         [value |-> inflight, age |-> 0, slept |-> FALSE]]
                 ELSE good
    /\ failRun' = [failRun EXCEPT ![Current] = 0]
    /\ sinceFail' = [sinceFail EXCEPT ![Current] = BreakerDur]
    /\ Advance
    /\ UNCHANGED <<up, spent>>

\* The endpoint accepts the POST; a payload of this cycle's metrics is cached.
PostOk ==
    /\ inflight # NoValue
    /\ Current \in up
    /\ breaker' = [breaker EXCEPT ![Current] = RecordSuccess(@)]
    /\ IF reading[Current] # NoValue
         THEN /\ cache' = IF Current \in Replayable
                            THEN [cache EXCEPT ![Current] = [value |-> inflight, age |-> 0]]
                            ELSE cache
              /\ good' = [good EXCEPT ![Current] =
                            [value |-> inflight, age |-> 0, slept |-> FALSE]]
         ELSE UNCHANGED <<cache, good>>
    /\ failRun' = [failRun EXCEPT ![Current] = 0]
    /\ sinceFail' = [sinceFail EXCEPT ![Current] = BreakerDur]
    /\ Advance
    /\ UNCHANGED <<up, spent>>

\* An error status, a connection error, or no answer in time.
PostFailed ==
    /\ inflight # NoValue
    /\ Current \notin up
    /\ breaker' = [breaker EXCEPT ![Current] = RecordFailure(@)]
    /\ failRun' = [failRun EXCEPT ![Current] = IF @ < TripCount THEN @ + 1 ELSE @]
    /\ sinceFail' = [sinceFail EXCEPT ![Current] = 0]
    /\ Advance
    /\ UNCHANGED <<cache, up, good, spent>>

\* on_sleeping
OnSleeping ==
    /\ k = 0
    /\ cache' = [e \in Endpoints |-> Empty]
    /\ good' = [e \in Endpoints |-> [good[e] EXCEPT !.slept = TRUE]]
    /\ UNCHANGED <<breaker, reading, k, inflight, timer, up, failRun, sinceFail, spent>>

\* A server starts to work, or stops.
ServerChanges(e) ==
    /\ up' = (up \ {e}) \cup ({e} \ up)
    /\ UNCHANGED <<breaker, cache, reading, k, inflight, timer, historyVars, spent>>

-----------------------------------------------------------------------------
Aged(s) == IF s.value # NoValue /\ s.age < MaxAge THEN [s EXCEPT !.age = @ + 1] ELSE s

\* Some code can run now: between two POSTs, or when a request's time is up.
Runnable == k # 0 /\ (inflight = NoValue \/ timer = 0)

Tick ==
    /\ Prompt => ~Runnable
    /\ breaker' = [e \in Endpoints |-> Older(breaker[e])]
    /\ cache' = [e \in Endpoints |-> Aged(cache[e])]
    /\ good' = [e \in Endpoints |-> Aged(good[e])]
    /\ sinceFail' = [e \in Endpoints |->
                       IF sinceFail[e] < BreakerDur THEN sinceFail[e] + 1 ELSE BreakerDur]
    /\ timer' = IF timer > 0 THEN timer - 1 ELSE 0
    /\ spent' = IF Prompt /\ k # 0 /\ spent <= LongestPublish THEN spent + 1 ELSE spent
    /\ UNCHANGED <<reading, k, inflight, up, failRun>>

Next ==
    \/ StartPublish \/ HandleEndpoint \/ PostOk \/ PostFailed
    \/ OnSleeping
    \/ \E e \in Endpoints : ServerChanges(e)
    \/ Tick

\* Time passes; `publish` runs on, and a request ends when its time is up.
Fairness ==
    /\ WF_vars(Tick)
    /\ WF_vars(HandleEndpoint)
    /\ WF_vars(timer = 0 /\ (PostOk \/ PostFailed))

Spec == Init /\ [][Next]_vars /\ Fairness

-----------------------------------------------------------------------------
Payloads == Values \cup {NoValue}
Slots    == [value : Payloads, age : 0..MaxAge]
Goods    == [value : Payloads, age : 0..MaxAge, slept : BOOLEAN]

TypeOK ==
    /\ breaker \in [Endpoints -> Breakers]
    /\ cache \in [Endpoints -> Slots]
    /\ reading \in [Endpoints -> Payloads]
    /\ k \in 0..Len(Order)
    /\ inflight \in Payloads
    /\ timer \in 0..RequestTimeout
    /\ up \in SUBSET Endpoints
    /\ good \in [Endpoints -> Goods]
    /\ failRun \in [Endpoints -> 0..TripCount]
    /\ sinceFail \in [Endpoints -> 0..BreakerDur]
    /\ spent \in 0..(LongestPublish + 1)

\* A breaker's state is the one that the answers seen so far ask for.
Tracks(b, run, since) ==
    /\ b.failures = run
    /\ b.open <=> run = TripCount
    /\ b.open => b.age = since

BreakerTracksAnswers ==
    \A e \in Endpoints : Tracks(breaker[e], failRun[e], sinceFail[e])

\* The cache holds the last good payload, unless it is too old or the car slept.
CacheTracksGood ==
    \A e \in Endpoints :
       /\ cache[e].value # NoValue =>
             /\ e \in Replayable
             /\ good[e] = [value |-> cache[e].value, age |-> cache[e].age, slept |-> FALSE]
       /\ e \in Replayable /\ good[e].age <= ReplayLimit /\ ~good[e].slept =>
             cache[e].value = good[e].value

\* A POST in flight is a payload of this cycle, or a replay.
InflightExplained ==
    /\ k = 0 => inflight = NoValue
    /\ inflight # NoValue =>
          \/ inflight = reading[Current]
          \/ Replays(Current)

\* The endpoints before the current one took a request's timeout at most, and so may this one.
OnSchedule ==
    /\ ~Prompt => spent = 0
    /\ k = 0 => spent <= LongestPublish
    /\ k # 0 /\ inflight = NoValue => spent <= (k - 1) * RequestTimeout
    /\ k # 0 /\ inflight # NoValue => spent + timer <= k * RequestTimeout

IInv ==
    /\ TypeOK
    /\ BreakerTracksAnswers
    /\ CacheTracksGood
    /\ InflightExplained
    /\ OnSchedule

-----------------------------------------------------------------------------
Posts(e) == k # 0 /\ e = Current /\ inflight = NoValue /\ inflight' # NoValue

LeftAlone(e) == k # 0 /\ e = Current /\ inflight = NoValue /\ k' # k

\* After publish_failure_threshold consecutive failures, for publish_breaker_secs.
Muted(e) == failRun[e] = TripCount /\ sinceFail[e] < BreakerDur

(***************************************************************************)
(* The README on the circuit breaker, in terms of what the endpoint sees:  *)
(* after publish_failure_threshold consecutive failed POSTs it gets none   *)
(* for publish_breaker_secs, also when the one that failed last was the    *)
(* probe that ended such a pause; replays count like any other POST.       *)
(***************************************************************************)
NoPostWhileMuted == [][\A e \in Endpoints : Posts(e) => ~Muted(e)]_vars

(***************************************************************************)
(* And only then: a payload is withheld from an endpoint for no other      *)
(* reason, in particular not because of the failures of another endpoint   *)
(* or of a run of failures that a success has ended.                       *)
(***************************************************************************)
WithheldOnlyWhileMuted ==
    [][\A e \in Endpoints :
         LeftAlone(e) /\ reading[e] # NoValue => Muted(e)]_vars

(***************************************************************************)
(* bridge_dropouts: what is POSTed without a reading is the last payload   *)
(* of a reading that the endpoint accepted, at most ReplayLimit ago, with  *)
(* no sleep of the car since; the raw topic is never replayed.  A replay   *)
(* is not a reading: it must not keep itself alive.                        *)
(***************************************************************************)
ReplaysLastGood ==
    [][\A e \in Endpoints :
         Posts(e) /\ reading[e] = NoValue =>
            /\ Bridge /\ e \in Replayable
            /\ inflight' = good[e].value
            /\ good[e].age <= ReplayLimit
            /\ ~good[e].slept]_vars

(***************************************************************************)
(* And a dropout is bridged whenever there is such a payload: an attempt   *)
(* to replay, or failures in between, do not lose it.                      *)
(***************************************************************************)
DropoutsAreBridged ==
    [][\A e \in Replayable :
         LeftAlone(e) /\ reading[e] = NoValue /\ Bridge =>
            \/ good[e].value = NoValue
            \/ good[e].age > ReplayLimit
            \/ good[e].slept
            \/ Muted(e)]_vars

(***************************************************************************)
(* `publish` is awaited outside the race with the shutdown signal, so it   *)
(* must end even if no server ever answers, within its requests' timeouts. *)
(***************************************************************************)
PublishIsBounded == spent <= LongestPublish

(***************************************************************************)
(* An endpoint whose server recovers for good, and that keeps getting      *)
(* readings, ends with its breaker closed for good.                        *)
(***************************************************************************)
EndpointsRecover ==
    \A e \in Endpoints :
       /\ <>[](e \in up)
       /\ []<>(k # 0 /\ reading[e] # NoValue)
       => <>[](~breaker[e].open)
=============================================================================
