--------------------------- MODULE PublisherProofs ---------------------------
(***************************************************************************)
(* Publisher for any endpoints, payloads, thresholds and limits: the       *)
(* breakers and the cache are what the answers so far make of them, so a   *)
(* muted endpoint gets no POST, and a replay is the last good payload.     *)
(***************************************************************************)
EXTENDS Publisher, TLAPS

-----------------------------------------------------------------------------
(* Constants and the order of the endpoints *)

LEMMA BoundsAreNat ==
  /\ TripCount \in Nat \ {0}
  /\ BreakerDur \in Nat /\ Threshold \in Nat /\ RequestTimeout \in Nat
  /\ ReplayLimit \in Nat /\ MaxAge \in Nat /\ MaxAge = ReplayLimit + 1
  BY BreakerAssumption, PublisherAssumption DEF TripCount, ReplayLimit, MaxAge, Larger

LEMMA LenIsNat == Len(Order) \in Nat
  BY PublisherAssumption

LEMMA LongestPublishIsNat == LongestPublish \in Nat
<1>1. \A m, n \in Nat : m * n \in Nat
  OBVIOUS
<1> QED BY <1>1, LenIsNat, BoundsAreNat DEF LongestPublish

LEMMA CurrentIsEndpoint == k \in 0..Len(Order) /\ k # 0 => Current \in Endpoints
  BY LenIsNat DEF Current, Endpoints

-----------------------------------------------------------------------------
(* The breaker *)

LEMMA BreakerTypes ==
  /\ NewBreaker \in Breakers
  /\ \A b \in Breakers : Older(b) \in Breakers
  /\ \A b \in Breakers :
        ~b.open /\ b.failures < TripCount => RecordFailure(b) \in Breakers
  /\ \A b \in Breakers : b.open => RecordFailure(b) \in Breakers
<1> USE BoundsAreNat DEF Breakers
<1>1. NewBreaker \in Breakers
  BY DEF NewBreaker
<1>2. ASSUME NEW b \in Breakers PROVE Older(b) \in Breakers
  BY DEF Older
<1>3. ASSUME NEW b \in Breakers, ~b.open, b.failures < TripCount
      PROVE  RecordFailure(b) \in Breakers
  BY <1>3 DEF RecordFailure
<1>4. ASSUME NEW b \in Breakers, b.open PROVE RecordFailure(b) \in Breakers
  BY <1>4 DEF RecordFailure
<1> QED BY <1>1, <1>2, <1>3, <1>4

LEMMA FailureTracks ==
  ASSUME NEW b \in Breakers, NEW run \in 0..TripCount, NEW since \in 0..BreakerDur,
         Tracks(b, run, since)
  PROVE  /\ RecordFailure(b) \in Breakers
         /\ Tracks(RecordFailure(b), IF run < TripCount THEN run + 1 ELSE run, 0)
<1> USE BoundsAreNat
<1>1. CASE b.open
  BY <1>1, BreakerTypes DEF Tracks, RecordFailure, Breakers
<1>2. CASE ~b.open
  <2>1. run < TripCount /\ b.failures = run
    BY <1>2 DEF Tracks
  <2>2. RecordFailure(b) \in Breakers
    BY <1>2, <2>1, BreakerTypes
  <2>3. run + 1 >= Threshold <=> run + 1 = TripCount
    BY <2>1 DEF TripCount
  <2> QED BY <1>2, <2>1, <2>2, <2>3 DEF Tracks, RecordFailure
<1> QED BY <1>1, <1>2

LEMMA OlderTracks ==
  ASSUME NEW b \in Breakers, NEW run \in 0..TripCount, NEW since \in 0..BreakerDur,
         Tracks(b, run, since)
  PROVE  Tracks(Older(b), run, IF since < BreakerDur THEN since + 1 ELSE BreakerDur)
  BY BoundsAreNat DEF Tracks, Older, Breakers

-----------------------------------------------------------------------------
(* The entries of the cache, and of the history *)

LEMMA SlotTypes ==
  /\ Empty \in Slots
  /\ \A v \in Payloads : [value |-> v, age |-> 0] \in Slots
  /\ \A s \in Slots : Aged(s) \in Slots /\ s.value \in Payloads
  BY BoundsAreNat DEF Slots, Empty, Aged, Payloads

LEMMA GoodTypes ==
  /\ \A v \in Payloads, b \in BOOLEAN : [value |-> v, age |-> 0, slept |-> b] \in Goods
  /\ \A g \in Goods : Aged(g) \in Goods /\ [g EXCEPT !.slept = TRUE] \in Goods
<1>1. \A v \in Payloads, b \in BOOLEAN : [value |-> v, age |-> 0, slept |-> b] \in Goods
  BY BoundsAreNat DEF Goods
<1>2. ASSUME NEW g \in Goods PROVE Aged(g) \in Goods
  <2>1. CASE g.value # NoValue /\ g.age < MaxAge
    <3>1. g.age + 1 \in 0..MaxAge
      BY <2>1, BoundsAreNat DEF Goods
    <3> QED BY <2>1, <3>1 DEF Goods, Aged
  <2>2. CASE ~(g.value # NoValue /\ g.age < MaxAge)
    BY <2>2 DEF Aged
  <2> QED BY <2>1, <2>2
<1>3. ASSUME NEW g \in Goods PROVE [g EXCEPT !.slept = TRUE] \in Goods
  BY DEF Goods
<1> QED BY <1>1, <1>2, <1>3

-----------------------------------------------------------------------------
(* The inductive invariant *)

LEMMA InitIInv == Init => IInv
<1> SUFFICES ASSUME Init PROVE IInv
  OBVIOUS
<1> USE BoundsAreNat, LenIsNat, LongestPublishIsNat, PublisherAssumption DEF Init
<1>1. TypeOK
  BY BreakerTypes, SlotTypes DEF TypeOK, Payloads, Goods
<1>2. BreakerTracksAnswers
  BY DEF BreakerTracksAnswers, Tracks, NewBreaker
<1>3. CacheTracksGood
  BY DEF CacheTracksGood, Empty
<1>4. InflightExplained
  BY DEF InflightExplained
<1>5. OnSchedule
  BY DEF OnSchedule
<1> QED BY <1>1, <1>2, <1>3, <1>4, <1>5 DEF IInv

LEMMA AdvanceTypes ==
  ASSUME TypeOK, k # 0, Advance
  PROVE  /\ k' \in 0..Len(Order)
         /\ inflight' \in Payloads
         /\ timer' \in 0..RequestTimeout
         /\ reading' \in [Endpoints -> Payloads]
<1>1. k' \in 0..Len(Order)
  BY LenIsNat DEF Advance, TypeOK
<1>2. inflight' \in Payloads /\ timer' \in 0..RequestTimeout
  BY BoundsAreNat DEF Advance, Payloads
<1>3. reading' \in [Endpoints -> Payloads]
  BY DEF Advance, TypeOK, Payloads
<1> QED BY <1>1, <1>2, <1>3

LEMMA TickTypes ==
  ASSUME TypeOK, Tick
  PROVE  TypeOK'
<1> USE BoundsAreNat DEF TypeOK
<1>1. breaker' \in [Endpoints -> Breakers]
  BY BreakerTypes DEF Tick
<1>2. cache' \in [Endpoints -> Slots]
  BY SlotTypes DEF Tick
<1>3. good' \in [Endpoints -> Goods]
  BY GoodTypes DEF Tick
<1>4. sinceFail' \in [Endpoints -> 0..BreakerDur]
  <2>1. \A x \in 0..BreakerDur :
           (IF x < BreakerDur THEN x + 1 ELSE BreakerDur) \in 0..BreakerDur
    BY ONLY BoundsAreNat
  <2> QED BY <2>1 DEF Tick
<1>5. timer' \in 0..RequestTimeout
  <2>1. \A x \in 0..RequestTimeout : (IF x > 0 THEN x - 1 ELSE 0) \in 0..RequestTimeout
    BY ONLY BoundsAreNat
  <2> QED BY <2>1 DEF Tick
<1>6. spent' \in 0..(LongestPublish + 1)
  <2>1. \A x \in 0..(LongestPublish + 1) : x <= LongestPublish => x + 1 \in 0..(LongestPublish + 1)
    BY ONLY LongestPublishIsNat
  <2> QED BY <2>1 DEF Tick
<1> QED BY <1>1, <1>2, <1>3, <1>4, <1>5, <1>6 DEF Tick, historyVars

LEMMA NextTypeOK ==
  ASSUME IInv, [Next]_vars
  PROVE  TypeOK'
<1>0. TypeOK
  BY DEF IInv
<1>1. CASE StartPublish
  <2>1. k' \in 0..Len(Order) /\ spent' \in 0..(LongestPublish + 1)
    BY <1>1, LenIsNat, LongestPublishIsNat, PublisherAssumption DEF StartPublish
  <2>2. reading' \in [Endpoints -> Payloads]
    BY <1>1 DEF StartPublish, Payloads
  <2> QED BY <1>0, <1>1, <2>1, <2>2 DEF StartPublish, TypeOK, historyVars
<1>2. CASE HandleEndpoint
  <2>1. Current \in Endpoints
    BY <1>0, <1>2, CurrentIsEndpoint DEF HandleEndpoint, TypeOK
  <2>2. TakeFresh(Current) \in Slots
    BY <1>0, <2>1, SlotTypes DEF TakeFresh, TypeOK
  <2>3. cache' \in [Endpoints -> Slots]
    BY <1>0, <1>2, <2>1, <2>2 DEF HandleEndpoint, TypeOK
  <2>4. Payload(Current) \in Payloads
    BY <1>0, <2>1, <2>2, SlotTypes DEF Payload, TypeOK
  <2>5. /\ k' \in 0..Len(Order)
        /\ inflight' \in Payloads
        /\ timer' \in 0..RequestTimeout
        /\ reading' \in [Endpoints -> Payloads]
    <3>1. CASE Advance
      BY <1>0, <1>2, <3>1, AdvanceTypes DEF HandleEndpoint
    <3>2. CASE /\ inflight' = Payload(Current)
               /\ timer' = RequestTimeout
               /\ UNCHANGED <<k, reading>>
      BY <1>0, <2>4, <3>2, BoundsAreNat DEF TypeOK
    <3> QED BY <1>2, <3>1, <3>2 DEF HandleEndpoint
  <2> QED BY <1>0, <1>2, <2>3, <2>5 DEF HandleEndpoint, TypeOK, historyVars
<1>3. CASE PostOk
  <2>1. k # 0 /\ Current \in Endpoints
    BY <1>0, <1>3, CurrentIsEndpoint DEF PostOk, InflightExplained, IInv, TypeOK
  <2>2. breaker' \in [Endpoints -> Breakers]
    BY <1>0, <1>3, <2>1, BreakerTypes DEF PostOk, RecordSuccess, TypeOK
  <2>3. cache' \in [Endpoints -> Slots]
    BY <1>0, <1>3, <2>1, SlotTypes DEF PostOk, TypeOK
  <2>4. good' \in [Endpoints -> Goods]
    BY <1>0, <1>3, <2>1, GoodTypes DEF PostOk, TypeOK
  <2>5. failRun' \in [Endpoints -> 0..TripCount] /\ sinceFail' \in [Endpoints -> 0..BreakerDur]
    BY <1>0, <1>3, <2>1, BoundsAreNat DEF PostOk, TypeOK
  <2>6. Advance /\ UNCHANGED <<up, spent>>
    BY <1>3 DEF PostOk
  <2> QED BY <1>0, <2>1, <2>2, <2>3, <2>4, <2>5, <2>6, AdvanceTypes DEF TypeOK
<1>4. CASE PostFailed
  <2>1. k # 0 /\ Current \in Endpoints
    BY <1>0, <1>4, CurrentIsEndpoint DEF PostFailed, InflightExplained, IInv, TypeOK
  <2>2. RecordFailure(breaker[Current]) \in Breakers
    BY <1>0, <2>1, FailureTracks DEF IInv, TypeOK, BreakerTracksAnswers
  <2>3. breaker' \in [Endpoints -> Breakers]
    BY <1>0, <1>4, <2>1, <2>2 DEF PostFailed, TypeOK
  <2>4. failRun' \in [Endpoints -> 0..TripCount]
    BY <1>0, <1>4, <2>1, BoundsAreNat DEF PostFailed, TypeOK
  <2>5. sinceFail' \in [Endpoints -> 0..BreakerDur]
    BY <1>0, <1>4, <2>1, BoundsAreNat DEF PostFailed, TypeOK
  <2>6. Advance /\ UNCHANGED <<cache, up, good, spent>>
    BY <1>4 DEF PostFailed
  <2> QED BY <1>0, <2>1, <2>3, <2>4, <2>5, <2>6, AdvanceTypes DEF TypeOK
<1>5. CASE OnSleeping
  <2>1. cache' \in [Endpoints -> Slots]
    BY <1>5, SlotTypes DEF OnSleeping
  <2>2. good' \in [Endpoints -> Goods]
    BY <1>0, <1>5, GoodTypes DEF OnSleeping, TypeOK
  <2> QED BY <1>0, <1>5, <2>1, <2>2 DEF OnSleeping, TypeOK
<1>6. CASE \E e \in Endpoints : ServerChanges(e)
  <2>1. PICK e \in Endpoints : ServerChanges(e)
    BY <1>6
  <2>2. up' \in SUBSET Endpoints
    BY <1>0, <2>1 DEF ServerChanges, TypeOK
  <2> QED BY <1>0, <2>1, <2>2 DEF ServerChanges, TypeOK, historyVars
<1>7. CASE Tick
  BY <1>0, <1>7, TickTypes
<1>8. CASE UNCHANGED vars
  BY <1>0, <1>8 DEF vars, TypeOK, historyVars
<1> QED BY <1>1, <1>2, <1>3, <1>4, <1>5, <1>6, <1>7, <1>8 DEF Next

LEMMA NextTracks ==
  ASSUME IInv, [Next]_vars
  PROVE  BreakerTracksAnswers'
<1>0. TypeOK /\ \A e \in Endpoints : Tracks(breaker[e], failRun[e], sinceFail[e])
  BY DEF IInv, BreakerTracksAnswers
<1>1. CASE PostOk
  <2>1. k # 0 /\ Current \in Endpoints
    BY <1>0, <1>1, CurrentIsEndpoint DEF PostOk, InflightExplained, IInv, TypeOK
  <2>2. ASSUME NEW e \in Endpoints, e # Current
        PROVE  breaker'[e] = breaker[e] /\ failRun'[e] = failRun[e] /\ sinceFail'[e] = sinceFail[e]
    BY <1>0, <1>1, <2>2 DEF PostOk, TypeOK
  <2>3. /\ breaker'[Current] = NewBreaker
        /\ failRun'[Current] = 0
    BY <1>0, <1>1, <2>1 DEF PostOk, TypeOK, RecordSuccess
  <2>4. Tracks(breaker'[Current], failRun'[Current], sinceFail'[Current])
    BY <2>3, BoundsAreNat DEF Tracks, NewBreaker
  <2> QED BY <1>0, <2>2, <2>4 DEF BreakerTracksAnswers
<1>2. CASE PostFailed
  <2>1. k # 0 /\ Current \in Endpoints
    BY <1>0, <1>2, CurrentIsEndpoint DEF PostFailed, InflightExplained, IInv, TypeOK
  <2>2. ASSUME NEW e \in Endpoints, e # Current
        PROVE  breaker'[e] = breaker[e] /\ failRun'[e] = failRun[e] /\ sinceFail'[e] = sinceFail[e]
    BY <1>0, <1>2, <2>2 DEF PostFailed, TypeOK
  <2>3. /\ breaker'[Current] = RecordFailure(breaker[Current])
        /\ failRun'[Current] = IF failRun[Current] < TripCount
                                 THEN failRun[Current] + 1 ELSE failRun[Current]
        /\ sinceFail'[Current] = 0
    BY <1>0, <1>2, <2>1 DEF PostFailed, TypeOK
  <2>4. Tracks(breaker'[Current], failRun'[Current], sinceFail'[Current])
    BY <1>0, <2>1, <2>3, FailureTracks DEF TypeOK
  <2> QED BY <1>0, <2>2, <2>4 DEF BreakerTracksAnswers
<1>3. CASE Tick
  <2>1. ASSUME NEW e \in Endpoints
        PROVE  Tracks(breaker'[e], failRun'[e], sinceFail'[e])
    <3>1. /\ breaker'[e] = Older(breaker[e])
          /\ failRun'[e] = failRun[e]
          /\ sinceFail'[e] = IF sinceFail[e] < BreakerDur THEN sinceFail[e] + 1 ELSE BreakerDur
      BY <1>3 DEF Tick
    <3> QED BY <1>0, <3>1, OlderTracks DEF TypeOK
  <2> QED BY <2>1 DEF BreakerTracksAnswers
<1>4. CASE StartPublish \/ HandleEndpoint \/ OnSleeping
           \/ (\E e \in Endpoints : ServerChanges(e)) \/ UNCHANGED vars
  <2>1. UNCHANGED <<breaker, failRun, sinceFail>>
    BY <1>4 DEF StartPublish, HandleEndpoint, OnSleeping, ServerChanges, vars, historyVars
  <2> QED BY <1>0, <2>1 DEF BreakerTracksAnswers
<1> QED BY <1>1, <1>2, <1>3, <1>4 DEF Next

\* CacheTracksGood, for one endpoint.
CacheOf(e) ==
  /\ cache[e].value # NoValue =>
        /\ e \in Replayable
        /\ good[e] = [value |-> cache[e].value, age |-> cache[e].age, slept |-> FALSE]
  /\ e \in Replayable /\ good[e].age <= ReplayLimit /\ ~good[e].slept =>
        cache[e].value = good[e].value

\* An entry of the cache and its history grow old together.
LEMMA AgedTogether ==
  ASSUME NEW s \in Slots, NEW g \in Goods,
         s.value # NoValue => g = [value |-> s.value, age |-> s.age, slept |-> FALSE],
         g.age <= ReplayLimit /\ ~g.slept => s.value = g.value
  PROVE  /\ Aged(s).value = s.value /\ Aged(g).value = g.value /\ Aged(g).slept = g.slept
         /\ s.value # NoValue =>
               Aged(g) = [value |-> s.value, age |-> Aged(s).age, slept |-> FALSE]
         /\ Aged(g).age <= ReplayLimit => g.age <= ReplayLimit
<1> USE BoundsAreNat
<1>1. Aged(s).value = s.value /\ Aged(g).value = g.value /\ Aged(g).slept = g.slept
  BY DEF Aged, Slots, Goods
<1>2. Aged(g).age <= ReplayLimit => g.age <= ReplayLimit
  BY DEF Aged, Goods
<1>3. ASSUME s.value # NoValue
      PROVE  Aged(g) = [value |-> s.value, age |-> Aged(s).age, slept |-> FALSE]
  <2>1. g.value = s.value /\ g.age = s.age /\ g.slept = FALSE
    BY <1>3
  <2>2. CASE s.age < MaxAge
    <3>1. Aged(s).age = s.age + 1
      BY <1>3, <2>2 DEF Aged, Slots
    <3>2. Aged(g) = [g EXCEPT !.age = s.age + 1]
      BY <1>3, <2>1, <2>2 DEF Aged
    <3>3. [g EXCEPT !.age = s.age + 1]
             = [value |-> g.value, age |-> s.age + 1, slept |-> g.slept]
      BY DEF Goods
    <3> QED BY <2>1, <3>1, <3>2, <3>3
  <2>3. CASE ~(s.age < MaxAge)
    BY <1>3, <2>1, <2>3 DEF Aged
  <2> QED BY <2>2, <2>3
<1> QED BY <1>1, <1>2, <1>3

LEMMA NextCache ==
  ASSUME IInv, [Next]_vars
  PROVE  CacheTracksGood'
<1>0. TypeOK /\ \A e \in Endpoints : CacheOf(e)
  BY DEF IInv, CacheTracksGood, CacheOf
<1> SUFFICES ASSUME NEW e \in Endpoints PROVE CacheOf(e)'
  BY DEF CacheTracksGood, CacheOf
<1>1. CASE HandleEndpoint
  <2>1. good' = good
    BY <1>1 DEF HandleEndpoint, historyVars
  <2>2. CASE cache'[e] = cache[e]
    BY <1>0, <2>1, <2>2 DEF CacheOf
  <2>3. CASE cache'[e] # cache[e]
    <3>1. cache'[e] = Empty /\ ~(cache[e].value # NoValue /\ cache[e].age <= ReplayLimit)
      BY <1>0, <1>1, <2>3 DEF HandleEndpoint, TakeFresh, TypeOK
    <3>2. ~(e \in Replayable /\ good[e].age <= ReplayLimit /\ ~good[e].slept)
             \/ good[e].value = NoValue
      <4>1. CASE cache[e].value = NoValue
        BY <1>0, <4>1 DEF CacheOf
      <4>2. CASE cache[e].value # NoValue
        <5>1. good[e] = [value |-> cache[e].value, age |-> cache[e].age, slept |-> FALSE]
          BY <1>0, <4>2 DEF CacheOf
        <5>2. good[e].age = cache[e].age
          BY <5>1
        <5> QED BY <3>1, <4>2, <5>2
      <4> QED BY <4>1, <4>2
    <3> QED BY <2>1, <3>1, <3>2 DEF CacheOf, Empty
  <2> QED BY <2>2, <2>3
<1>2. CASE PostOk
  <2>1. k # 0 /\ Current \in Endpoints
    BY <1>0, <1>2, CurrentIsEndpoint DEF PostOk, InflightExplained, IInv, TypeOK
  <2>2. CASE e = Current /\ reading[Current] # NoValue
    <3>1. good'[e] = [value |-> inflight, age |-> 0, slept |-> FALSE]
      BY <1>0, <1>2, <2>1, <2>2 DEF PostOk, TypeOK
    <3>2. CASE e \in Replayable
      <4>1. cache'[e] = [value |-> inflight, age |-> 0]
        BY <1>0, <1>2, <2>1, <2>2, <3>2 DEF PostOk, TypeOK
      <4> QED BY <3>1, <3>2, <4>1 DEF CacheOf
    <3>3. CASE e \notin Replayable
      <4>1. cache'[e] = cache[e]
        BY <1>0, <1>2, <2>1, <2>2, <3>3 DEF PostOk, TypeOK
      <4> QED BY <1>0, <3>3, <4>1 DEF CacheOf
    <3> QED BY <3>2, <3>3
  <2>3. CASE ~(e = Current /\ reading[Current] # NoValue)
    <3>1. cache'[e] = cache[e] /\ good'[e] = good[e]
      BY <1>0, <1>2, <2>1, <2>3 DEF PostOk, TypeOK
    <3> QED BY <1>0, <3>1 DEF CacheOf
  <2> QED BY <2>2, <2>3
<1>3. CASE OnSleeping
  <2>1. cache'[e] = Empty /\ good'[e].slept = TRUE
    BY <1>0, <1>3 DEF OnSleeping, TypeOK, Goods
  <2> QED BY <2>1 DEF CacheOf, Empty
<1>4. CASE Tick
  <2>1. cache'[e] = Aged(cache[e]) /\ good'[e] = Aged(good[e])
    BY <1>4 DEF Tick
  <2>2. cache[e] \in Slots /\ good[e] \in Goods
    BY <1>0 DEF TypeOK
  <2>3. CASE e \in Replayable
    <3>1. /\ cache[e].value # NoValue =>
                good[e] = [value |-> cache[e].value, age |-> cache[e].age, slept |-> FALSE]
          /\ good[e].age <= ReplayLimit /\ ~good[e].slept => cache[e].value = good[e].value
      BY <1>0, <2>3 DEF CacheOf
    <3>2. /\ cache'[e].value = cache[e].value
          /\ good'[e].value = good[e].value /\ good'[e].slept = good[e].slept
          /\ cache[e].value # NoValue =>
                good'[e] = [value |-> cache[e].value, age |-> cache'[e].age, slept |-> FALSE]
          /\ good'[e].age <= ReplayLimit => good[e].age <= ReplayLimit
      BY <2>1, <2>2, <3>1, AgedTogether
    <3> QED BY <2>3, <3>1, <3>2 DEF CacheOf
  <2>4. CASE e \notin Replayable
    BY <1>0, <2>1, <2>2, <2>4 DEF CacheOf, Aged
  <2> QED BY <2>3, <2>4
<1>5. CASE StartPublish \/ PostFailed \/ (\E x \in Endpoints : ServerChanges(x))
           \/ UNCHANGED vars
  <2>1. UNCHANGED <<cache, good>>
    BY <1>5 DEF StartPublish, PostFailed, ServerChanges, vars, historyVars
  <2> QED BY <1>0, <2>1 DEF CacheOf
<1> QED BY <1>1, <1>2, <1>3, <1>4, <1>5 DEF Next

LEMMA NextInflight ==
  ASSUME IInv, [Next]_vars
  PROVE  InflightExplained'
<1> USE DEF IInv, InflightExplained
<1>1. CASE HandleEndpoint
  <2>1. CASE Advance
    BY <2>1 DEF Advance
  <2>2. CASE inflight' = Payload(Current) /\ UNCHANGED <<k, reading>>
    BY <1>1, <2>2 DEF HandleEndpoint, Payload, Replays, Current
  <2> QED BY <1>1, <2>1, <2>2 DEF HandleEndpoint
<1>2. CASE PostOk \/ PostFailed
  BY <1>2 DEF PostOk, PostFailed, Advance
<1>3. CASE StartPublish
  BY <1>3 DEF StartPublish
<1>4. CASE OnSleeping \/ Tick \/ (\E e \in Endpoints : ServerChanges(e)) \/ UNCHANGED vars
  <2>1. UNCHANGED <<reading, k, inflight>>
    BY <1>4 DEF OnSleeping, Tick, ServerChanges, vars
  <2> QED BY <2>1 DEF Replays, Current
<1> QED BY <1>1, <1>2, <1>3, <1>4 DEF Next

\* A turn is one request's timeout long, and there are Len(Order) of them.
LEMMA TurnsAddUp ==
  ASSUME NEW t \in Nat, NEW n \in Nat, NEW j \in 1..n
  PROVE  /\ (j - 1) * t \in Nat /\ j * t \in Nat /\ n * t \in Nat
         /\ j * t = (j - 1) * t + t
         /\ j * t <= n * t
<1>1. (j - 1) * t \in Nat /\ j * t \in Nat /\ n * t \in Nat /\ (n - j) * t \in Nat
  <2>1. \A a, b \in Nat : a * b \in Nat
    OBVIOUS
  <2> QED BY <2>1
<1>2. j * t = (j - 1) * t + t /\ n * t = j * t + (n - j) * t
  OBVIOUS
<1> QED BY <1>1, <1>2

LEMMA NextOnSchedule ==
  ASSUME IInv, [Next]_vars
  PROVE  OnSchedule'
<1>0. /\ k \in 0..Len(Order) /\ Len(Order) \in Nat /\ RequestTimeout \in Nat
      /\ timer \in 0..RequestTimeout /\ spent \in Nat /\ LongestPublish \in Nat
      /\ inflight # NoValue => k # 0
  BY BoundsAreNat, LenIsNat, LongestPublishIsNat DEF IInv, TypeOK, InflightExplained
<1> DEFINE turn(j) == j * RequestTimeout
<1>1. \A j \in 1..Len(Order) :
         /\ turn(j - 1) \in Nat /\ turn(j) \in Nat
         /\ turn(j) = turn(j - 1) + RequestTimeout
         /\ turn(j) <= LongestPublish
  BY <1>0, TurnsAddUp DEF LongestPublish
<1>2. turn(Len(Order)) = LongestPublish /\ turn(0) = 0
  BY <1>0 DEF LongestPublish
<1>3. /\ ~Prompt => spent = 0
      /\ k = 0 => spent <= LongestPublish
      /\ k # 0 /\ inflight = NoValue => spent <= turn(k - 1)
      /\ k # 0 /\ inflight # NoValue => spent + timer <= turn(k)
  BY DEF IInv, OnSchedule
<1>4. SUFFICES /\ ~Prompt => spent' = 0
               /\ k' = 0 => spent' <= LongestPublish
               /\ k' # 0 /\ inflight' = NoValue => spent' <= turn(k' - 1)
               /\ k' # 0 /\ inflight' # NoValue => spent' + timer' <= turn(k')
  BY DEF OnSchedule
<1> HIDE DEF turn
<1>5. CASE StartPublish
  <2>1. k' = 1 /\ spent' = 0 /\ inflight' = inflight /\ k = 0
    BY <1>5 DEF StartPublish
  <2>2. inflight' = NoValue /\ k' - 1 = 0
    BY <1>0, <2>1
  <2> QED BY <1>2, <2>1, <2>2
<1>6. ASSUME k # 0, Advance, spent' = spent
      PROVE  /\ ~Prompt => spent' = 0
             /\ k' = 0 => spent' <= LongestPublish
             /\ k' # 0 /\ inflight' = NoValue => spent' <= turn(k' - 1)
             /\ k' # 0 /\ inflight' # NoValue => spent' + timer' <= turn(k')
  <2>1. spent <= turn(k)
    BY <1>0, <1>1, <1>3, <1>6
  <2>2. inflight' = NoValue /\ (k' = 0 \/ k' = k + 1)
    BY <1>6 DEF Advance
  <2>3. k' = k + 1 => k' - 1 = k
    BY <1>0
  <2> QED BY <1>0, <1>1, <1>3, <1>6, <2>1, <2>2, <2>3
<1>7. CASE HandleEndpoint
  <2>1. CASE Advance
    BY <1>6, <1>7, <2>1 DEF HandleEndpoint
  <2>2. CASE ~Advance
    <3>1. /\ timer' = RequestTimeout /\ k' = k /\ spent' = spent /\ k # 0
          /\ inflight = NoValue /\ inflight' # NoValue
      BY <1>7, <2>2 DEF HandleEndpoint
    <3> QED BY <1>0, <1>1, <1>3, <3>1
  <2> QED BY <2>1, <2>2
<1>8. CASE PostOk \/ PostFailed
  BY <1>0, <1>6, <1>8 DEF PostOk, PostFailed
<1>9. CASE Tick
  <2>1. /\ timer' = IF timer > 0 THEN timer - 1 ELSE 0
        /\ spent' = IF Prompt /\ k # 0 /\ spent <= LongestPublish THEN spent + 1 ELSE spent
        /\ k' = k /\ inflight' = inflight
        /\ Prompt /\ k # 0 => inflight # NoValue /\ timer # 0
    BY <1>9 DEF Tick, Runnable
  <2> QED BY <1>0, <1>1, <1>3, <2>1
<1>10. CASE OnSleeping \/ (\E e \in Endpoints : ServerChanges(e)) \/ UNCHANGED vars
  <2>1. UNCHANGED <<k, inflight, timer, spent>>
    BY <1>10 DEF OnSleeping, ServerChanges, vars
  <2> QED BY <1>3, <2>1
<1> QED BY <1>5, <1>7, <1>8, <1>9, <1>10 DEF Next

LEMMA NextIInv == IInv /\ [Next]_vars => IInv'
  BY NextTypeOK, NextTracks, NextCache, NextInflight, NextOnSchedule DEF IInv

(* IInv holds in every reachable state. *)
THEOREM Invariance == Spec => []IInv
  BY InitIInv, NextIInv, PTL DEF Spec

\* Every publish keeps to its schedule, the last one to its end.
LEMMA BoundedByIInv == IInv => PublishIsBounded
<1> SUFFICES ASSUME IInv PROVE spent <= LongestPublish
  BY DEF PublishIsBounded
<1>1. /\ k \in 0..Len(Order) /\ Len(Order) \in Nat /\ RequestTimeout \in Nat
      /\ timer \in Nat /\ spent \in Nat
  BY BoundsAreNat, LenIsNat DEF IInv, TypeOK
<1>2. k # 0 => /\ (k - 1) * RequestTimeout \in Nat /\ k * RequestTimeout \in Nat
               /\ k * RequestTimeout = (k - 1) * RequestTimeout + RequestTimeout
               /\ k * RequestTimeout <= LongestPublish
  BY <1>1, TurnsAddUp DEF LongestPublish
<1>3. LongestPublish \in Nat
  BY LongestPublishIsNat
<1> QED BY <1>1, <1>2, <1>3 DEF IInv, OnSchedule

(***************************************************************************)
(* `publish` of code that takes no time is over after one request timeout  *)
(* per endpoint, whatever the servers do.                                  *)
(***************************************************************************)
THEOREM PublishEnds == Spec => []PublishIsBounded
  BY BoundedByIInv, Invariance, PTL

-----------------------------------------------------------------------------
(* Action properties *)

\* Only HandleEndpoint starts a POST, or leaves an endpoint without one.
LEMMA EndpointIsHandled ==
  ASSUME [Next]_vars, k # 0, inflight = NoValue, inflight' # NoValue \/ k' # k
  PROVE  HandleEndpoint
  BY DEF Next, vars, StartPublish, PostOk, PostFailed, OnSleeping, ServerChanges, Tick

(***************************************************************************)
(* The circuit breaker, for any threshold and duration: no POST to an      *)
(* endpoint that failed too often and too recently.                        *)
(***************************************************************************)
THEOREM MutedGetsNoPost == Spec => NoPostWhileMuted
<1>1. ASSUME IInv, [Next]_vars, NEW e \in Endpoints, Posts(e) PROVE ~Muted(e)
  <2>1. Tracks(breaker[e], failRun[e], sinceFail[e]) /\ sinceFail[e] \in 0..BreakerDur
    BY <1>1 DEF IInv, BreakerTracksAnswers, TypeOK
  <2>2. HandleEndpoint /\ e = Current
    BY <1>1, EndpointIsHandled DEF Posts
  <2>3. Allow(breaker[e])
    BY <1>1, <2>2 DEF HandleEndpoint, Advance, Posts
  <2> QED BY <2>1, <2>3, BoundsAreNat DEF Muted, Tracks, Allow
<1>2. IInv /\ [Next]_vars => [\A e \in Endpoints : Posts(e) => ~Muted(e)]_vars
  BY <1>1
<1> QED BY <1>2, Invariance, PTL DEF Spec, NoPostWhileMuted

\* A payload that is not POSTed at its turn.
LEMMA WithheldIsMuted ==
  ASSUME IInv, [Next]_vars, NEW e \in Endpoints, LeftAlone(e), reading[e] # NoValue
  PROVE  Muted(e)
<1>1. /\ Tracks(breaker[e], failRun[e], sinceFail[e])
      /\ sinceFail[e] \in 0..BreakerDur /\ failRun[e] \in 0..TripCount
  BY DEF IInv, BreakerTracksAnswers, TypeOK
<1>2. HandleEndpoint /\ e = Current
  BY EndpointIsHandled DEF LeftAlone
<1>3. Payload(e) # NoValue
  BY DEF Payload, Replays
<1>4. ~Allow(breaker[e])
  BY <1>2, <1>3 DEF HandleEndpoint, LeftAlone
<1> QED BY <1>1, <1>4, BoundsAreNat DEF Muted, Tracks, Allow

(***************************************************************************)
(* And nothing but the breaker withholds a payload.                        *)
(***************************************************************************)
THEOREM OnlyMutedIsWithheld == Spec => WithheldOnlyWhileMuted
<1>1. IInv /\ [Next]_vars =>
        [\A e \in Endpoints : LeftAlone(e) /\ reading[e] # NoValue => Muted(e)]_vars
  BY WithheldIsMuted
<1> QED BY <1>1, Invariance, PTL DEF Spec, WithheldOnlyWhileMuted

\* What is POSTed without a reading.
LEMMA ReplayFacts ==
  ASSUME IInv, [Next]_vars, NEW e \in Endpoints, Posts(e), reading[e] = NoValue
  PROVE  /\ Bridge /\ e \in Replayable
         /\ inflight' = good[e].value
         /\ good[e].age <= ReplayLimit
         /\ ~good[e].slept
<1>1. HandleEndpoint /\ e = Current
  BY EndpointIsHandled DEF Posts
<1>2. inflight' = Payload(e) /\ Payload(e) # NoValue
  BY <1>1 DEF HandleEndpoint, Advance, Posts
<1>3. Replays(e) /\ inflight' = TakeFresh(e).value
  BY <1>2 DEF Payload
<1>4. /\ cache[e].value # NoValue /\ cache[e].age <= ReplayLimit
      /\ inflight' = cache[e].value
  BY <1>2, <1>3 DEF TakeFresh, Empty
<1>5. good[e] = [value |-> cache[e].value, age |-> cache[e].age, slept |-> FALSE]
  BY <1>4 DEF IInv, CacheTracksGood
<1> QED BY <1>3, <1>4, <1>5 DEF Replays

(***************************************************************************)
(* bridge_dropouts, for any limit: a replay is the last good payload, not  *)
(* older than the limit and not from before a sleep.                       *)
(***************************************************************************)
THEOREM ReplayIsLastGood == Spec => ReplaysLastGood
<1>1. IInv /\ [Next]_vars =>
        [\A e \in Endpoints :
           Posts(e) /\ reading[e] = NoValue =>
              /\ Bridge /\ e \in Replayable
              /\ inflight' = good[e].value
              /\ good[e].age <= ReplayLimit
              /\ ~good[e].slept]_vars
  BY ReplayFacts
<1> QED BY <1>1, Invariance, PTL DEF Spec, ReplaysLastGood

\* A turn without a reading and without a POST.
LEMMA DropoutFacts ==
  ASSUME IInv, [Next]_vars, NEW e \in Replayable, LeftAlone(e), reading[e] = NoValue, Bridge
  PROVE  \/ good[e].value = NoValue
         \/ good[e].age > ReplayLimit
         \/ good[e].slept
         \/ Muted(e)
<1> SUFFICES ASSUME good[e].value # NoValue, ~(good[e].age > ReplayLimit), ~good[e].slept
             PROVE  Muted(e)
  OBVIOUS
<1>1. e \in Endpoints
  BY PublisherAssumption
<1>2. /\ Tracks(breaker[e], failRun[e], sinceFail[e])
      /\ sinceFail[e] \in 0..BreakerDur /\ failRun[e] \in 0..TripCount
      /\ good[e] \in Goods /\ cache[e] \in Slots
  BY <1>1 DEF IInv, BreakerTracksAnswers, TypeOK
<1>3. good[e].age <= ReplayLimit
  BY <1>2, BoundsAreNat DEF Goods
<1>4. cache[e].value = good[e].value
  BY <1>1, <1>3 DEF IInv, CacheTracksGood
<1>5. cache[e].age = good[e].age
  <2>1. good[e] = [value |-> cache[e].value, age |-> cache[e].age, slept |-> FALSE]
    BY <1>1, <1>4 DEF IInv, CacheTracksGood
  <2> QED BY <2>1
<1>6. HandleEndpoint /\ e = Current
  BY EndpointIsHandled DEF LeftAlone
<1>7. Payload(e) # NoValue
  BY <1>3, <1>4, <1>5 DEF Payload, Replays, TakeFresh
<1>8. ~Allow(breaker[e])
  BY <1>6, <1>7 DEF HandleEndpoint, LeftAlone
<1> QED BY <1>2, <1>8, BoundsAreNat DEF Muted, Tracks, Allow

(***************************************************************************)
(* And no dropout goes without a replay while the cache could have one:    *)
(* neither failures nor earlier replays lose an entry.                     *)
(***************************************************************************)
THEOREM DropoutsHaveReplays == Spec => DropoutsAreBridged
<1>1. IInv /\ [Next]_vars =>
        [\A e \in Replayable :
           LeftAlone(e) /\ reading[e] = NoValue /\ Bridge =>
              \/ good[e].value = NoValue
              \/ good[e].age > ReplayLimit
              \/ good[e].slept
              \/ Muted(e)]_vars
  BY DropoutFacts
<1> QED BY <1>1, Invariance, PTL DEF Spec, DropoutsAreBridged
=============================================================================
