--------------------------- MODULE CircuitBreaker ---------------------------
(***************************************************************************)
(* output.rs, struct CircuitBreaker, as operators on its state.            *)
(*                                                                         *)
(* opened_at is the time since it: `open` says that it is Some, and `age`  *)
(* counts up to BreakerDur, beyond which its value makes no difference.    *)
(***************************************************************************)
EXTENDS Naturals

CONSTANTS
    Threshold,    \* publish_failure_threshold
    BreakerDur    \* publish_breaker_secs

ASSUME BreakerAssumption == Threshold \in Nat /\ BreakerDur \in Nat

\* The breaker opens at the first failure when the threshold is 0.
TripCount == IF Threshold = 0 THEN 1 ELSE Threshold

Breakers == [failures : 0..TripCount, open : BOOLEAN, age : 0..BreakerDur]

NewBreaker == [failures |-> 0, open |-> FALSE, age |-> 0]

\* Variant with a fault: once open, the breaker never lets a probe through.
AllowClosedOnly(b) == ~b.open

Allow(b) == b.open => b.age >= BreakerDur

\* Variant with a fault: the breaker closes but keeps its count.
RecordSuccessKeepsCount(b) == [b EXCEPT !.open = FALSE, !.age = 0]

RecordSuccess(b) == NewBreaker

\* Variant with a fault: a failed probe does not arm the breaker again.
RecordFailureNoRearm(b) ==
    IF b.open
      THEN b
      ELSE [failures |-> b.failures + 1,
            open     |-> b.failures + 1 >= Threshold,
            age      |-> 0]

RecordFailure(b) ==
    IF b.open
      THEN [b EXCEPT !.age = 0]
      ELSE [failures |-> b.failures + 1,
            open     |-> b.failures + 1 >= Threshold,
            age      |-> 0]

\* One unit of time later.
Older(b) == IF b.open /\ b.age < BreakerDur THEN [b EXCEPT !.age = @ + 1] ELSE b
=============================================================================
