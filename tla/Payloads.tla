-------------------------------- MODULE Payloads --------------------------------
(***************************************************************************)
(* From the readings of a cycle to the payloads that are sent (build_* in  *)
(* output.rs): poll_sources inserts one reading after the other, a later   *)
(* one over an earlier one, and publish builds a payload of each kind.     *)
(*                                                                         *)
(* An f32 that is finite is an integer, here the set of it; {} is NaN or   *)
(* an infinity.  An Option is the set of its values, so that the payload   *)
(* field {{}} is present and not a number.  Publisher takes a payload as   *)
(* it comes and says when it is sent.                                      *)
(***************************************************************************)
EXTENDS Integers

CONSTANTS Values,       \* [key -> the readings of it that occur]
          capacity_wh,  \* Option
          Largest       \* the largest finite f32

Keys == DOMAIN Values

ASSUME PayloadAssumption ==
    /\ {"percentage", "wh", "temp", "km", "mi", "trip", "fl", "fr"} \subseteq Keys
    /\ \A k \in Keys : \A v \in Values[k] : v \subseteq Int /\ \A x, y \in v : x = y
    /\ capacity_wh \subseteq Nat /\ Largest \in Nat

VARIABLES metrics,  \* the readings of this cycle: [some of the keys -> f32]
          sent      \* the payloads of this cycle, or {}

payloadsVars == <<metrics, sent>>

None == {}
NaN == {}
F32(x) == IF x <= Largest THEN {x} ELSE NaN
Read(m, k) == IF k \in DOMAIN m THEN {m[k]} ELSE None
Finite(option) == option \ {NaN}
Positive(option) == {v \in Finite(option) : \E x \in v : x > 0}

-----------------------------------------------------------------------------
(* Battery *)

\* A reading as an integer, unless it is negative or not finite.
sensor_to_u64(option) == UNION {{x \in v : x >= 0} : v \in option}

derive_level_wh(pct) ==
    UNION {{(x * c) \div 100 : c \in capacity_wh} : x \in sensor_to_u64(pct)}

level_wh(m) ==
    LET explicit == sensor_to_u64(Read(m, "wh")) IN
    IF explicit # None THEN explicit ELSE derive_level_wh(Read(m, "percentage"))

BatteryOf(m) == {[percentage |-> Read(m, "percentage"), wh |-> level_wh(m),
                  temp |-> Read(m, "temp")]}

\* A payload with neither a percentage nor Wh is not built.
build_battery(m) ==
    IF /\ {"percentage", "wh", "temp"} \cap DOMAIN m # {}
       /\ "percentage" \in DOMAIN m \/ level_wh(m) # None
    THEN BatteryOf(m) ELSE None

-----------------------------------------------------------------------------
(* Odometer, tires and the raw topic *)

\* A mile is 1.609344 km, 1.6 here.
ToKm(option) == UNION {{F32((8 * x) \div 5) : x \in v} : v \in option}

\* The fault: kilometres count whenever they were read.
distance_km_first(m) ==
    LET km == Finite(Read(m, "km")) IN
    IF km # None THEN km ELSE ToKm(Positive(Read(m, "mi")))

distance(m) ==
    LET km == Finite(Read(m, "km"))
        mi == Positive(Read(m, "mi")) IN
    IF Positive(km) # None THEN km
    ELSE IF mi # None THEN ToKm(mi)
    ELSE km

build_odometer(m) == {[km |-> d, trip |-> Read(m, "trip")] : d \in distance(m)}

\* A wheel that was not read is sent as 0, as long as the front left one was read.
build_tire_pressure(m) ==
    IF "fl" \in DOMAIN m
    THEN {<<m["fl"], IF "fr" \in DOMAIN m THEN m["fr"] ELSE {0}>>} ELSE None

build_raw_topic(m) ==
    LET finite == {k \in DOMAIN m : m[k] # NaN} IN
    IF finite = {} THEN None ELSE {[k \in finite |-> m[k]]}

BuiltOf(m) == [battery |-> build_battery(m), odometer |-> build_odometer(m),
               tires |-> build_tire_pressure(m), raw |-> build_raw_topic(m)]

-----------------------------------------------------------------------------
PayloadsInit == metrics = <<>> /\ sent = None

\* A field was extracted.
Insert ==
    /\ sent = None
    /\ \E k \in Keys : \E v \in Values[k] :
         metrics' = [j \in {k} \cup DOMAIN metrics |-> IF j = k THEN v ELSE metrics[j]]
    /\ UNCHANGED sent

Publish ==
    /\ sent = None
    /\ sent' = {BuiltOf(metrics)}
    /\ UNCHANGED metrics

NextCycle == sent # None /\ metrics' = <<>> /\ sent' = None

PayloadsNext == Insert \/ Publish \/ NextCycle

PayloadsSpec == PayloadsInit /\ [][PayloadsNext]_payloadsVars

-----------------------------------------------------------------------------
(* Properties *)

Number(option) == Finite(option) # None
HasCharge(b) == Number(b.percentage) \/ b.wh # None

\* Readings of a car that is well are sent as aa-proxy-rs takes them: whatever was read and
\* whatever is missing, no payload is built that it rejects for want of a charge or for a
\* negative distance (README.md:61).
PlausibleIsAccepted == \A s \in sent :
    (\A k \in DOMAIN metrics : \E x \in metrics[k] : x >= 0 /\ (k = "percentage" => x <= 100)) =>
      /\ \A b \in s.battery : HasCharge(b)
      /\ \A o \in s.odometer : \A x \in o.km : x >= 0

\* A car in miles says 0 km.  It is never sent as 0 while either reading is positive, and never
\* withheld while either is a number (build_odometer).
DistanceIsShown == \A s \in sent :
    LET km == Read(metrics, "km")
        mi == Read(metrics, "mi") IN
    /\ Positive(km) \cup Positive(mi) # None =>
         \E o \in s.odometer : \A x \in o.km : x > 0
    /\ Number(km) => s.odometer # None

\* What aa-proxy-rs gets is what it can use.
PayloadsAreUsable == PlausibleIsAccepted /\ DistanceIsShown

\* What is sent was built of this cycle's readings, as they still are.
ThisCycle ==
    /\ DOMAIN metrics \subseteq Keys /\ \A k \in DOMAIN metrics : metrics[k] \in Values[k]
    /\ sent \in {None, {BuiltOf(metrics)}}

=============================================================================
