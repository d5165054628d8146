----------------------------- MODULE CycleHealth -----------------------------
(***************************************************************************)
(* What the README promises of the cycle health watchdog and of the exit   *)
(* code: `cycle_failure_limit` consecutive cycles without data end the     *)
(* daemon with code 2, a cycle with data or a sleeping car starts the      *)
(* count again, a lost link or a failed connect neither counts nor         *)
(* resets, and the only other way out is a requested stop, with code 0.    *)
(***************************************************************************)
EXTENDS Naturals

CONSTANT CycleFailureLimit   \* 0 disables the watchdog

VARIABLES
    status,      \* "running", "tripped" (code 2) or "stopped" (code 0)
    fruitless,   \* consecutive cycles without data; 0 while the watchdog is disabled
    asked,       \* a stop was requested
    outcome      \* what the adapter was last heard to do: "good" (it yielded data, or
                 \*   found the car asleep), "fruitless" or "link" (anything else)

vars == <<status, fruitless, asked, outcome>>

Outcomes == {"good", "fruitless", "link"}

Init ==
    /\ status = "running"
    /\ fruitless = 0
    /\ asked = FALSE
    /\ outcome = "link"

Ask ==
    /\ asked' = TRUE
    /\ UNCHANGED <<status, fruitless, outcome>>

\* The adapter is heard; what it says is not counted yet, or never is.
Hear ==
    /\ outcome' \in Outcomes
    /\ UNCHANGED <<status, fruitless, asked>>

HealthyCycle ==
    /\ status = "running"
    /\ outcome' = "good"
    /\ fruitless' = 0
    /\ UNCHANGED <<status, asked>>

FruitlessCycle ==
    /\ status = "running"
    /\ CycleFailureLimit > 0
    /\ outcome' = "fruitless"
    /\ fruitless' = fruitless + 1
    /\ status' = IF fruitless + 1 = CycleFailureLimit THEN "tripped" ELSE "running"
    /\ UNCHANGED asked

Stop ==
    /\ status = "running"
    /\ asked
    /\ status' = "stopped"
    /\ UNCHANGED <<fruitless, asked, outcome>>

Next == Ask \/ Hear \/ HealthyCycle \/ FruitlessCycle \/ Stop

Spec == Init /\ [][Next]_vars
=============================================================================
