------------------------------- MODULE Signal -------------------------------
(***************************************************************************)
(* What scheduler.rs promises of `Shutdown`: "Future that completes the    *)
(* moment `trigger()` has been (or is) called".  A waiter calls `wait`,    *)
(* the call returns only once the signal was raised, and once it was       *)
(* raised every call that is not abandoned returns.                        *)
(***************************************************************************)
CONSTANT Waiters

VARIABLES
    raised,   \* the signal was raised; it stays raised
    call      \* call[w] \in {"idle", "waiting", "returned"}

vars == <<raised, call>>

Init ==
    /\ raised = FALSE
    /\ call = [w \in Waiters |-> "idle"]

Raise ==
    /\ raised' = TRUE
    /\ UNCHANGED call

Call(w) ==
    /\ call[w] = "idle"
    /\ call' = [call EXCEPT ![w] = "waiting"]
    /\ UNCHANGED raised

Return(w) ==
    /\ call[w] = "waiting"
    /\ raised
    /\ call' = [call EXCEPT ![w] = "returned"]
    /\ UNCHANGED raised

\* The caller takes the result, or abandons the call.
Leave(w) ==
    /\ call[w] \in {"waiting", "returned"}
    /\ call' = [call EXCEPT ![w] = "idle"]
    /\ UNCHANGED raised

Next ==
    \/ Raise
    \/ \E w \in Waiters : Call(w) \/ Return(w) \/ Leave(w)

Spec ==
    /\ Init
    /\ [][Next]_vars
    /\ \A w \in Waiters : WF_vars(Return(w))
=============================================================================
