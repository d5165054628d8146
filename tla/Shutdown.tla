------------------------------ MODULE Shutdown ------------------------------
(***************************************************************************)
(* scheduler.rs, struct Shutdown: an AtomicBool and a tokio Notify.        *)
(*                                                                         *)
(* `trigger` runs on the signal-handling thread (main.rs installs it with  *)
(* ctrlc::set_handler) and is two steps, a store and a notify_waiters;     *)
(* `wait` is a future polled by the daemon's task, and its first poll is   *)
(* three: create and enable the notification, read the flag, park.  The    *)
(* steps of the two interleave freely.  A second signal runs `trigger`     *)
(* again.                                                                  *)
(*                                                                         *)
(* The Notify is a library type, modelled by what the code relies on:      *)
(* notify_waiters reaches every notification created before it, whether or *)
(* not it was polled, and stores nothing for later ones.                   *)
(***************************************************************************)
CONSTANT Waiters

VARIABLES
    running,    \* Shutdown.running
    trigger,    \* where the signal thread is: "idle", or "stored" (about to notify)
    wait,       \* wait[w]: the progress of w's `wait` future
    listener    \* listener[w]: w's entry in Shutdown.notify

vars == <<running, trigger, wait, listener>>

WaitStates     == {"idle", "enabled", "parked", "returned"}
ListenerStates == {"none", "listening", "notified"}

TypeOK ==
    /\ running \in BOOLEAN
    /\ trigger \in {"idle", "stored"}
    /\ wait \in [Waiters -> WaitStates]
    /\ listener \in [Waiters -> ListenerStates]

Init ==
    /\ running = TRUE
    /\ trigger = "idle"
    /\ wait = [w \in Waiters |-> "idle"]
    /\ listener = [w \in Waiters |-> "none"]

-----------------------------------------------------------------------------
(* trigger(), on the signal thread *)

\* Variant with a fault: trigger() forgets the flag and only notifies.
TriggerWithoutStore ==
    /\ trigger = "idle"
    /\ trigger' = "stored"
    /\ UNCHANGED <<running, wait, listener>>

TriggerStore ==
    /\ trigger = "idle"
    /\ trigger' = "stored"
    /\ running' = FALSE
    /\ UNCHANGED <<wait, listener>>

\* Variant with a fault: no notification.
TriggerNotifyNobody ==
    /\ trigger = "stored"
    /\ trigger' = "idle"
    /\ UNCHANGED <<running, wait, listener>>

TriggerNotify ==
    /\ trigger = "stored"
    /\ trigger' = "idle"
    /\ listener' = [w \in Waiters |->
                      IF listener[w] = "listening" THEN "notified" ELSE listener[w]]
    /\ UNCHANGED <<running, wait>>

(* wait(), on the daemon's task *)

\* Variant with a fault: the notification is not enabled before the flag is read.
EnableLate(w) ==
    /\ wait[w] = "idle"
    /\ wait' = [wait EXCEPT ![w] = "enabled"]
    /\ UNCHANGED <<running, trigger, listener>>

Enable(w) ==
    /\ wait[w] = "idle"
    /\ wait' = [wait EXCEPT ![w] = "enabled"]
    /\ listener' = [listener EXCEPT ![w] = "listening"]
    /\ UNCHANGED <<running, trigger>>

\* Variant with a fault: the flag is not read.
ReadNoFlag(w) ==
    /\ wait[w] = "enabled"
    /\ wait' = [wait EXCEPT ![w] = "parked"]
    /\ UNCHANGED <<running, trigger, listener>>

ReadFlag(w) ==
    /\ wait[w] = "enabled"
    /\ wait' = [wait EXCEPT ![w] = IF running THEN "parked" ELSE "returned"]
    /\ UNCHANGED <<running, trigger, listener>>

Wake(w) ==
    /\ wait[w] = "parked"
    /\ listener[w] = "notified"
    /\ wait' = [wait EXCEPT ![w] = "returned"]
    /\ UNCHANGED <<running, trigger, listener>>

\* A select! drops the future between two of its polls: it took the result, or
\* another branch won.
Drop(w) ==
    /\ wait[w] \in {"parked", "returned"}
    /\ wait' = [wait EXCEPT ![w] = "idle"]
    /\ listener' = [listener EXCEPT ![w] = "none"]
    /\ UNCHANGED <<running, trigger>>

Trigger == TriggerStore \/ TriggerNotify
Wait(w) == Enable(w) \/ ReadFlag(w) \/ Wake(w)

Next == Trigger \/ \E w \in Waiters : Wait(w) \/ Drop(w)

\* A thread inside a call runs on; nothing makes a signal arrive or a task call wait.
Fairness ==
    /\ WF_vars(TriggerNotify)
    /\ \A w \in Waiters : WF_vars(ReadFlag(w) \/ Wake(w))

Spec == Init /\ [][Next]_vars /\ Fairness

-----------------------------------------------------------------------------
\* A future holds an entry in the Notify exactly from enable() until it is dropped.
ListenersMatch == \A w \in Waiters : (listener[w] = "none") <=> (wait[w] = "idle")

(***************************************************************************)
(* No wakeup is lost: once a trigger has finished (the flag is down and    *)
(* the signal thread is out of `trigger`) no waiter is parked without a    *)
(* notification, whatever the interleaving of its first poll with the      *)
(* trigger.  This is the race that the comment on `wait` speaks of.        *)
(***************************************************************************)
NoLostWakeup ==
    ~running /\ trigger = "idle" =>
        \A w \in Waiters : wait[w] = "parked" => listener[w] = "notified"

\* A notification, or a flag read as FALSE, implies that the flag is down.
OnlyAfterTrigger ==
    /\ trigger = "stored" => ~running
    /\ \A w \in Waiters :
          listener[w] = "notified" \/ wait[w] = "returned" => ~running

\* The inductive invariant: the three facts above and the types.
IInv == TypeOK /\ ListenersMatch /\ OnlyAfterTrigger /\ NoLostWakeup

(***************************************************************************)
(* `wait` keeps the promise of Signal: it returns only after a trigger,    *)
(* and after a trigger it does return unless its select drops it.          *)
(***************************************************************************)
Promise == INSTANCE Signal WITH
    raised <- ~running,
    call   <- [w \in Waiters |->
                 IF wait[w] \in {"enabled", "parked"} THEN "waiting" ELSE wait[w]]

KeepsPromise == Promise!Spec
=============================================================================
