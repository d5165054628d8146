--------------------------- MODULE ShutdownProofs ---------------------------
(***************************************************************************)
(* The wakeup race of Shutdown, for any set of waiters: IInv is inductive, *)
(* and every step of Shutdown is a step of Signal, or stutters.            *)
(***************************************************************************)
EXTENDS Shutdown, TLAPS

LEMMA InitIInv == Init => IInv
  BY DEF Init, IInv, TypeOK, ListenersMatch, OnlyAfterTrigger, NoLostWakeup,
         WaitStates, ListenerStates

\* Each step of the signal thread or of a waiter keeps IInv.
LEMMA NextIInv == IInv /\ [Next]_vars => IInv'
<1> SUFFICES ASSUME IInv, [Next]_vars PROVE IInv'
  OBVIOUS
<1> USE DEF IInv, TypeOK, ListenersMatch, OnlyAfterTrigger, NoLostWakeup,
            WaitStates, ListenerStates
<1>1. CASE TriggerStore
  BY <1>1 DEF TriggerStore
<1>2. CASE TriggerNotify
  BY <1>2 DEF TriggerNotify
<1>3. ASSUME NEW w \in Waiters, Wait(w) PROVE IInv'
  <2>1. CASE Enable(w)
    BY <2>1 DEF Enable
  <2>2. CASE ReadFlag(w)
    <3>1. CASE running
      \* The trigger has not stored: it can only notify later, and reaches w.
      BY <2>2, <3>1 DEF ReadFlag
    <3>2. CASE ~running
      BY <2>2, <3>2 DEF ReadFlag
    <3> QED BY <3>1, <3>2
  <2>3. CASE Wake(w)
    BY <2>3 DEF Wake
  <2> QED BY <1>3, <2>1, <2>2, <2>3 DEF Wait
<1>4. ASSUME NEW w \in Waiters, Drop(w) PROVE IInv'
  BY <1>4 DEF Drop
<1>5. CASE UNCHANGED vars
  BY <1>5 DEF vars
<1> QED BY <1>1, <1>2, <1>3, <1>4, <1>5 DEF Next, Trigger

(* IInv holds in every reachable state. *)
THEOREM Invariance == Spec => []IInv
  BY InitIInv, NextIInv, PTL DEF Spec

(* No trigger is missed by a waiter, however the two interleave. *)
THEOREM NoWakeupIsLost == Spec => []NoLostWakeup
<1>1. IInv => NoLostWakeup
  BY DEF IInv
<1> QED BY <1>1, Invariance, PTL

-----------------------------------------------------------------------------
\* Every step of the code is a step of the promise or leaves it unchanged.
LEMMA StepSimulates == IInv /\ [Next]_vars => [Promise!Next]_(Promise!vars)
<1> SUFFICES ASSUME IInv, [Next]_vars PROVE [Promise!Next]_(Promise!vars)
  OBVIOUS
<1> USE DEF IInv, TypeOK, OnlyAfterTrigger, WaitStates, ListenerStates
<1>1. CASE TriggerStore
  <2>1. Promise!Raise
    BY <1>1 DEF TriggerStore, Promise!Raise
  <2> QED BY <2>1 DEF Promise!Next
<1>2. CASE TriggerNotify
  BY <1>2 DEF TriggerNotify, Promise!vars
<1>3. ASSUME NEW w \in Waiters, Wait(w) PROVE [Promise!Next]_(Promise!vars)
  <2>1. CASE Enable(w)
    <3>1. Promise!Call(w)
      BY <1>3, <2>1 DEF Enable, Promise!Call
    <3> QED BY <3>1, <1>3 DEF Promise!Next
  <2>2. CASE ReadFlag(w)
    <3>1. CASE running
      BY <1>3, <2>2, <3>1 DEF ReadFlag, Promise!vars
    <3>2. CASE ~running
      <4>1. Promise!Return(w)
        BY <1>3, <2>2, <3>2 DEF ReadFlag, Promise!Return
      <4> QED BY <4>1, <1>3 DEF Promise!Next
    <3> QED BY <3>1, <3>2
  <2>3. CASE Wake(w)
    <3>1. Promise!Return(w)
      BY <1>3, <2>3 DEF Wake, Promise!Return
    <3> QED BY <3>1, <1>3 DEF Promise!Next
  <2> QED BY <1>3, <2>1, <2>2, <2>3 DEF Wait
<1>4. ASSUME NEW w \in Waiters, Drop(w) PROVE [Promise!Next]_(Promise!vars)
  <2>1. Promise!Leave(w)
    BY <1>4 DEF Drop, Promise!Leave
  <2> QED BY <2>1, <1>4 DEF Promise!Next
<1>5. CASE UNCHANGED vars
  BY <1>5 DEF vars, Promise!vars
<1> QED BY <1>1, <1>2, <1>3, <1>4, <1>5 DEF Next, Trigger

(***************************************************************************)
(* The safety half of KeepsPromise: `wait` never returns without a         *)
(* trigger.  (That it does return is liveness, checked by TLC.)            *)
(***************************************************************************)
THEOREM ImplementsSignal == Spec => Promise!Init /\ [][Promise!Next]_(Promise!vars)
<1>1. Init => Promise!Init
  BY DEF Init, Promise!Init
<1> QED BY <1>1, StepSimulates, Invariance, PTL DEF Spec
=============================================================================
