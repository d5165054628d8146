---------------------------- MODULE BluetoothConnect ----------------------------
(***************************************************************************)
(* BluetoothElm327Adapter::connect (adapter/bluetooth.rs): the attempts to *)
(* bring up the RFCOMM link, each with its waits, and the init exchange    *)
(* over it, with the longest time each step may take, against the bound    *)
(* after which the scheduler abandons the call (mod.rs).  Time is in whole *)
(* seconds since the call began.                                           *)
(***************************************************************************)
EXTENDS Naturals

CONSTANTS Retries,      \* bt_max_connect_retries, a u8
          Timeout,      \* bt_timeout_secs, a u8
          Passkey,      \* whether bt_passkey is set
          AgentSecs,    \* bound on the registration with BlueZ
          InitSecs,     \* bound on the init exchange
          MaxCalls      \* bound: calls of connect

\* What the slack of the bound, 8 s per attempt and 60 s, has to cover.  The default init list
\* takes 47 s at most: 1.5 s of drain, 9 s for ATZ, 11 s for ATE0, 5 s for each of the others.
ASSUME ConnectAssumption ==
    /\ Retries \in 0 .. 255 /\ Timeout \in 0 .. 255 /\ Passkey \in BOOLEAN
    /\ AgentSecs \in Nat /\ InitSecs \in Nat /\ AgentSecs + InitSecs <= 68
    /\ MaxCalls \in Nat

Larger(a, b) == IF a >= b THEN a ELSE b
max_retries == Larger(Retries, 1)
connect_timeout == Larger(Timeout, 1)
AddressWaits == 6
ProbeSecs == 4
PauseSecs == 2

\* The fault: the bound leaves the waits, the probe and the pause of an attempt out.
retry_connect_bound_bare == Larger(max_retries * connect_timeout + 60, 300)

retry_connect_bound == Larger(max_retries * (connect_timeout + 20) + 60, 300)

VARIABLES pc,            \* where the call is, or "closed" or "open" between calls
          attempt, waits, spent,
          agent,         \* self._agent_handle is there
          registrations, \* of the agent with BlueZ, in the life of the adapter
          calls

vars == <<pc, attempt, waits, spent, agent, registrations, calls>>

Init ==
    /\ pc = "closed" /\ attempt = 0 /\ waits = 0 /\ spent = 0
    /\ agent = FALSE /\ registrations = 0 /\ calls = 0

Takes(longest) == \E d \in {0, longest} : spent' = spent + d

Connect ==
    /\ pc \in {"closed", "open"} /\ calls < MaxCalls
    /\ pc' = "agent" /\ spent' = 0 /\ attempt' = 1 /\ waits' = 0
    /\ calls' = calls + 1
    /\ UNCHANGED <<agent, registrations>>

\* The agent is registered once and kept for the life of the adapter.
RegisterAgent ==
    /\ pc = "agent"
    /\ \/ Passkey /\ ~agent /\ Takes(AgentSecs)
          /\ \/ pc' = "dial" /\ agent' = TRUE /\ registrations' = registrations + 1
             \/ pc' = "closed" /\ UNCHANGED <<agent, registrations>>
       \/ (agent \/ ~Passkey) /\ pc' = "dial" /\ UNCHANGED <<agent, registrations, spent>>
    /\ UNCHANGED <<attempt, waits, calls>>

\* A failed attempt is followed by a pause and the next one, the last one by an error.
NextAttempt == pc' = IF attempt < max_retries THEN "pause" ELSE "closed"

Dial ==
    /\ pc = "dial" /\ Takes(connect_timeout)
    /\ pc' = "address" \/ NextAttempt
    /\ UNCHANGED <<attempt, waits, agent, registrations, calls>>

\* The local address may still be unset; a few waits later the call goes on without it.
WaitForAddress ==
    /\ pc = "address"
    /\ \/ pc' = "probe" /\ UNCHANGED <<waits, spent>>
       \/ waits < AddressWaits /\ waits' = waits + 1 /\ spent' = spent + 1
          /\ pc' = IF waits' = AddressWaits THEN "probe" ELSE "address"
    /\ UNCHANGED <<attempt, agent, registrations, calls>>

Probe ==
    /\ pc = "probe" /\ Takes(ProbeSecs)
    /\ pc' = "init" \/ NextAttempt
    /\ UNCHANGED <<attempt, waits, agent, registrations, calls>>

PauseOver ==
    /\ pc = "pause"
    /\ pc' = "dial" /\ attempt' = attempt + 1 /\ waits' = 0 /\ spent' = spent + PauseSecs
    /\ UNCHANGED <<agent, registrations, calls>>

RunInit ==
    /\ pc = "init" /\ Takes(InitSecs)
    /\ pc' \in {"open", "closed"}
    /\ UNCHANGED <<attempt, waits, agent, registrations, calls>>

\* disconnect drops the session, the agent's handle stays; it also follows a dropped call.
Disconnect ==
    /\ pc # "closed" /\ pc' = "closed"
    /\ UNCHANGED <<attempt, waits, spent, agent, registrations, calls>>

Call == RegisterAgent \/ Dial \/ WaitForAddress \/ Probe \/ PauseOver \/ RunInit

Next == Connect \/ Call \/ Disconnect

Spec == Init /\ [][Next]_vars

-----------------------------------------------------------------------------
(* Properties *)

TypeOK ==
    /\ pc \in {"closed", "agent", "dial", "address", "probe", "pause", "init", "open"}
    /\ attempt \in 0 .. max_retries /\ waits \in 0 .. AddressWaits /\ spent \in Nat
    /\ agent \in BOOLEAN /\ registrations \in Nat /\ calls \in 0 .. MaxCalls
    /\ pc \notin {"closed", "open"} => attempt >= 1
    /\ (pc = "pause" => attempt < max_retries)

\* Seconds an attempt may have taken when the call is at pc.
InAttempt ==
    IF pc \in {"agent", "dial"} THEN 0
    ELSE IF pc = "address" THEN connect_timeout + waits
    ELSE IF pc = "probe" THEN connect_timeout + AddressWaits
    ELSE connect_timeout + AddressWaits + ProbeSecs

AttemptSecs == connect_timeout + AddressWaits + ProbeSecs + PauseSecs

\* What the attempts so far may have taken, step by step: the inductive invariant.
OnSchedule ==
    /\ pc = "agent" => spent = 0 /\ attempt = 1
    /\ pc \notin {"closed", "open"} =>
         spent <= AgentSecs + (attempt - 1) * AttemptSecs + InAttempt
    /\ pc \in {"closed", "open"} => spent <= AgentSecs + max_retries * AttemptSecs + InitSecs

IInv == TypeOK /\ OnSchedule

\* No legal configuration runs into its own bound: when everything takes as long as it may,
\* connect has returned before the scheduler abandons it (mod.rs:83-92).
ConnectFitsBound == spent <= retry_connect_bound

\* The agent is registered with BlueZ once, whatever becomes of the calls (bluetooth.rs:54-57).
AgentOnce == registrations <= 1

=============================================================================
