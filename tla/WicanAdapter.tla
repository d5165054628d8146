------------------------------ MODULE WicanAdapter ------------------------------
(***************************************************************************)
(* The WiCAN adapter (adapter/wican.rs): connect finds, bonds and connects *)
(* the BLE device through BlueZ, poll asks for one JSON object and reads   *)
(* it in chunks, disconnect releases the device.  The scheduler calls them *)
(* one at a time, may drop a call anywhere, and always disconnects after a *)
(* dropped call and after a fatal poll.                                    *)
(*                                                                         *)
(* BlueZ and the device are external.  An answer is one flat JSON object   *)
(* in one or two chunks; what arrives while nobody is subscribed is lost.  *)
(***************************************************************************)
EXTENDS Naturals, Sequences

CONSTANTS Retries,   \* bt_max_connect_retries, a u8
          MaxFaults  \* bound: things that go wrong outside the program

ASSUME WicanAssumption == Retries \in 0 .. 255 /\ MaxFaults \in Nat

Larger(a, b) == IF a >= b THEN a ELSE b
max_retries == Larger(Retries, 1)

Connecting == {"find", "pair", "connect", "pause", "chars"}
OldestAge == 3      \* ages are counted up to here

VARIABLES
    known, bonded, linkUp,   \* BlueZ: the device, its bond and its link
    stale,                   \* the device has forgotten the bond's key
    unanswered, flight,      \* ages of the requests without an answer; chunks under way,
                             \* each "whole", "head", "tail" or "bad", with its request's age
    pc, device, chars,       \* the call in progress, self.device and self.chars
    attempt,                 \* failed attempts of this connect
    buf, received,           \* of this poll: an object is begun, bytes have come
    reading,                 \* age of the request the last reading answers
    dropped,                 \* the last step dropped a call
    faults

bluez == <<known, bonded, linkUp, stale>>
device_io == <<unanswered, flight>>
held == <<device, chars>>
poll == <<buf, received, reading>>
vars == <<bluez, device_io, pc, held, attempt, poll, dropped, faults>>

Init ==
    /\ known \in BOOLEAN /\ bonded \in {b \in BOOLEAN : b => known}
    /\ stale \in {s \in BOOLEAN : s => bonded}
    /\ linkUp = FALSE /\ unanswered = <<>> /\ flight = <<>>
    /\ pc = "closed" /\ device = FALSE /\ chars = FALSE
    /\ attempt = 0
    /\ buf = FALSE /\ received = FALSE /\ reading = 0
    /\ dropped = FALSE /\ faults = 0

Wrong == faults < MaxFaults /\ faults' = faults + 1
Fault == Wrong /\ dropped' = FALSE
Sound == UNCHANGED faults /\ dropped' = FALSE

\* With the link go the requests and the answers under way.
LinkFalls ==
    /\ linkUp' = FALSE
    /\ unanswered' = <<>> /\ flight' = <<>>

\* disconnect() asks BlueZ to drop the link only if self.device is set.
Disconnect ==
    /\ IF device THEN LinkFalls ELSE UNCHANGED <<linkUp, device_io>>
    /\ device' = FALSE /\ chars' = FALSE
    /\ pc' = "closed"
    /\ attempt' = 0
    /\ buf' = FALSE /\ received' = FALSE /\ UNCHANGED <<known, bonded, stale, reading>>

Fail ==   \* connect returns an error; nothing is released
    /\ pc' = "closed"
    /\ attempt' = 0
    /\ UNCHANGED <<held, poll>>

-----------------------------------------------------------------------------
(* connect *)

Connect ==
    /\ pc = "closed"
    /\ \/ pc' = "find" /\ chars' = FALSE /\ Sound
       \/ pc' = "closed" /\ UNCHANGED chars /\ Fault
    /\ UNCHANGED <<bluez, device_io, device, attempt, poll>>

FindDevice ==
    /\ pc = "find"
    /\ \/ /\ pc' = "pair" /\ known' = TRUE
          /\ UNCHANGED <<held, poll, attempt>> /\ Sound
       \/ ~known /\ Fail /\ UNCHANGED known /\ Fault
    /\ UNCHANGED <<bonded, linkUp, stale, device_io>>

\* drop_bond_on_auth_failure: the next connect finds the device anew and pairs.
RemoveDevice == known' = FALSE /\ bonded' = FALSE /\ stale' = FALSE /\ LinkFalls

Untouched == UNCHANGED <<bluez, device_io>>

\* Pairing brings the link up; BlueZ may drop it again.  Only a failed authentication removes
\* the device.
TryPair ==
    /\ pc = "pair"
    /\ \/ bonded /\ pc' = "connect" /\ Untouched /\ UNCHANGED <<held, attempt, poll>> /\ Sound
       \/ ~bonded /\ pc' = "connect" /\ bonded' = TRUE /\ stale' = FALSE
          /\ linkUp' \in {linkUp, TRUE} /\ UNCHANGED <<known, device_io, held, attempt, poll>> /\ Sound
       \/ ~bonded /\ Fail /\ (RemoveDevice \/ Untouched) /\ Fault
       \/ Fail /\ Untouched /\ Fault      \* is_paired() fails

\* The fault: only pairing looks at the kind of the error, connecting does not.
ConnectRejectedKeeps == Untouched /\ Sound

\* The bond's key is refused: AuthenticationFailed or AuthenticationRejected.
ConnectRejected == (RemoveDevice /\ Sound) \/ (Untouched /\ Fault)

\* The fault: any failure removes the device.
ConnectFailedRemoves == RemoveDevice /\ Fault

\* Another failure of BlueZ, a timeout or a cancel among them, keeps the bond.
ConnectFailed == Untouched /\ Fault

TryConnect ==
    /\ pc = "connect"
    /\ \/ linkUp /\ pc' = "chars" /\ Untouched /\ UNCHANGED <<held, attempt, poll>> /\ Sound
       \/ ~linkUp /\ ~stale /\ pc' = "chars" /\ linkUp' = TRUE
          /\ UNCHANGED <<known, bonded, stale, device_io, held, attempt, poll>> /\ Sound
       \/ ~linkUp /\ stale /\ Fail /\ ConnectRejected
       \/ ~linkUp /\ attempt + 1 < max_retries /\ pc' = "pause" /\ attempt' = attempt + 1
          /\ ConnectFailed /\ UNCHANGED <<held, poll>>
       \/ ~linkUp /\ attempt + 1 >= max_retries /\ Fail /\ ConnectFailed
       \/ Fail /\ Untouched /\ Fault      \* is_connected() fails

PauseOver ==
    /\ pc = "pause"
    /\ pc' = "connect"
    /\ UNCHANGED <<bluez, device_io, held, attempt, poll>> /\ Sound

\* The fault: the device is held only if its characteristics were found.
FindCharsFirst ==
    /\ pc = "chars"
    /\ \/ linkUp /\ pc' = "open" /\ device' = TRUE /\ chars' = TRUE
          /\ attempt' = 0 /\ UNCHANGED <<bluez, device_io, poll>> /\ Sound
       \/ Fault /\ Fail /\ UNCHANGED <<bluez, device_io>>
       \/ ~linkUp /\ Fail /\ UNCHANGED <<bluez, device_io>> /\ Sound

\* The device is held as soon as the characteristics were looked for: if one is missing,
\* disconnect() releases it.
FindChars ==
    /\ pc = "chars"
    /\ \/ linkUp /\ pc' = "open" /\ device' = TRUE /\ chars' = TRUE
          /\ attempt' = 0 /\ UNCHANGED <<bluez, device_io, poll>> /\ Sound
       \/ Fault /\ LinkFalls /\ Fail /\ UNCHANGED <<known, bonded, stale>>
       \/ ~linkUp /\ LinkFalls /\ Fail /\ UNCHANGED <<known, bonded, stale>> /\ Sound

-----------------------------------------------------------------------------
(* poll *)

Older(age) == IF age < OldestAge THEN age + 1 ELSE age

\* Assumed of the device: the chunks of one answer are less than a poll interval apart, so
\* that the rest of an answer a poll gave up is lost between the polls.
RestHasPassed == flight # <<>> => Head(flight).part # "tail"

StartPoll ==
    /\ pc = "open" /\ RestHasPassed
    /\ IF chars /\ linkUp
       THEN /\ pc' = "poll" /\ buf' = FALSE /\ received' = FALSE
            /\ unanswered' = Append([i \in DOMAIN unanswered |-> Older(unanswered[i])], 0)
            /\ flight' = [i \in DOMAIN flight |-> [flight[i] EXCEPT !.age = Older(@)]]
            /\ UNCHANGED <<bluez, held, attempt, reading>>
       ELSE Disconnect
    /\ Sound

Back(class) ==   \* what poll returns: a reading or a transient error keeps the link
    IF class = "fatal" THEN Disconnect
    ELSE /\ pc' = "open" /\ buf' = FALSE /\ received' = FALSE
         /\ UNCHANGED <<bluez, held, attempt>>

\* parse_frame: with this chunk there is an object from its first brace to its last.
Completes(chunk) == chunk.part = "whole" \/ (chunk.part = "tail" /\ buf)

\* fetch_metrics takes one more chunk and tries to parse what it has (parse_frame): bytes
\* before the object are skipped, an object with a bad field is Transient.
Receive ==
    LET chunk == Head(flight) IN
    /\ pc = "poll" /\ linkUp /\ flight # <<>>
    /\ flight' = Tail(flight) /\ UNCHANGED unanswered
    /\ \/ Completes(chunk) /\ Back("reading") /\ reading' = chunk.age
       \/ chunk.part = "bad" /\ Back("config") /\ UNCHANGED reading
       \/ ~Completes(chunk) /\ chunk.part # "bad" /\ received' = TRUE /\ buf' = (chunk.part = "head")
          /\ UNCHANGED <<bluez, pc, held, attempt, reading>>
    /\ Sound

\* The fault: a silent poll keeps the link as a partial answer does.
DeadlineTransient ==
    /\ pc = "poll"
    /\ Back("partial") /\ UNCHANGED <<device_io, reading>>
    /\ Sound

\* Silence means that the link does not deliver; a partial answer may be whole next time.
Deadline ==
    /\ pc = "poll"
    /\ IF received THEN Back("partial") /\ UNCHANGED <<device_io, reading>> ELSE Back("fatal")
    /\ Sound

StreamEnded == pc = "poll" /\ ~linkUp /\ Back("fatal") /\ Sound

-----------------------------------------------------------------------------
(* The environment *)

\* The scheduler drops the call (shutdown, connect bound, POLL_TIMEOUT) and disconnects.  A
\* BlueZ connect that is under way may succeed all the same.
Drop ==
    /\ pc \in Connecting \cup {"poll"}
    /\ Disconnect
    /\ Wrong /\ dropped' = TRUE

DropLate ==
    /\ pc = "connect" /\ ~linkUp /\ ~stale
    /\ linkUp' = TRUE
    /\ pc' = "closed" /\ attempt' = 0
    /\ UNCHANGED <<known, bonded, stale, device_io, held, poll>>
    /\ Wrong /\ dropped' = TRUE

Answer ==
    /\ linkUp /\ unanswered # <<>>
    /\ \E parts \in {<<"whole">>, <<"head", "tail">>, <<"bad">>} :
        flight' = flight \o [i \in DOMAIN parts |-> [part |-> parts[i], age |-> Head(unanswered)]]
    /\ unanswered' = Tail(unanswered)
    /\ UNCHANGED <<bluez, pc, held, attempt, poll>> /\ Sound

Unheard ==
    /\ pc # "poll" /\ flight # <<>>
    /\ flight' = Tail(flight)
    /\ UNCHANGED <<bluez, unanswered, pc, held, attempt, poll>> /\ Sound

LinkLost ==
    /\ linkUp /\ LinkFalls
    /\ UNCHANGED <<known, bonded, stale, pc, held, attempt, poll>> /\ Fault

\* The device forgets the key (a reset or new firmware).
Rekey ==
    /\ bonded /\ ~stale /\ stale' = TRUE /\ LinkFalls
    /\ UNCHANGED <<known, bonded, pc, held, attempt, poll>> /\ Fault

Adapter == Connect \/ FindDevice \/ TryPair \/ TryConnect \/ PauseOver \/ FindChars
             \/ StartPoll \/ Receive \/ Deadline \/ StreamEnded

Next == Adapter \/ Drop \/ DropLate \/ Answer \/ Unheard \/ LinkLost \/ Rekey

\* The scheduler calls connect and poll again and again, and every call it does not drop
\* goes on.
Spec == Init /\ [][Next]_vars /\ WF_vars(Adapter) /\ WF_vars(Unheard)

-----------------------------------------------------------------------------
(* Properties *)

Chunk(part) == [part |-> part, age |-> 0]

\* What may be under way of the answer to the last request, and once some of it has come.
AnswerLeft == {<<>>, <<Chunk("tail")>>}
RestOfAnswer ==
    AnswerLeft \cup {<<Chunk("whole")>>, <<Chunk("bad")>>, <<Chunk("head"), Chunk("tail")>>}

\* The fact that carries ReadingAnswersRequest: the device is held exactly while the adapter is
\* open, without it or without a link nothing is under way, a poll starts with nothing under
\* way, and its one request is followed by its one answer.
OneExchange ==
    /\ (device <=> pc \in {"open", "poll"}) /\ (chars <=> device)
    /\ ~device \/ ~linkUp => unanswered = <<>> /\ flight = <<>>
    /\ pc = "open" => unanswered = <<>> /\ flight \in AnswerLeft
    /\ pc = "poll" => \/ unanswered = <<0>> /\ flight = <<>> /\ ~received
                      \/ unanswered = <<>> /\ flight \in RestOfAnswer
                         /\ (received => flight \in AnswerLeft)

TypeOK ==
    /\ known \in BOOLEAN /\ bonded \in BOOLEAN /\ linkUp \in BOOLEAN /\ stale \in BOOLEAN
    /\ pc \in Connecting \cup {"closed", "open", "poll"}
    /\ device \in BOOLEAN /\ chars \in BOOLEAN
    /\ attempt \in 0 .. max_retries - 1
    /\ buf \in BOOLEAN /\ received \in BOOLEAN /\ reading \in 0 .. OldestAge
    /\ dropped \in BOOLEAN /\ faults \in 0 .. MaxFaults

\* A reading answers the request of its own poll, never an earlier one: silence closes the
\* link, and what is left of a truncated answer is no object (fetch_metrics, poll_class).
ReadingAnswersRequest == reading = 0

IInv == TypeOK /\ OneExchange /\ ReadingAnswersRequest

\* A bond that the device still accepts is never removed: timeouts and other errors keep it
\* (is_auth_failure).  A failed pairing has no bond to lose.
GoodBondKept == [][bonded /\ ~stale => bonded']_vars

\* An open connection, and one that lacks a characteristic, is released when the adapter is
\* done with it: BlueZ does not keep a link nobody uses (connect, disconnect).
LinkReleased ==
    [][(pc \in {"chars", "open", "poll"}) /\ pc' = "closed" /\ (pc = "chars" => ~dropped')
         => linkUp' = FALSE]_vars

\* Once nothing goes wrong outside any more, the adapter opens again and again: out of a stale
\* bond, a lost link, a link left up by a dropped connect.
Recovers == []<>(pc = "open")

=============================================================================
