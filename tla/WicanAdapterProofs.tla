-------------------------- MODULE WicanAdapterProofs --------------------------
(***************************************************************************)
(* WicanAdapter for every number of retries and of faults: IInv is         *)
(* inductive, so a reading answers the request of its own poll; a good     *)
(* bond is never removed; and no link is left up that nobody uses.         *)
(***************************************************************************)
EXTENDS WicanAdapter, TLAPS

LEMMA RetriesFit == max_retries \in Nat /\ max_retries >= 1
  BY WicanAssumption DEF max_retries, Larger

\* The answers of the device, and what is left of one after a chunk.
LEMMA AnswerParts ==
  /\ <<>> \in RestOfAnswer
  /\ \A parts \in {<<"whole">>, <<"head", "tail">>, <<"bad">>} :
       <<>> \o [i \in DOMAIN parts |-> [part |-> parts[i], age |-> 0]] \in RestOfAnswer
<1>1. <<>> \o [i \in DOMAIN <<"whole">> |-> [part |-> <<"whole">>[i], age |-> 0]]
        = <<Chunk("whole")>>
  BY DEF Chunk
<1>2. <<>> \o [i \in DOMAIN <<"bad">> |-> [part |-> <<"bad">>[i], age |-> 0]]
        = <<Chunk("bad")>>
  BY DEF Chunk
<1>3. <<>> \o [i \in DOMAIN <<"head", "tail">> |-> [part |-> <<"head", "tail">>[i], age |-> 0]]
        = <<Chunk("head"), Chunk("tail")>>
  BY DEF Chunk
<1> QED BY <1>1, <1>2, <1>3 DEF RestOfAnswer, AnswerLeft

LEMMA ChunkParts ==
  \A rest \in RestOfAnswer : rest # <<>> =>
     /\ Head(rest).age = 0
     /\ Head(rest).part \in {"whole", "bad", "tail"} => Tail(rest) = <<>>
     /\ Head(rest).part = "head" => Tail(rest) = <<Chunk("tail")>>
     /\ Head(rest).part \in {"whole", "bad", "head", "tail"}
<1>1. \A part \in {"whole", "bad", "tail"} :
        /\ Head(<<Chunk(part)>>) = Chunk(part) /\ Tail(<<Chunk(part)>>) = <<>>
        /\ Chunk(part).age = 0 /\ Chunk(part).part = part
  BY DEF Chunk
<1>2. /\ Head(<<Chunk("head"), Chunk("tail")>>) = Chunk("head")
      /\ Tail(<<Chunk("head"), Chunk("tail")>>) = <<Chunk("tail")>>
      /\ Chunk("head").age = 0 /\ Chunk("head").part = "head"
  BY DEF Chunk
<1> QED BY <1>1, <1>2 DEF RestOfAnswer, AnswerLeft

-----------------------------------------------------------------------------
(* The inductive invariant *)

LEMMA InitIInv == Init => IInv
<1> SUFFICES ASSUME Init PROVE IInv
  OBVIOUS
<1>1. TypeOK
  <2>1. /\ pc \in Connecting \cup {"closed", "open", "poll"} /\ attempt \in 0 .. max_retries - 1
        /\ reading \in 0 .. OldestAge /\ faults \in 0 .. MaxFaults
    BY RetriesFit, WicanAssumption DEF Init, OldestAge
  <2>2. known \in BOOLEAN /\ bonded \in BOOLEAN /\ linkUp \in BOOLEAN /\ stale \in BOOLEAN
    BY DEF Init
  <2>3. /\ device \in BOOLEAN /\ chars \in BOOLEAN /\ buf \in BOOLEAN /\ received \in BOOLEAN
        /\ dropped \in BOOLEAN
    BY DEF Init
  <2> QED BY <2>1, <2>2, <2>3 DEF TypeOK
<1>2. OneExchange /\ ReadingAnswersRequest
  BY DEF Init, OneExchange, ReadingAnswersRequest
<1> QED BY <1>1, <1>2 DEF IInv

\* Every step keeps the types.
LEMMA NextTypeOK == ASSUME IInv, [Next]_vars PROVE TypeOK'
<1>0. /\ TypeOK /\ MaxFaults \in Nat /\ max_retries \in Nat /\ 0 \in 0 .. max_retries - 1
      /\ 0 \in 0 .. OldestAge
  BY RetriesFit, WicanAssumption DEF IInv, OldestAge
<1>1. faults' \in 0 .. MaxFaults /\ dropped' \in BOOLEAN
  <2>1. faults' \in 0 .. MaxFaults
    <3>1. faults' = faults \/ Wrong
      BY DEF Next, Adapter, Connect, FindDevice, TryPair, TryConnect, ConnectRejected,
         ConnectFailed, PauseOver, FindChars, StartPoll, Receive, Deadline, StreamEnded, Drop,
         DropLate, Answer, Unheard, LinkLost, Rekey, Fault, Sound, vars
    <3> QED BY <1>0, <3>1 DEF TypeOK, Wrong
  <2>2. dropped' \in BOOLEAN
    BY <1>0 DEF TypeOK, Next, Adapter, Connect, FindDevice, TryPair, TryConnect, ConnectRejected,
         ConnectFailed, PauseOver, FindChars, StartPoll, Receive, Deadline, StreamEnded, Drop,
         DropLate, Answer, Unheard, LinkLost, Rekey, Fault, Wrong, Sound, vars
  <2> QED BY <2>1, <2>2
<1>2. /\ known' \in BOOLEAN /\ bonded' \in BOOLEAN /\ stale' \in BOOLEAN /\ linkUp' \in BOOLEAN
  <2>1. known' \in BOOLEAN
    BY <1>0 DEF TypeOK, Next, Adapter, Connect, FindDevice, TryPair, TryConnect, ConnectRejected,
       ConnectFailed, PauseOver, FindChars, StartPoll, Receive, Deadline, StreamEnded, Drop,
       DropLate, Answer, Unheard, LinkLost, Rekey, vars, bluez, Disconnect, LinkFalls, Untouched,
       RemoveDevice, Back
  <2>2. bonded' \in BOOLEAN
    BY <1>0 DEF TypeOK, Next, Adapter, Connect, FindDevice, TryPair, TryConnect, ConnectRejected,
       ConnectFailed, PauseOver, FindChars, StartPoll, Receive, Deadline, StreamEnded, Drop,
       DropLate, Answer, Unheard, LinkLost, Rekey, vars, bluez, Disconnect, LinkFalls, Untouched,
       RemoveDevice, Back
  <2>3. stale' \in BOOLEAN
    BY <1>0 DEF TypeOK, Next, Adapter, Connect, FindDevice, TryPair, TryConnect, ConnectRejected,
       ConnectFailed, PauseOver, FindChars, StartPoll, Receive, Deadline, StreamEnded, Drop,
       DropLate, Answer, Unheard, LinkLost, Rekey, vars, bluez, Disconnect, LinkFalls, Untouched,
       RemoveDevice, Back
  <2>4. linkUp' \in BOOLEAN
    BY <1>0 DEF TypeOK, Next, Adapter, Connect, FindDevice, TryPair, TryConnect, ConnectRejected,
       ConnectFailed, PauseOver, FindChars, StartPoll, Receive, Deadline, StreamEnded, Drop,
       DropLate, Answer, Unheard, LinkLost, Rekey, vars, bluez, Disconnect, LinkFalls, Untouched,
       RemoveDevice, Back
  <2> QED BY <2>1, <2>2, <2>3, <2>4
<1>3. /\ pc' \in Connecting \cup {"closed", "open", "poll"}
      /\ attempt' \in 0 .. max_retries - 1
  <2>1. CASE TryConnect
    BY <1>0, <2>1 DEF TypeOK, TryConnect, Fail, Connecting
  <2>2. CASE ~TryConnect
    BY <1>0, <2>2 DEF TypeOK, Next, Adapter, Connect, FindDevice, TryPair,
       PauseOver, FindChars, StartPoll, Receive, Deadline, StreamEnded, Drop, DropLate, Answer,
       Unheard, LinkLost, Rekey, vars, Disconnect, Back, Fail, Connecting
  <2> QED BY <2>1, <2>2
<1>4. device' \in BOOLEAN /\ chars' \in BOOLEAN /\ buf' \in BOOLEAN /\ received' \in BOOLEAN
  BY <1>0 DEF TypeOK, Next, Adapter, Connect, FindDevice, TryPair, TryConnect, PauseOver,
       FindChars, StartPoll, Receive, Deadline, StreamEnded, Drop, DropLate, Answer, Unheard,
       LinkLost, Rekey, vars, held, poll, Disconnect, Back, Fail
<1>5. reading' \in 0 .. OldestAge
  <2>1. CASE Receive
    <3>1. Head(flight).age = 0
      BY <2>1, ChunkParts DEF Receive, IInv, OneExchange
    <3>2. reading' \in {reading, 0}
      BY <2>1, <3>1 DEF Receive, Back, Disconnect, poll
    <3> QED BY <1>0, <3>2 DEF TypeOK
  <2>2. CASE ~Receive
    BY <1>0, <2>2 DEF TypeOK, Next, Adapter, Connect, FindDevice, TryPair, TryConnect, PauseOver,
       FindChars, StartPoll, Deadline, StreamEnded, Drop, DropLate, Answer, Unheard,
       LinkLost, Rekey, vars, poll, Disconnect, Back, Fail
  <2> QED BY <2>1, <2>2
<1> QED BY <1>1, <1>2, <1>3, <1>4, <1>5 DEF TypeOK

\* Every step keeps the one exchange, and what it yields.
LEMMA NextOneExchange ==
  ASSUME IInv, [Next]_vars
  PROVE  OneExchange' /\ ReadingAnswersRequest'
<1> USE DEF IInv, ReadingAnswersRequest, OneExchange, vars, bluez, device_io, held, poll,
            LinkFalls, AnswerLeft
<1>0. linkUp \in BOOLEAN /\ device \in BOOLEAN /\ received \in BOOLEAN
  BY DEF TypeOK
<1>1. CASE Connect \/ FindDevice \/ PauseOver
  BY <1>1 DEF Connect, FindDevice, PauseOver, Fail
<1>2. CASE TryPair
  <2>1. pc = "pair" /\ ~device /\ ~chars /\ unanswered = <<>> /\ flight = <<>>
    BY <1>0, <1>2 DEF TryPair
  <2>2. /\ pc' \in {"connect", "closed"} /\ unanswered' = <<>> /\ flight' = <<>>
        /\ UNCHANGED <<device, chars, reading>>
    BY <1>2, <2>1 DEF TryPair, Fail, RemoveDevice, Untouched
  <2> QED BY <2>1, <2>2
<1>3. CASE TryConnect
  BY <1>3 DEF TryConnect, ConnectRejected, ConnectFailed, Fail, RemoveDevice, Untouched
<1>4. CASE FindChars
  BY <1>4 DEF FindChars, Fail
<1>5. CASE StartPoll
  <2>1. CASE chars /\ linkUp
    <3>1. unanswered = <<>> /\ flight = <<>>
      BY <1>5, <2>1 DEF StartPoll, RestHasPassed, Chunk
    <3>2. pc' = "poll" /\ ~received' /\ UNCHANGED <<linkUp, device, chars, reading>>
      BY <1>5, <2>1 DEF StartPoll
    <3>3. flight' = <<>>
      <4>1. flight' = [i \in DOMAIN flight |-> [flight[i] EXCEPT !.age = Older(@)]]
        BY <1>5, <2>1 DEF StartPoll
      <4> QED BY <3>1, <4>1
    <3>4. unanswered' = <<0>>
      <4>1. unanswered' = Append([i \in DOMAIN unanswered |-> Older(unanswered[i])], 0)
        BY <1>5, <2>1 DEF StartPoll
      <4>2. [i \in DOMAIN unanswered |-> Older(unanswered[i])] = <<>>
        BY <3>1
      <4> QED BY <4>1, <4>2
    <3> QED BY <1>5, <2>1, <3>2, <3>3, <3>4 DEF StartPoll
  <2>2. CASE ~(chars /\ linkUp)
    BY <1>5, <2>2 DEF StartPoll, Disconnect
  <2> QED BY <2>1, <2>2
<1>6. CASE Receive
  <2>1. /\ pc = "poll" /\ linkUp /\ flight # <<>> /\ flight \in RestOfAnswer
        /\ unanswered = <<>> /\ unanswered' = <<>> /\ flight' = Tail(flight)
        /\ Head(flight).age = 0
    BY <1>6, ChunkParts DEF Receive
  <2>2. flight' \in AnswerLeft /\ (received' => flight' \in AnswerLeft)
    BY <2>1, ChunkParts
  <2>3. reading' = 0 /\ pc' \in {"poll", "open"} /\ UNCHANGED <<linkUp, device, chars>>
    BY <1>6, <2>1 DEF Receive, Back
  <2> QED BY <2>1, <2>2, <2>3 DEF RestOfAnswer, AnswerLeft
<1>7. CASE Deadline
  <2>1. CASE received
    <3>1. unanswered = <<>> /\ flight \in AnswerLeft
      BY <1>7, <2>1 DEF Deadline
    <3> QED BY <1>7, <2>1, <3>1 DEF Deadline, Back
  <2>2. CASE ~received
    BY <1>7, <2>2 DEF Deadline, Back, Disconnect
  <2> QED BY <2>1, <2>2
<1>8. CASE StreamEnded
  BY <1>8 DEF StreamEnded, Back, Disconnect
<1>9. CASE Drop
  BY <1>0, <1>9 DEF Drop, Disconnect
<1>10. CASE DropLate
  BY <1>10 DEF DropLate
<1>11. CASE Answer
  <2>1. /\ pc = "poll" /\ unanswered = <<0>> /\ flight = <<>> /\ linkUp /\ ~received
        /\ UNCHANGED <<pc, linkUp, device, chars, reading, received>>
    BY <1>0, <1>11 DEF Answer
  <2>2. unanswered' = <<>> /\ Head(unanswered) = 0
    BY <1>11, <2>1 DEF Answer
  <2>3. flight' \in RestOfAnswer
    BY <1>11, <2>1, <2>2, AnswerParts DEF Answer
  <2> QED BY <2>1, <2>2, <2>3
<1>12. CASE Unheard
  <2>1. /\ pc = "open" /\ flight = <<Chunk("tail")>> /\ unanswered = <<>>
        /\ flight' = Tail(flight) /\ UNCHANGED <<unanswered, pc, linkUp, device, chars, reading>>
    BY <1>0, <1>12 DEF Unheard, TypeOK
  <2> QED BY <2>1
<1>13. CASE LinkLost \/ Rekey
  BY <1>13 DEF LinkLost, Rekey, RestOfAnswer, AnswerLeft
<1>14. CASE UNCHANGED vars
  BY <1>14
<1> QED
  BY <1>1, <1>2, <1>3, <1>4, <1>5, <1>6, <1>7, <1>8, <1>9, <1>10, <1>11, <1>12, <1>13, <1>14
  DEF Next, Adapter

(* IInv holds in every reachable state. *)
THEOREM Invariance == Spec => []IInv
<1>1. IInv /\ [Next]_vars => IInv'
  BY NextTypeOK, NextOneExchange DEF IInv
<1> QED BY InitIInv, <1>1, PTL DEF Spec

(***************************************************************************)
(* However often polls are given up, calls dropped and links lost, a       *)
(* reading is the answer to the request of its own poll.                   *)
(***************************************************************************)
THEOREM ReadingsAreFresh == Spec => []ReadingAnswersRequest
  BY Invariance, PTL DEF IInv

(***************************************************************************)
(* Only a bond whose key the device refuses is removed: no timeout, cancel *)
(* or other failure costs the user a pairing.                              *)
(***************************************************************************)
THEOREM GoodBondsStay == Spec => GoodBondKept
<1>1. [Next]_vars => [bonded /\ ~stale => bonded']_vars
  BY DEF Next, Adapter, Connect, FindDevice, TryPair, TryConnect, ConnectRejected, ConnectFailed,
         PauseOver, FindChars, StartPoll, Receive, Deadline, StreamEnded, Drop, DropLate, Answer,
         Unheard, LinkLost, Rekey, vars, bluez, Disconnect, Untouched, RemoveDevice, Back
<1> QED BY <1>1, PTL DEF Spec, GoodBondKept

(***************************************************************************)
(* The adapter leaves no link up that it opened or held, except that of a  *)
(* connect dropped before the device was held.                             *)
(***************************************************************************)
THEOREM LinksAreReleased == Spec => LinkReleased
<1>1. IInv /\ [Next]_vars =>
        [(pc \in {"chars", "open", "poll"}) /\ pc' = "closed" /\ (pc = "chars" => ~dropped')
           => linkUp' = FALSE]_vars
  <2> SUFFICES ASSUME IInv, Next, pc \in {"chars", "open", "poll"}, pc' = "closed",
                      pc = "chars" => ~dropped'
               PROVE  linkUp' = FALSE
    BY DEF vars
  <2> USE DEF IInv, OneExchange, LinkFalls
  <2>1. CASE FindChars
    BY <2>1 DEF FindChars
  <2>2. CASE StartPoll \/ Receive \/ Deadline \/ StreamEnded
    BY <2>2 DEF StartPoll, Receive, Deadline, StreamEnded, Back, Disconnect
  <2>3. CASE Drop
    BY <2>3 DEF Drop, Disconnect, Connecting
  <2>4. CASE LinkLost \/ Rekey
    BY <2>4 DEF LinkLost, Rekey
  <2>5. CASE Connect \/ FindDevice \/ TryPair \/ TryConnect \/ PauseOver \/ DropLate \/ Answer
             \/ Unheard
    BY <2>5 DEF Connect, FindDevice, TryPair, TryConnect, PauseOver, DropLate, Answer, Unheard
  <2> QED BY <2>1, <2>2, <2>3, <2>4, <2>5 DEF Next, Adapter
<1> QED BY <1>1, Invariance, PTL DEF Spec, LinkReleased
=============================================================================
