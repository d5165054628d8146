------------------------------ MODULE ReplyAssembly ------------------------------
(***************************************************************************)
(* How a reply of several CAN frames becomes a payload: the lines that     *)
(* poll_uds_pid_multiframe collects, assemble_iso_tp, and get_payload of   *)
(* the same lines (adapter/elm327.rs).                                     *)
(*                                                                         *)
(* The message is size bytes long, and byte i of it, or of the padding     *)
(* behind it, is the number i.  The chip prints a short message on one     *)
(* line.  Of a long one it prints the length, the six bytes of frame 0 and *)
(* the seven of each frame after it, the last one padded (render and       *)
(* isotp_frames in the emulator).  A frame after frame 0 may be lost on    *)
(* the bus, and the poll may stop reading anywhere.                        *)
(***************************************************************************)
EXTENDS Naturals, Sequences

CONSTANTS MaxSize,          \* bound: bytes of a message
          MAX_REPLY_LINES   \* lines read of one reply

ASSUME AssemblyAssumption == MaxSize \in Nat /\ MAX_REPLY_LINES \in Nat \ {0}

VARIABLES size,      \* of the message
          frame,     \* the next one that the chip prints
          pc,        \* "read", "assemble", then "accepted" or "rejected"
          lines,     \* collected
          i,         \* the line that assemble_iso_tp is at
          expected_len, got_data, payload

bus == <<size, frame>>
assemblyVars == <<bus, pc, lines, i, expected_len, got_data, payload>>

Long == size > 7
FrameCount == IF Long THEN size \div 7 + 1 ELSE 1

\* The bytes of a frame's line.
First(k) == IF k = 0 THEN 1 ELSE 7 * k
Last(k) == IF Long THEN 7 * k + 6 ELSE size
BytesOf(k) == [j \in 1 .. Last(k) - First(k) + 1 |-> First(k) + j - 1]

Searching == [kind |-> "searching"]
Length == [kind |-> "length", size |-> size]
Data(k) == [kind |-> "data", frame |-> k]

AssemblyInit ==
    /\ size \in 1 .. MaxSize /\ frame = 0 /\ pc = "read"
    /\ lines \in {<<>>, <<Searching>>}
    /\ i = 1 /\ expected_len = {} /\ got_data = FALSE /\ payload = <<>>

-----------------------------------------------------------------------------
(* Collecting *)

Room == Len(lines) < MAX_REPLY_LINES
ToAssembler == UNCHANGED <<i, expected_len, got_data, payload>>

LengthPrinted == \E j \in DOMAIN lines : lines[j] = Length

ReadLength ==
    /\ pc = "read" /\ Long /\ ~LengthPrinted /\ Room
    /\ lines' = Append(lines, Length)
    /\ UNCHANGED <<bus, pc>> /\ ToAssembler

\* Frame 0 of a long message follows the line of its length.
ReadFirst ==
    /\ pc = "read" /\ frame = 0 /\ (Long => LengthPrinted) /\ Room
    /\ lines' = Append(lines, Data(0)) /\ frame' = 1
    /\ UNCHANGED <<size, pc>> /\ ToAssembler

ReadNext ==
    /\ pc = "read" /\ frame > 0 /\ frame < FrameCount /\ Room
    /\ lines' = Append(lines, Data(frame)) /\ frame' = frame + 1
    /\ UNCHANGED <<size, pc>> /\ ToAssembler

FrameLost ==
    /\ pc = "read" /\ frame > 0 /\ frame < FrameCount
    /\ frame' = frame + 1
    /\ UNCHANGED <<size, pc, lines>> /\ ToAssembler

\* The prompt, a timeout or the cap on the lines.
StopReading ==
    /\ pc = "read"
    /\ pc' = "assemble"
    /\ UNCHANGED <<bus, lines>> /\ ToAssembler

-----------------------------------------------------------------------------
(* assemble_iso_tp, one line at a time *)

Here(kind) == pc = "assemble" /\ i <= Len(lines) /\ lines[i].kind = kind

TakeSearching ==
    /\ Here("searching")
    /\ i' = i + 1
    /\ UNCHANGED <<bus, pc, lines, expected_len, got_data, payload>>

TakeLength ==
    /\ Here("length") /\ ~got_data /\ expected_len = {}
    /\ expected_len' = {lines[i].size} /\ i' = i + 1
    /\ UNCHANGED <<bus, pc, lines, got_data, payload>>

\* The declared length cuts the padding off and ends the loop.
TakeData ==
    /\ Here("data")
    /\ LET all == payload \o BytesOf(lines[i].frame) IN
       \/ /\ \A n \in expected_len : Len(all) < n
          /\ payload' = all /\ i' = i + 1
       \/ \E n \in expected_len :
            Len(all) >= n /\ payload' = SubSeq(all, 1, n) /\ i' = Len(lines) + 1
    /\ got_data' = TRUE
    /\ UNCHANGED <<bus, pc, lines, expected_len>>

\* The fault: a reply that is shorter than declared is taken.
JudgeAny ==
    /\ pc = "assemble" /\ i > Len(lines)
    /\ pc' = IF got_data THEN "accepted" ELSE "rejected"
    /\ UNCHANGED <<bus, lines, i, expected_len, got_data, payload>>

Judge ==
    /\ pc = "assemble" /\ i > Len(lines)
    /\ pc' = IF got_data /\ \A n \in expected_len : Len(payload) >= n
             THEN "accepted" ELSE "rejected"
    /\ UNCHANGED <<bus, lines, i, expected_len, got_data, payload>>

Assemble == TakeSearching \/ TakeLength \/ TakeData \/ Judge

AssemblyNext == ReadLength \/ ReadFirst \/ ReadNext \/ FrameLost \/ StopReading \/ Assemble

ReplyAssemblySpec == AssemblyInit /\ [][AssemblyNext]_assemblyVars

-----------------------------------------------------------------------------
(* get_payload *)

\* The fault: the line of the length is read as data.
IsLengthNever(ls, k) == FALSE

\* SEARCHING is dropped; the first line after it is taken for the length if it has at most
\* three digits, as a data line of one byte has.
IsLength(ls, k) ==
    /\ ls[k].kind = "length" \/ (ls[k].kind = "data" /\ Len(BytesOf(ls[k].frame)) = 1)
    /\ \A j \in 1 .. k - 1 : ls[j].kind = "searching"

\* Of a length line that is not dropped, the first two digits are read as a byte.
LineBytes(ls, k) ==
    IF ls[k].kind = "searching" \/ IsLength(ls, k) THEN <<>>
    ELSE IF ls[k].kind = "length" THEN <<0>>
    ELSE BytesOf(ls[k].frame)

\* What has been read after each line.
UpTo(ls) ==
    LET f[k \in 0 .. Len(ls)] == IF k = 0 THEN <<>> ELSE f[k - 1] \o LineBytes(ls, k) IN f

get_payload(ls) == UpTo(ls)[Len(ls)]

-----------------------------------------------------------------------------
(* Properties *)

Message == [j \in 1 .. size |-> j]

\* A reply that is accepted is the message, byte by byte and without its padding, whatever was
\* lost and wherever the reading stopped: a lost frame is longer than the padding can hide
\* (assemble_iso_tp).
WholeOrNothing == pc = "accepted" => payload = Message

\* A source polled without multiframe reads the same bytes at the same places, with the
\* padding behind them, unless the reply is a single byte (get_payload).
SameFromTheStart ==
    pc = "accepted" /\ size > 1 =>
      LET whole == get_payload(lines) IN
      /\ Len(payload) <= Len(whole)
      /\ \A j \in 1 .. Len(payload) : whole[j] = payload[j]

-----------------------------------------------------------------------------
(* Why WholeOrNothing holds: an inductive invariant *)

Printed == {Searching, Length} \cup {Data(k) : k \in 0 .. FrameCount - 1}
IsData(k) == lines[k].kind = "data"
InPlace == \A j \in 1 .. Len(payload) : payload[j] = j

TypeOK ==
    /\ size \in Nat \ {0} /\ frame \in 0 .. FrameCount
    /\ pc \in {"read", "assemble", "accepted", "rejected"}
    /\ lines \in Seq(Printed) /\ i \in 1 .. Len(lines) + 1
    /\ expected_len \in {{}, {size}} /\ got_data \in BOOLEAN /\ payload \in Seq(Nat)
    /\ pc = "read" => i = 1 /\ expected_len = {} /\ payload = <<>>
    /\ got_data <=> payload # <<>>

\* Frames are printed in order, behind the one line of a long message's length.
InOrder ==
    /\ \A j, k \in 1 .. Len(lines) :
         j < k /\ IsData(j) /\ IsData(k) => lines[j].frame < lines[k].frame
    /\ \A k \in 1 .. Len(lines) : IsData(k) => lines[k].frame < frame
    /\ frame > 0 => \E j \in 1 .. Len(lines) : lines[j] = Data(0)
    /\ \A k \in 1 .. Len(lines) :
         IsData(k) /\ lines[k].frame > 0 => \E j \in 1 .. k - 1 : lines[j] = Data(0)

LengthFirst ==
    /\ \A j, k \in 1 .. Len(lines) : lines[j] = Length /\ lines[k] = Length => j = k
    /\ \A k \in 1 .. Len(lines) : lines[k] = Length => Long
    /\ Long /\ frame > 0 => LengthPrinted
    /\ \A k \in 1 .. Len(lines) :
         Long /\ IsData(k) => \E j \in 1 .. k - 1 : lines[j] = Length
    /\ expected_len # {} <=> \E j \in 1 .. i - 1 : lines[j] = Length

\* The frame that the payload is complete up to: none of those to come is an earlier one, and
\* it is among them only if none before it was lost.
Taken == (Len(payload) + 6) \div 7

NextInOrder ==
    /\ \A k \in i .. Len(lines) :
         IsData(k) => lines[k].frame >= Taken /\ (lines[k].frame = Taken => InPlace)
    /\ \A j \in 1 .. i - 1 : IsData(j) => got_data

Whole == Len(payload) = size /\ InPlace

Uncut ==
    /\ expected_len # {} => Len(payload) < size
    /\ Long => (got_data => expected_len # {}) /\ Len(payload) = IF got_data THEN 7 * Taken - 1 ELSE 0
    /\ ~Long => payload = <<>> \/ Whole

IInv == TypeOK /\ InOrder /\ LengthFirst /\ NextInOrder /\ (Uncut \/ (Whole /\ i = Len(lines) + 1))

\* Why SameFromTheStart holds: line by line, get_payload reads what assemble_iso_tp does, except
\* for what is cut off at the end.
StartsWith(whole, start) ==
    Len(start) <= Len(whole) /\ \A j \in 1 .. Len(start) : whole[j] = start[j]

SameSoFar ==
    /\ size > 1 => \/ payload = UpTo(lines)[i - 1]
                   \/ i = Len(lines) + 1 /\ StartsWith(get_payload(lines), payload)
    /\ pc = "accepted" => i = Len(lines) + 1

=============================================================================
