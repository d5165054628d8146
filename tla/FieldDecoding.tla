------------------------------ MODULE FieldDecoding ------------------------------
(***************************************************************************)
(* How the value of a field is read out of a reply (extract_value,         *)
(* extract_value_broadcast and extract_bits in adapter/elm327.rs), for the *)
(* fields a profile may hold (check_field in profile.rs), while the reply  *)
(* gets longer byte by byte.                                               *)
(*                                                                         *)
(* An Option is the set of its values.  Values are the raw integers;       *)
(* multiplier and offset, the same in both functions, are left out.  A     *)
(* byte has Width bits, 8 in the code: the runs take fewer, so that four   *)
(* bytes fit the integers of TLC.                                          *)
(***************************************************************************)
EXTENDS Integers, Sequences

CONSTANTS Width,
          Bytes,      \* the values of a byte that occur
          Indices, Lengths, BitOffsets, BitLengths,  \* what profile files contain
          MaxLength   \* bound: bytes of a reply

ASSUME FieldAssumption ==
    /\ Width \in Nat \ {0} /\ Bytes \subseteq 0 .. 2 ^ Width - 1 /\ MaxLength \in Nat
    /\ Indices \subseteq Int /\ Lengths \subseteq Nat
    /\ BitOffsets \subseteq Nat /\ BitLengths \subseteq Nat

Header == 3           \* bytes of a positive response before its data
LongestBits == 2 * Width

AtMostOne(S) == {{}} \cup {{x} : x \in S}

FieldSpecs == [byte_index : AtMostOne(Indices), length : AtMostOne(Lengths),
               bit_offset : AtMostOne(BitOffsets), bit_length : AtMostOne(BitLengths),
               signed : BOOLEAN]

-----------------------------------------------------------------------------
(* Validation *)

\* The fault: the limit of a uds_pid field holds for every source.
check_field_any(f, max_len) ==
    /\ f.byte_index # {} \/ f.bit_offset # {}
    /\ f.byte_index = {} <=> f.length = {}
    /\ f.bit_offset = {} <=> f.bit_length = {}
    /\ f.length \subseteq 1 .. 4
    /\ f.bit_length \subseteq 1 .. LongestBits

check_field(f, max_len) ==
    /\ f.byte_index # {} \/ f.bit_offset # {}
    /\ f.byte_index = {} <=> f.length = {}
    /\ f.bit_offset = {} <=> f.bit_length = {}
    /\ f.length \subseteq 1 .. max_len
    /\ f.bit_length \subseteq 1 .. LongestBits

-----------------------------------------------------------------------------
(* Decoding *)

ByteAt(payload, i) == payload[i + 1]

\* The fault: bit 0 is the least significant bit of a byte.
BitLsb(payload, k) == (ByteAt(payload, k \div Width) \div 2 ^ (k % Width)) % 2

\* Bit 0 is the most significant bit of byte 0.
Bit(payload, k) == (ByteAt(payload, k \div Width) \div 2 ^ (Width - 1 - (k % Width))) % 2

\* What has been accumulated after each bit.
Accumulated(payload, bit_offset, bit_length) ==
    LET acc[i \in 0 .. bit_length] ==
            IF i = 0 THEN 0 ELSE 2 * acc[i - 1] + Bit(payload, bit_offset + i - 1) IN
    acc

extract_bits(payload, bit_offset, bit_length) ==
    LET needed_bytes == (bit_offset + bit_length + Width - 1) \div Width IN
    IF bit_length \in 1 .. LongestBits /\ needed_bytes <= Len(payload)
    THEN {Accumulated(payload, bit_offset, bit_length)[bit_length]} ELSE {}

\* Where a field of length bytes starts: a negative index counts from the end.
Start(payload, byte_index, length, skip) ==
    IF byte_index < 0 THEN Len(payload) + byte_index ELSE byte_index + skip

BigEndian(payload, i, n) ==
    LET R == 2 ^ Width
        b(k) == ByteAt(payload, i + k) IN
    IF n = 1 THEN b(0)
    ELSE IF n = 2 THEN R * b(0) + b(1)
    ELSE IF n = 3 THEN R * (R * b(0) + b(1)) + b(2)
    ELSE R * (R * (R * b(0) + b(1)) + b(2)) + b(3)

SignExtend(v, n) == IF v >= 2 ^ (Width * n - 1) THEN v - 2 ^ (Width * n) ELSE v

Raw(payload, i, n, signed) ==
    IF signed THEN SignExtend(BigEndian(payload, i, n), n) ELSE BigEndian(payload, i, n)

\* length bytes at byte_index, if they are there.
ReadBytes(payload, byte_index, length, signed, skip, longest) ==
    LET idx == Start(payload, byte_index, length, skip) IN
    IF idx >= 0 /\ idx + length <= Len(payload) /\ length \in 1 .. longest
    THEN {Raw(payload, idx, length, signed)} ELSE {}

extract_bytes(payload, f, skip, longest) ==
    UNION {UNION {ReadBytes(payload, bi, n, f.signed, skip, longest)
                  : n \in f.length} : bi \in f.byte_index}

HasBits(f) == f.bit_offset # {} /\ f.bit_length # {}

extract_value(payload, f) ==
    IF HasBits(f)
    THEN UNION {UNION {extract_bits(payload, off + Width * Header, n)
                       : n \in f.bit_length} : off \in f.bit_offset}
    ELSE extract_bytes(payload, f, Header, 4)

extract_value_broadcast(payload, f) ==
    IF HasBits(f)
    THEN UNION {UNION {extract_bits(payload, off, n) : n \in f.bit_length} : off \in f.bit_offset}
    ELSE extract_bytes(payload, f, 0, 2)

-----------------------------------------------------------------------------
VARIABLES source, field, reply

fieldVars == <<source, field, reply>>

MaxLen(s) == IF s = "uds_pid" THEN 4 ELSE 2

\* A field of a profile that was loaded, so that it was validated (VehicleProfile::validate).
FieldInit ==
    /\ source \in {"uds_pid", "broadcast"}
    /\ field \in {f \in FieldSpecs : check_field(f, MaxLen(source))}
    /\ reply = <<>>

\* The reply goes on.
NextByte ==
    /\ Len(reply) < MaxLength
    /\ \E b \in Bytes : reply' = Append(reply, b)
    /\ UNCHANGED <<source, field>>

FieldDecodingSpec == FieldInit /\ [][NextByte]_fieldVars

Decode(s, p, f) ==
    IF s = "uds_pid" THEN extract_value(p, f) ELSE extract_value_broadcast(p, f)

Value == Decode(source, reply, field)

-----------------------------------------------------------------------------
(* Properties *)

Skip == IF source = "uds_pid" THEN Header ELSE 0
FromTheEnd(f) == ~HasBits(f) /\ \E bi \in f.byte_index : bi < 0

\* The reply is long enough for the field.
LongEnough ==
    IF HasBits(field)
    THEN \A off \in field.bit_offset, n \in field.bit_length :
           off + n <= Width * (Len(reply) - Skip)
    ELSE \A bi \in field.byte_index, n \in field.length :
           IF bi < 0 THEN n <= -bi /\ -bi <= Len(reply) ELSE Skip + bi + n <= Len(reply)

\* A field that the validation lets pass has a value in every reply that is long enough: the
\* decoders refuse no length that the profile may hold (check_field, extract_value).
ValidFieldDecodes == LongEnough => Value # {}

\* A value at index -k depends on the last k bytes alone and starts with the first of them.
TailAlone == FromTheEnd(field) => \A bi \in field.byte_index :
    LET tail == SubSeq(reply, Len(reply) + bi + 1, Len(reply))
        data == IF source = "uds_pid" THEN <<0, 0, 0>> \o tail ELSE tail IN
    -bi <= Len(reply) => Value = Decode(source, data, [field EXCEPT !.byte_index = {0}])

\* The bits of a field, read one by one, are the number that its bytes hold, shifted and cut:
\* offsets count from behind the header, across bytes (extract_bits, extract_value).
BitsOfTheNumber == HasBits(field) /\ Value # {} =>
    \A off \in field.bit_offset, n \in field.bit_length :
      LET from == Width * Skip + off
          first == from \div Width
          last == (from + n - 1) \div Width
          number == BigEndian(reply, first, last - first + 1) IN
      Value = {(number \div 2 ^ (Width * (last + 1) - from - n)) % 2 ^ n}

=============================================================================
