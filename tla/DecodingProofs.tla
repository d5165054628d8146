------------------------------ MODULE DecodingProofs ------------------------------
(***************************************************************************)
(* Proofs about the decoding, one part at a time: fields in replies of     *)
(* every length, for every byte width and every profile (FieldDecoding),   *)
(* the assembly of messages of any length (ReplyAssembly), scans of any    *)
(* length (BroadcastScan), and payloads of all readings (Payloads).        *)
(***************************************************************************)
EXTENDS Decoding, TLAPS, WellFoundedInduction, NaturalsInduction, FiniteSetTheorems, FunctionTheorems

-----------------------------------------------------------------------------
(* Numbers: least elements, powers of two, quotients *)

\* Every set of numbers has a least one: what a recursive function computes is proved by it.
LEMMA LeastOne ==
    ASSUME NEW T, T \subseteq Nat, T # {}
    PROVE  \E x \in T : \A y \in T : x <= y
<1>1. IsWellFoundedOn(OpToRel(<, Nat), Nat)
  BY NatLessThanWellFounded
<1>2. PICK x \in T : \A y \in T : ~(<<y, x>> \in OpToRel(<, Nat))
  BY <1>1, WFMin
<1>3. \A y \in T : y < x => <<y, x>> \in OpToRel(<, Nat)
  BY DEF OpToRel
<1>4. x \in Nat /\ \A y \in T : y \in Nat /\ ~(y < x)
  BY <1>2, <1>3
<1>5. \A y \in T : x <= y
  BY ONLY <1>4
<1> QED BY <1>5

\* 2 ^ n is the number of subsets of a set of n elements: so it doubles.
LEMMA Doubles ==
  ASSUME NEW n \in Nat
  PROVE  2 ^ n \in Nat /\ 2 ^ (n + 1) = 2 ^ n + 2 ^ n
<1> DEFINE S == 1 .. n
           m == n + 1
           A == SUBSET S
           B == {T \cup {m} : T \in A}
<1>1. IsFiniteSet(S) /\ Cardinality(S) = n /\ IsFiniteSet(1 .. m) /\ Cardinality(1 .. m) = m
  BY FS_Interval
<1>2. IsFiniteSet(A) /\ Cardinality(A) = 2 ^ n /\ Cardinality(SUBSET (1 .. m)) = 2 ^ m
  <2>1. Cardinality(A) = 2 ^ Cardinality(S) /\ IsFiniteSet(A)
    BY <1>1, FS_SUBSET
  <2>2. Cardinality(SUBSET (1 .. m)) = 2 ^ Cardinality(1 .. m)
    BY <1>1, FS_SUBSET
  <2> QED BY ONLY <1>1, <2>1, <2>2
<1>3. IsFiniteSet(B) /\ Cardinality(B) = Cardinality(A)
  <2> DEFINE f == [T \in A |-> T \cup {m}]
  <2>1. \A T \in A : m \notin T
    OBVIOUS
  <2>2. \A T, U \in A : T \cup {m} = U \cup {m} => T = U
    BY <2>1
  <2>3. f \in Bijection(A, B)
    <3>1. f \in [A -> B]
      OBVIOUS
    <3>2. \A T, U \in A : f[T] = f[U] => T = U
      BY <2>2
    <3>3. \A t \in B : \E T \in A : f[T] = t
      OBVIOUS
    <3> HIDE DEF f, B, A
    <3> QED BY <3>1, <3>2, <3>3, Fun_IsBij
  <2>4. ExistsBijection(A, B)
    BY <2>3 DEF ExistsBijection
  <2> QED BY <1>2, <2>4, FS_Bijection
<1>4. A \cap B = {}
  <2>1. \A T \in A : m \notin T
    OBVIOUS
  <2> QED BY <2>1
<1>5. A \cup B = SUBSET (1 .. m)
  <2>1. \A T \in SUBSET (1 .. m) : m \notin T => T \in A
    OBVIOUS
  <2>2. \A T \in SUBSET (1 .. m) : m \in T => T \in B
    <3> TAKE T \in SUBSET (1 .. m)
    <3> HAVE m \in T
    <3>1. T \ {m} \in A /\ T = (T \ {m}) \cup {m}
      OBVIOUS
    <3> QED BY <3>1
  <2>3. \A T \in A : T \in SUBSET (1 .. m) /\ T \cup {m} \in SUBSET (1 .. m)
    OBVIOUS
  <2>4. A \cup B \subseteq SUBSET (1 .. m)
    <3>1. B \subseteq SUBSET (1 .. m)
      BY <2>3, Zenon
    <3>2. A \subseteq SUBSET (1 .. m)
      BY <2>3, Zenon
    <3> HIDE DEF A, B
    <3> QED BY <3>1, <3>2
  <2>5. SUBSET (1 .. m) \subseteq A \cup B
    <3> HIDE DEF A, B
    <3> QED BY <2>1, <2>2
  <2> QED BY <2>4, <2>5
<1>6. Cardinality(A \cup B) = Cardinality(A) + Cardinality(B) - Cardinality(A \cap B)
  BY <1>2, <1>3, FS_Union
<1>7. Cardinality({}) = 0
  BY FS_EmptySet
<1>8. Cardinality(A) \in Nat
  BY <1>2, FS_CardinalityType
<1> HIDE DEF A, B
<1>9. Cardinality(A \cup B) = Cardinality(A) + Cardinality(A)
  <2>1. Cardinality(A \cap B) = 0 /\ Cardinality(B) = Cardinality(A)
    BY <1>3, <1>4, <1>7, Zenon
  <2>2. Cardinality(A \cup B) = Cardinality(A) + Cardinality(A) - 0
    BY ONLY <1>6, <2>1, Zenon
  <2> QED BY ONLY <1>8, <2>2
<1>10. Cardinality(SUBSET (1 .. m)) = Cardinality(A) + Cardinality(A)
  BY ONLY <1>5, <1>9
<1> QED BY ONLY <1>2, <1>8, <1>10, Zenon

LEMMA PowerOfZero == 2 ^ 0 = 1
<1>1. IsFiniteSet({}) /\ Cardinality({}) = 0
  BY FS_EmptySet
<1>2. Cardinality(SUBSET {}) = 2 ^ Cardinality({})
  BY <1>1, FS_SUBSET
<1>3. SUBSET {} = {{}}
  OBVIOUS
<1>4. Cardinality({{}}) = 1
  BY FS_Singleton
<1> QED BY <1>1, <1>2, <1>3, <1>4

Pow(n) == 2 ^ n

\* The laws of powers of two, of which the prover knows none.
LEMMA Powers ==
  /\ Pow(0) = 1
  /\ \A n \in Nat : Pow(n) \in Nat /\ Pow(n + 1) = 2 * Pow(n)
<1>1. Pow(0) = 1
  BY PowerOfZero DEF Pow
<1>2. ASSUME NEW n \in Nat PROVE Pow(n) \in Nat /\ Pow(n + 1) = 2 * Pow(n)
  <2>1. Pow(n) \in Nat /\ Pow(n + 1) = Pow(n) + Pow(n)
    BY Doubles, Zenon DEF Pow
  <2> HIDE DEF Pow
  <2> QED BY <2>1
<1> QED BY <1>1, <1>2

\* 2 ^ (a + b) = 2 ^ a * 2 ^ b.
LEMMA PowersMultiply ==
  ASSUME NEW a \in Nat
  PROVE  \A b \in Nat : Pow(a + b) = Pow(a) * Pow(b) /\ Pow(b) > 0
<1> DEFINE T == {b \in Nat : ~(Pow(a + b) = Pow(a) * Pow(b) /\ Pow(b) > 0)}
<1>1. T = {}
  <2> SUFFICES ASSUME T # {} PROVE FALSE
    OBVIOUS
  <2>1. PICK b \in T : \A c \in T : b <= c
    BY LeastOne
  <2>2. Pow(a) \in Nat
    BY Powers
  <2>3. b # 0
    <3>1. Pow(0) = 1 /\ a + 0 = a
      BY Powers
    <3>2. Pow(a + 0) = Pow(a) * 1
      BY <2>2, <3>1
    <3>3. Pow(a + 0) = Pow(a) * Pow(0) /\ Pow(0) > 0
      BY <3>1, <3>2
    <3> QED BY <2>1, <3>3
  <2>4. b - 1 \in Nat /\ b - 1 \notin T
    BY <2>1, <2>3
  <2>5. Pow(a + (b - 1)) = Pow(a) * Pow(b - 1) /\ Pow(b - 1) > 0
    BY <2>4
  <2>6. Pow((b - 1) + 1) = 2 * Pow(b - 1) /\ Pow(b - 1) \in Nat
        /\ Pow((a + (b - 1)) + 1) = 2 * Pow(a + (b - 1))
    BY <2>4, Powers
  <2>7. (b - 1) + 1 = b /\ (a + (b - 1)) + 1 = a + b
    BY <2>1
  <2>8. Pow(b) = 2 * Pow(b - 1) /\ Pow(a + b) = 2 * Pow(a + (b - 1))
    BY <2>6, <2>7
  <2>9. Pow(a + b) = Pow(a) * Pow(b) /\ Pow(b) > 0
    BY <2>2, <2>5, <2>6, <2>8
  <2> QED BY <2>1, <2>9
<1> QED BY <1>1

\* Products, quotients and remainders, apart from each other: the solver finds these facts, and
\* none of the following without them.
LEMMA Times ==
  ASSUME NEW a \in Nat, NEW b \in Nat, NEW d \in Nat
  PROVE  a * d \in Nat /\ (a <= b => a * d <= b * d) /\ (a + b) * d = a * d + b * d
  OBVIOUS

LEMMA Divides ==
  ASSUME NEW x \in Nat, NEW d \in Nat, d > 0
  PROVE  x \div d \in Nat /\ x % d \in 0 .. d - 1 /\ x = (x \div d) * d + (x % d)
  OBVIOUS

\* A quotient is known by its remainder.
LEMMA Quotient ==
  ASSUME NEW q \in Nat, NEW d \in Nat, NEW r \in Nat, r < d
  PROVE  (q * d + r) \div d = q /\ (q * d + r) % d = r
<1> DEFINE x == q * d + r
           y == x \div d
<1>0. q * d \in Nat
  BY Times
<1>1. x \in Nat /\ d > 0
  BY <1>0
<1>2. y \in Nat /\ x % d \in 0 .. d - 1 /\ x = y * d + (x % d)
  BY <1>1, Divides
<1>3. y <= q
  <2> SUFFICES ASSUME q + 1 <= y PROVE FALSE
    BY <1>2
  <2>1. (q + 1) * d <= y * d /\ (q + 1) * d = q * d + 1 * d
    BY <1>2, Times
  <2> HIDE DEF y
  <2>2. y * d \in Nat /\ 1 * d = d
    BY <1>2, Times
  <2> QED BY <1>0, <1>2, <2>1, <2>2
<1>4. q <= y
  <2> SUFFICES ASSUME y + 1 <= q PROVE FALSE
    BY <1>2
  <2>1. (y + 1) * d <= q * d /\ (y + 1) * d = y * d + 1 * d
    BY <1>2, Times
  <2> HIDE DEF y
  <2>2. y * d \in Nat /\ 1 * d = d
    BY <1>2, Times
  <2> QED BY <1>0, <1>2, <2>1, <2>2
<1>5. y = q
  BY <1>2, <1>3, <1>4
<1>6. x % d = r
  <2> HIDE DEF y
  <2>1. x = q * d + (x % d)
    BY <1>2, <1>5
  <2> QED BY <1>0, <1>2, <2>1
<1> QED BY <1>5, <1>6

\* Dividing twice.
LEMMA DividesTwice ==
  ASSUME NEW x \in Nat, NEW a \in Nat, NEW b \in Nat, a > 0, b > 0
  PROVE  (x \div a) \div b = x \div (a * b)
<1> DEFINE y == x \div a
           r == x % a
           q == y \div b
           s == y % b
<1>1. y \in Nat /\ r \in 0 .. a - 1 /\ x = y * a + r
  BY Divides
<1>2. q \in Nat /\ s \in 0 .. b - 1 /\ y = q * b + s
  BY <1>1, Divides
<1> HIDE DEF y, r, q, s
<1>3. q * (a * b) \in Nat /\ a * b \in Nat /\ s * a \in Nat
  BY <1>2
<1>4. y * a = q * (a * b) + s * a
  BY <1>1, <1>2
<1>5. s * a + a <= a * b
  <2>1. (s + 1) * a <= b * a /\ (s + 1) * a = s * a + 1 * a
    BY <1>2, Times
  <2> QED BY <1>2, <2>1
<1>6. x = q * (a * b) + (s * a + r) /\ s * a + r \in Nat /\ s * a + r < a * b
  BY <1>1, <1>3, <1>4, <1>5
<1>7. x \div (a * b) = q
  BY <1>2, <1>3, <1>6, Quotient
<1> QED BY <1>7 DEF q, y

\* The last bit of a number.
LEMMA LastBit ==
  ASSUME NEW x \in Nat
  PROVE  x % 2 \in {0, 1} /\ x = 2 * (x \div 2) + (x % 2)
  OBVIOUS

\* One more bit at the end.
LEMMA OneMoreBit ==
  ASSUME NEW x \in Nat, NEW p \in Nat, p > 0, NEW b \in {0, 1}
  PROVE  (2 * x + b) % (2 * p) = 2 * (x % p) + b
<1> DEFINE q == x \div p
           r == x % p
<1>1. q \in Nat /\ r \in 0 .. p - 1 /\ x = q * p + r
  BY Divides
<1> HIDE DEF q, r
<1>2. q * p \in Nat /\ q * (2 * p) = 2 * (q * p)
  BY <1>1
<1>3. 2 * x + b = q * (2 * p) + (2 * r + b)
  BY <1>1, <1>2
<1>4. 2 * r + b \in Nat /\ 2 * r + b < 2 * p /\ 2 * p \in Nat
  BY <1>1
<1>5. (q * (2 * p) + (2 * r + b)) % (2 * p) = 2 * r + b
  BY <1>1, <1>4, Quotient
<1> QED BY <1>3, <1>5 DEF r

\* What stands before a byte leaves its bits alone.
LEMMA BitInByte ==
  ASSUME NEW h \in Nat, NEW b \in Nat, NEW d \in Nat, NEW e \in Nat, d > 0,
         NEW v, v = h * (d * (2 * e)) + b
  PROVE  (v \div d) % 2 = (b \div d) % 2
<1> DEFINE c == b \div d
           r == b % d
<1>1. d * (2 * e) \in Nat /\ h * (d * (2 * e)) \in Nat /\ h * (2 * e) \in Nat
  OBVIOUS
<1>2. c \in Nat /\ r \in 0 .. d - 1 /\ b = c * d + r
  BY Divides
<1> HIDE DEF c, r
<1>3. h * (d * (2 * e)) = (h * (2 * e)) * d
  OBVIOUS
<1>4. v = (h * (2 * e) + c) * d + r
  <2>1. (h * (2 * e) + c) * d = (h * (2 * e)) * d + c * d
    BY <1>1, <1>2, Times
  <2>2. c * d \in Nat /\ (h * (2 * e)) * d \in Nat
    BY <1>1, <1>2, Times
  <2> QED BY <1>2, <1>3, <2>1, <2>2
<1>5. v \div d = h * (2 * e) + c
  <2>1. h * (2 * e) + c \in Nat
    BY <1>1, <1>2
  <2> QED BY <1>2, <1>4, <2>1, Quotient
<1>6. (h * (2 * e) + c) % 2 = c % 2
  <2>1. h * (2 * e) = 2 * (h * e) /\ h * e \in Nat
    OBVIOUS
  <2> QED BY <1>2, <2>1
<1> QED BY <1>5, <1>6 DEF c

-----------------------------------------------------------------------------
(* FieldDecoding *)

LEMMA FieldParts ==
  ASSUME NEW f \in FieldSpecs
  PROVE  /\ f.byte_index \in AtMostOne(Indices) /\ f.length \in AtMostOne(Lengths)
         /\ f.bit_offset \in AtMostOne(BitOffsets) /\ f.bit_length \in AtMostOne(BitLengths)
         /\ f.signed \in BOOLEAN
  BY DEF FieldSpecs

\* What an option holds.
LEMMA Optional ==
  ASSUME NEW S, NEW o \in AtMostOne(S), o # {}
  PROVE  \E x \in S : o = {x}
  BY DEF AtMostOne

\* A field of a valid profile is a pair of bits or a pair of bytes.
LEMMA ValidShape ==
  ASSUME NEW f \in FieldSpecs, NEW m, check_field(f, m)
  PROVE  \/ HasBits(f)
         \/ \E bi \in Indices, n \in Lengths :
              f.byte_index = {bi} /\ f.length = {n} /\ n \in 1 .. m
<1>1. f.byte_index \in AtMostOne(Indices) /\ f.length \in AtMostOne(Lengths)
  BY FieldParts
<1>2. CASE HasBits(f)
  BY <1>2
<1>3. CASE ~HasBits(f)
  <2>1. f.byte_index # {} /\ f.length # {} /\ f.length \subseteq 1 .. m
    BY <1>3 DEF check_field, HasBits
  <2>2. PICK bi \in Indices : f.byte_index = {bi}
    BY <1>1, <2>1, Optional
  <2>3. PICK n \in Lengths : f.length = {n}
    BY <1>1, <2>1, Optional
  <2> QED BY <2>1, <2>2, <2>3
<1> QED BY <1>2, <1>3

LEMMA OneRead ==
  ASSUME NEW p, NEW f, NEW bi, NEW n, NEW skip, NEW longest,
         f.byte_index = {bi}, f.length = {n}
  PROVE  extract_bytes(p, f, skip, longest) = ReadBytes(p, bi, n, f.signed, skip, longest)
<1>1. \A x : UNION {x} = x
  OBVIOUS
<1>2. {ReadBytes(p, bi, k, f.signed, skip, longest) : k \in {n}}
        = {ReadBytes(p, bi, n, f.signed, skip, longest)}
  OBVIOUS
<1>3. {UNION {ReadBytes(p, b, k, f.signed, skip, longest) : k \in {n}} : b \in {bi}}
        = {UNION {ReadBytes(p, bi, k, f.signed, skip, longest) : k \in {n}}}
  OBVIOUS
<1> QED BY <1>1, <1>2, <1>3 DEF extract_bytes

LEMMA Reading ==
  ASSUME NEW p, NEW bi, NEW n, NEW signed, NEW skip, NEW longest, NEW at,
         at = Start(p, bi, n, skip)
  PROVE  /\ at >= 0 /\ at + n <= Len(p) /\ n \in 1 .. longest
              => ReadBytes(p, bi, n, signed, skip, longest) = {Raw(p, at, n, signed)}
         /\ ~(at >= 0 /\ at + n <= Len(p) /\ n \in 1 .. longest)
              => ReadBytes(p, bi, n, signed, skip, longest) = {}
  BY DEF ReadBytes

\* Reads from two replies agree if the bytes read agree.
Agree(p, at, q, j, n) ==
  \A k \in 0 .. 3 : (n \in 1 .. 3 /\ k >= n) \/ p[at + k + 1] = q[j + k + 1]

LEMMA SameBytes ==
  ASSUME NEW p, NEW q, NEW n, NEW at, NEW j, Agree(p, at, q, j, n), NEW signed
  PROVE  Raw(p, at, n, signed) = Raw(q, j, n, signed)
<1>1. p[at + 0 + 1] = q[j + 0 + 1]
  BY DEF Agree
<1>2. n = 1 \/ p[at + 1 + 1] = q[j + 1 + 1]
  BY DEF Agree
<1>3. n = 1 \/ n = 2 \/ p[at + 2 + 1] = q[j + 2 + 1]
  BY DEF Agree
<1>4. n = 1 \/ n = 2 \/ n = 3 \/ p[at + 3 + 1] = q[j + 3 + 1]
  BY DEF Agree
<1>5. BigEndian(p, at, n) = BigEndian(q, j, n)
  BY <1>1, <1>2, <1>3, <1>4 DEF BigEndian, ByteAt
<1> QED BY <1>5 DEF Raw

-----------------------------------------------------------------------------
\* The field was validated; the reply is a sequence of bytes.
Validated ==
  /\ source \in {"uds_pid", "broadcast"}
  /\ field \in FieldSpecs /\ check_field(field, MaxLen(source))
  /\ reply \in Seq(Bytes)

LEMMA ValidatedAlways == FieldDecodingSpec => []Validated
<1>1. FieldInit => Validated
  BY DEF FieldInit, Validated
<1>2. Validated /\ [NextByte]_fieldVars => Validated'
  <2> SUFFICES ASSUME Validated, [NextByte]_fieldVars PROVE Validated'
    OBVIOUS
  <2>1. source' = source /\ field' = field
    BY DEF NextByte, fieldVars
  <2>2. reply' \in Seq(Bytes)
    BY DEF NextByte, fieldVars, Validated
  <2> QED BY <2>1, <2>2 DEF Validated, MaxLen, check_field
<1> QED BY <1>1, <1>2, PTL DEF FieldDecodingSpec

\* The value of a byte field, for the source at hand.
LEMMA ByteValue ==
  ASSUME NEW s \in {"uds_pid", "broadcast"}, NEW f, NEW p, NEW bi, NEW n, ~HasBits(f),
         f.byte_index = {bi}, f.length = {n}
  PROVE  Decode(s, p, f)
           = ReadBytes(p, bi, n, f.signed, IF s = "uds_pid" THEN Header ELSE 0, MaxLen(s))
<1>1. CASE s = "uds_pid"
  BY <1>1, OneRead DEF Decode, extract_value, MaxLen
<1>2. CASE s = "broadcast"
  BY <1>2, OneRead DEF Decode, extract_value_broadcast, MaxLen
<1> QED BY <1>1, <1>2

\* What the validation lets pass is decoded from every reply that is long enough.
THEOREM ValidFieldsDecode == FieldDecodingSpec => []ValidFieldDecodes
<1>1. Validated => ValidFieldDecodes
  <2> SUFFICES ASSUME Validated, LongEnough PROVE Value # {}
    BY DEF ValidFieldDecodes
  <2>1. CASE HasBits(field)
    <3>1. PICK off \in BitOffsets : field.bit_offset = {off}
      BY <2>1, FieldParts, Optional DEF Validated, HasBits
    <3>2. PICK n \in BitLengths : field.bit_length = {n}
      BY <2>1, FieldParts, Optional DEF Validated, HasBits
    <3>3. n \in 1 .. LongestBits
      BY <3>2 DEF Validated, check_field
    <3>4. off \in Nat /\ n \in Nat /\ Width \in Nat /\ Width >= 1 /\ Len(reply) \in Nat
      BY FieldAssumption DEF Validated
    <3>5. off + n <= Width * (Len(reply) - Skip)
      BY <2>1, <3>1, <3>2 DEF LongEnough
    <3> DEFINE from == off + (IF source = "uds_pid" THEN Width * Header ELSE 0)
    <3>6. from \in Nat /\ from + n <= Width * Len(reply)
      <4>1. Width * (Len(reply) - Skip) = Width * Len(reply) - Width * Skip
        BY <3>4 DEF Skip, Header
      <4> QED BY <3>4, <3>5, <4>1 DEF Skip, Header
    <3>7. (from + n + Width - 1) \div Width <= Len(reply)
      <4>1. \A x, w, l \in Nat : w >= 1 /\ x <= w * l => (x + w - 1) \div w <= l
        <5> SUFFICES ASSUME NEW x \in Nat, NEW w \in Nat, NEW l \in Nat, w >= 1, x <= w * l
                     PROVE  (x + w - 1) \div w <= l
          OBVIOUS
        <5> DEFINE d == (x + w - 1) \div w
        <5>1. d \in Nat /\ w * d <= x + w - 1
          OBVIOUS
        <5>2. w * d < w * (l + 1)
          BY <5>1
        <5>3. \A a, b \in Nat : a >= b => w * a >= w * b
          OBVIOUS
        <5> QED BY <5>1, <5>2, <5>3
      <4>2. from + n \in Nat /\ Width \in Nat /\ Width >= 1 /\ Len(reply) \in Nat
        BY <3>4, <3>6
      <4> HIDE DEF from
      <4>3. ((from + n) + Width - 1) \div Width <= Len(reply)
        BY <3>6, <4>1, <4>2
      <4> QED BY <4>3
    <3>8. extract_bits(reply, from, n) # {}
      BY <3>3, <3>7 DEF extract_bits
    <3>9. Value = extract_bits(reply, from, n)
      <4>1. \A x : UNION {UNION {x}} = x
        OBVIOUS
      <4>2. CASE source = "uds_pid"
        BY <2>1, <3>1, <3>2, <4>1, <4>2 DEF Value, Decode, extract_value
      <4>3. CASE source = "broadcast"
        <5>1. from = off
          BY <3>4, <4>3
        <5> QED BY <2>1, <3>1, <3>2, <4>1, <4>3, <5>1 DEF Value, Decode, extract_value_broadcast
      <4> QED BY <4>2, <4>3 DEF Validated
    <3> QED BY <3>8, <3>9
  <2>2. CASE ~HasBits(field)
    <3>1. PICK bi \in Indices, n \in Lengths :
            field.byte_index = {bi} /\ field.length = {n} /\ n \in 1 .. MaxLen(source)
      BY <2>2, ValidShape DEF Validated
    <3>2. bi \in Int /\ n \in Nat /\ Len(reply) \in Nat
      BY <3>1, FieldAssumption DEF Validated
    <3>3. IF bi < 0 THEN n <= -bi /\ -bi <= Len(reply) ELSE Skip + bi + n <= Len(reply)
      BY <2>2, <3>1 DEF LongEnough
    <3>4. Value = ReadBytes(reply, bi, n, field.signed, Skip, MaxLen(source))
      BY <2>2, <3>1, ByteValue DEF Value, Validated, Skip
    <3>5. Skip \in Nat
      BY DEF Skip, Header
    <3> DEFINE at == Start(reply, bi, n, Skip)
    <3>6. at >= 0 /\ at + n <= Len(reply)
      BY <3>1, <3>2, <3>3, <3>5 DEF Start
    <3> HIDE DEF at
    <3>7. \A x : {x} # {}
      OBVIOUS
    <3>8. at = Start(reply, bi, n, Skip)
      BY DEF at
    <3> QED BY <3>1, <3>4, <3>6, <3>7, <3>8, Reading
  <2> QED BY <2>1, <2>2
<1> QED BY <1>1, ValidatedAlways, PTL

\* A value at a negative index depends on the last bytes alone.
THEOREM TailDecides == FieldDecodingSpec => []TailAlone
<1>1. Validated => TailAlone
  <2> SUFFICES ASSUME Validated, FromTheEnd(field), NEW bi \in field.byte_index, -bi <= Len(reply)
               PROVE  LET tail == SubSeq(reply, Len(reply) + bi + 1, Len(reply))
                          data == IF source = "uds_pid" THEN <<0, 0, 0>> \o tail ELSE tail IN
                      Value = Decode(source, data, [field EXCEPT !.byte_index = {0}])
    BY DEF TailAlone
  <2> DEFINE tail == SubSeq(reply, Len(reply) + bi + 1, Len(reply))
             data == IF source = "uds_pid" THEN <<0, 0, 0>> \o tail ELSE tail
             f == [field EXCEPT !.byte_index = {0}]
  <2>1. PICK n \in Lengths :
          field.byte_index = {bi} /\ field.length = {n} /\ n \in 1 .. MaxLen(source)
    BY ValidShape DEF Validated, FromTheEnd
  <2>2. bi \in Int /\ bi < 0 /\ n \in Nat /\ Len(reply) \in Nat
    <3>1. \E b \in {bi} : b < 0
      BY <2>1 DEF FromTheEnd
    <3>2. bi \in Indices
      <4>1. field.byte_index \in AtMostOne(Indices)
        BY FieldParts DEF Validated
      <4> QED BY <4>1 DEF AtMostOne
    <3> QED BY <2>1, <3>1, <3>2, FieldAssumption DEF Validated
  <2>3. f.byte_index = {0} /\ f.length = {n} /\ f.signed = field.signed /\ ~HasBits(f)
    BY <2>1 DEF FromTheEnd, HasBits, Validated, FieldSpecs
  <2>4. Value = ReadBytes(reply, bi, n, field.signed, Skip, MaxLen(source))
    BY <2>1, ByteValue DEF Value, Validated, Skip, FromTheEnd
  <2>5. Decode(source, data, f) = ReadBytes(data, 0, n, field.signed, Skip, MaxLen(source))
    <3> HIDE DEF f, data
    <3> QED BY <2>3, ByteValue DEF Validated, Skip
  <2>6. tail \in Seq(Bytes) /\ Len(tail) = -bi
        /\ \A k \in 1 .. -bi : tail[k] = reply[Len(reply) + bi + k]
    BY <2>2 DEF Validated
  <2>7. Len(data) = Skip - bi /\ Skip \in Nat
        /\ \A k \in 1 .. -bi : data[Skip + k] = reply[Len(reply) + bi + k]
    <3>1. CASE source = "uds_pid"
      BY <2>2, <2>6, <3>1 DEF Skip, Header
    <3>2. CASE source = "broadcast"
      BY <2>2, <2>6, <3>2 DEF Skip
    <3> QED BY <3>1, <3>2 DEF Validated
  <2> HIDE DEF data, tail
  <2>8. Start(reply, bi, n, Skip) = Len(reply) + bi /\ Start(data, 0, n, Skip) = Skip
    BY <2>2, <2>7 DEF Start
  <2>9. ASSUME n <= -bi PROVE Value = Decode(source, data, f)
    <3>1. \A k \in 0 .. n - 1 : reply[(Len(reply) + bi) + k + 1] = data[Skip + k + 1]
      <4> TAKE k \in 0 .. n - 1
      <4>1. k + 1 \in 1 .. -bi
        BY <2>2, <2>9
      <4>2. data[Skip + (k + 1)] = reply[Len(reply) + bi + (k + 1)]
        BY <4>1, <2>7
      <4> QED BY <4>2, <2>2, <2>7
    <3>2. n \in 1 .. 4
      BY <2>1, <2>2 DEF MaxLen, Validated
    <3> DEFINE start == Len(reply) + bi
    <3>3. start \in Int /\ Skip \in Int /\ start >= 0 /\ start + n <= Len(reply) /\ Skip + n <= Len(data)
      BY <2>2, <2>7, <2>9
    <3>4. start = Start(reply, bi, n, Skip) /\ Skip = Start(data, 0, n, Skip)
      BY <2>8
    <3>5. Agree(reply, start, data, Skip, n)
      BY <3>1, <3>2 DEF Agree
    <3> HIDE DEF start
    <3>6. Raw(reply, start, n, field.signed) = Raw(data, Skip, n, field.signed)
      BY <3>5, SameBytes
    <3>7. Value = {Raw(reply, start, n, field.signed)}
      BY <2>1, <2>4, <3>3, <3>4, Reading
    <3> HIDE DEF f
    <3>8. Decode(source, data, f) = {Raw(data, Skip, n, field.signed)}
      BY <2>1, <2>5, <2>7, <3>3, <3>4, Reading
    <3> QED BY <3>6, <3>7, <3>8
  <2>10. ASSUME ~(n <= -bi) PROVE Value = Decode(source, data, f)
    <3>1. ~(Start(reply, bi, n, Skip) + n <= Len(reply))
          /\ ~(Start(data, 0, n, Skip) + n <= Len(data))
      BY <2>2, <2>7, <2>8, <2>10
    <3> HIDE DEF f
    <3>2. Value = {} /\ Decode(source, data, f) = {}
      BY <2>4, <2>5, <3>1, Reading
    <3> QED BY <3>2
  <2>11. Value = Decode(source, data, f)
    BY <2>9, <2>10
  <2> QED BY <2>11 DEF data, tail
<1> QED BY <1>1, ValidatedAlways, PTL

\* A byte field counted from the start keeps its value when the reply goes on.
THEOREM BytesStayPut ==
  FieldDecodingSpec => [][Value # {} /\ ~HasBits(field) /\ ~FromTheEnd(field) => Value' = Value]_fieldVars
<1>1. Validated /\ Validated' /\ [NextByte]_fieldVars
        => (Value # {} /\ ~HasBits(field) /\ ~FromTheEnd(field) => Value' = Value)
  <2> SUFFICES ASSUME Validated, Validated', [NextByte]_fieldVars,
                      Value # {}, ~HasBits(field), ~FromTheEnd(field)
               PROVE  Value' = Value
    OBVIOUS
  <2>1. PICK bi \in Indices, n \in Lengths :
          field.byte_index = {bi} /\ field.length = {n} /\ n \in 1 .. MaxLen(source)
    BY ValidShape DEF Validated
  <2>2. bi \in Int /\ bi >= 0 /\ n \in Nat /\ Len(reply) \in Nat /\ Skip \in Nat
    BY <2>1, FieldAssumption DEF Validated, FromTheEnd, Skip, Header
  <2>3. source' = source /\ field' = field
    BY DEF NextByte, fieldVars
  <2>4. Len(reply') \in Nat /\ Len(reply') >= Len(reply)
        /\ \A k \in 1 .. Len(reply) : reply'[k] = reply[k]
    <3>1. CASE NextByte
      BY <3>1 DEF NextByte, Validated
    <3>2. CASE UNCHANGED fieldVars
      BY <2>2, <3>2 DEF fieldVars
    <3> QED BY <3>1, <3>2
  <2>5. Value = ReadBytes(reply, bi, n, field.signed, Skip, MaxLen(source))
    BY <2>1, ByteValue DEF Value, Validated, Skip
  <2>6. Value' = ReadBytes(reply', bi, n, field.signed, Skip, MaxLen(source))
    BY <2>1, <2>3, ByteValue DEF Value, Validated, Skip
  <2>7. Start(reply, bi, n, Skip) = bi + Skip /\ Start(reply', bi, n, Skip) = bi + Skip
    BY <2>2 DEF Start
  <2>8. bi + Skip + n <= Len(reply) /\ n \in 1 .. MaxLen(source)
    BY <2>2, <2>5, <2>7 DEF ReadBytes
  <2>9. n \in 1 .. 4
    BY <2>2, <2>8 DEF MaxLen, Validated
  <2> DEFINE start == bi + Skip
  <2>10. start \in Int /\ start >= 0 /\ start + n <= Len(reply) /\ start + n <= Len(reply')
    BY <2>2, <2>4, <2>8
  <2>11. Agree(reply, start, reply', start, n)
    <3> SUFFICES \A k \in 0 .. n - 1 : reply[start + k + 1] = reply'[start + k + 1]
      BY <2>9 DEF Agree
    <3> TAKE k \in 0 .. n - 1
    <3>1. start + k + 1 \in 1 .. Len(reply)
      BY <2>2, <2>10
    <3> QED BY <3>1, <2>4
  <2>12. start = Start(reply, bi, n, Skip) /\ start = Start(reply', bi, n, Skip)
    BY <2>7
  <2> HIDE DEF start
  <2>13. Raw(reply, start, n, field.signed) = Raw(reply', start, n, field.signed)
    BY <2>11, SameBytes
  <2>14. Value = {Raw(reply, start, n, field.signed)}
    <3>1. ReadBytes(reply, bi, n, field.signed, Skip, MaxLen(source))
            = {Raw(reply, start, n, field.signed)}
      <4>1. start >= 0 /\ start + n <= Len(reply) /\ n \in 1 .. MaxLen(source)
        BY <2>1, <2>10
      <4>2. start = Start(reply, bi, n, Skip)
        BY <2>12
      <4> QED BY <4>1, <4>2, Reading
    <3> QED BY <3>1, <2>5
  <2>15. Value' = {Raw(reply', start, n, field.signed)}
    BY <2>1, <2>2, <2>6, <2>10, <2>12, Reading
  <2> QED BY <2>13, <2>14, <2>15
<1> QED BY <1>1, ValidatedAlways, PTL DEF FieldDecodingSpec

-----------------------------------------------------------------------------
(* Bit fields *)

\* The bytes of a number of up to three bytes, the first one first.
IsByteString(p, at, n) ==
  /\ at \in Nat /\ n \in 1 .. 3 /\ Width \in Nat \ {0}
  /\ \A k \in 0 .. n - 1 : ByteAt(p, at + k) \in Nat /\ ByteAt(p, at + k) < Pow(Width)

\* The bit j of the bytes from at is a digit of their number.
LEMMA DigitOfNumber ==
  ASSUME NEW p, NEW at, NEW n, IsByteString(p, at, n), NEW j \in 0 .. Width * n - 1
  PROVE  /\ BigEndian(p, at, n) \in Nat
         /\ Width * n - 1 - j \in Nat
         /\ (BigEndian(p, at, n) \div Pow(Width * n - 1 - j)) % 2 = Bit(p, Width * at + j)
<1> DEFINE k == j \div Width
           r == j % Width
           s == Width - 1 - r
           N == BigEndian(p, at, n)
           b(m) == ByteAt(p, at + m)
           R == Pow(Width)
           d == Pow(s)
           e == Pow(r)
<1>0. Width \in Nat /\ Width > 0 /\ n \in {1, 2, 3} /\ at \in Nat /\ j \in Nat /\ j < Width * n
  <2>1. n \in {1, 2, 3} /\ Width \in Nat /\ Width > 0 /\ at \in Nat
    BY DEF IsByteString
  <2> QED BY <2>1
<1>1. k \in Nat /\ r \in 0 .. Width - 1 /\ j = k * Width + r
  BY <1>0, Divides
<1>2. k < n
  <2> HIDE DEF k, r
  <2> QED BY <1>0, <1>1
<1>3. s \in Nat /\ r \in Nat /\ s + r + 1 = Width
  <2> HIDE DEF r
  <2> QED BY <1>0, <1>1
<1> HIDE DEF k, r, s
<1>4. d \in Nat /\ e \in Nat /\ d > 0 /\ e > 0 /\ R \in Nat /\ R = d * (2 * e)
  <2>1. d \in Nat /\ e \in Nat /\ R \in Nat /\ d > 0 /\ e > 0
    BY <1>0, <1>3, Powers, PowersMultiply
  <2>2. Pow(r + 1) = 2 * e /\ Pow(s + (r + 1)) = d * Pow(r + 1)
    <3>1. r + 1 \in Nat
      BY <1>3
    <3>2. Pow(r + 1) = 2 * e
      BY <1>3, Powers
    <3>3. Pow(s + (r + 1)) = d * Pow(r + 1)
      BY <1>3, <3>1, PowersMultiply
    <3> QED BY <3>2, <3>3
  <2>3. s + (r + 1) = Width
    BY <1>0, <1>3
  <2> QED BY <2>1, <2>2, <2>3
<1>5. Bit(p, Width * at + j) = (b(k) \div d) % 2
  <2>1. at + k \in Nat /\ Width * at + j = (at + k) * Width + r
    BY <1>0, <1>1
  <2>2. (Width * at + j) \div Width = at + k /\ (Width * at + j) % Width = r
    BY <1>0, <1>1, <2>1, Quotient
  <2> QED BY <2>2 DEF Bit, s, Pow
<1>6. \A m \in 0 .. n - 1 : b(m) \in Nat /\ b(m) < R
  BY DEF IsByteString
<1> HIDE DEF d, e, R, b
<1>7. ASSUME NEW h \in Nat, NEW t \in Nat, NEW Q \in Nat, NEW q \in Nat, Q > t, Q = Pow(q),
             N = (h * R + b(k)) * Q + t, Width * n - 1 - j = q + s
      PROVE  N \in Nat /\ Width * n - 1 - j \in Nat
             /\ (N \div Pow(Width * n - 1 - j)) % 2 = (b(k) \div d) % 2
  <2>1. b(k) \in Nat
    BY <1>1, <1>2, <1>0, <1>6
  <2>2. Pow(q + s) = Q * d
    BY <1>3, <1>7, PowersMultiply DEF d
  <2>4. N \in Nat
    <3>1. h * R + b(k) \in Nat
      BY <1>4, <1>7, <2>1
    <3>2. (h * R + b(k)) * Q \in Nat
      BY <1>7, <3>1, Times
    <3> HIDE DEF N
    <3> QED BY <1>7, <3>2
  <2>5. Width * n - 1 - j \in Nat
    BY <1>3, <1>7
  <2> HIDE DEF N
  <2>6. (N \div (Q * d)) % 2 = (b(k) \div d) % 2
    <3> DEFINE v == h * R + b(k)
    <3>1. v \in Nat /\ N = v * Q + t
      BY <1>4, <1>7, <2>1
    <3>2. (v \div d) % 2 = (b(k) \div d) % 2
      <4>1. v = h * (d * (2 * e)) + b(k)
        BY <1>4
      <4>2. d \in Nat /\ e \in Nat /\ d > 0
        BY <1>4
      <4> HIDE DEF v
      <4> QED BY ONLY <2>1, <4>1, <4>2, h \in Nat, BitInByte
    <3> HIDE DEF v
    <3>3. N \div Q = v
      BY <1>7, <3>1, Quotient
    <3>4. (N \div Q) \div d = N \div (Q * d)
      <4>1. N \in Nat /\ Q > 0 /\ d > 0 /\ d \in Nat
        BY <1>4, <1>7, <2>4
      <4> QED BY <4>1, DividesTwice
    <3> QED BY ONLY <3>2, <3>3, <3>4, Zenon
  <2>7. (N \div Pow(q + s)) % 2 = (b(k) \div d) % 2
    BY <2>2, <2>6
  <2> QED BY <1>7, <2>4, <2>5, <2>7
<1>8. Pow(0) = 1 /\ Pow(Width) = R /\ Pow(Width + Width) = R * R
  BY <1>0, Powers, PowersMultiply DEF R
<1>9. Width * n - 1 - j = Width * (n - 1 - k) + s
  BY <1>0, <1>1, <1>2, <1>3
<1>10. b(0) \in Nat /\ b(0) < R /\ (n > 1 => b(1) \in Nat /\ b(1) < R) /\ (n = 3 => b(2) \in Nat /\ b(2) < R)
  BY <1>0, <1>6
<1>11. N = IF n = 1 THEN b(0) ELSE IF n = 2 THEN R * b(0) + b(1) ELSE R * (R * b(0) + b(1)) + b(2)
  BY <1>0 DEF BigEndian, b, R, Pow
<1> HIDE DEF N
<1>12. R * b(0) \in Nat /\ R * R \in Nat /\ (n > 1 => R * b(1) \in Nat /\ R * b(1) + R <= R * R)
  <2>1. \A y \in Nat : y < R => R * y \in Nat /\ R * y + R <= R * R
    <3> TAKE y \in Nat
    <3>1. R * y \in Nat /\ (y + 1) * R = y * R + 1 * R
      BY <1>4, Times
    <3>2. y + 1 <= R => (y + 1) * R <= R * R
      BY <1>4, Times
    <3> QED BY <1>4, <3>1, <3>2
  <2> QED BY <1>4, <1>10, <2>1
<1>13. CASE k = n - 1
  <2> DEFINE h == IF n = 1 THEN 0 ELSE IF n = 2 THEN b(0) ELSE R * b(0) + b(1)
  <2>1. h \in Nat
    BY <1>0, <1>10, <1>12
  <2>2. N = (h * R + b(k)) * 1 + 0
    BY <1>0, <1>4, <1>10, <1>11, <1>12, <1>13
  <2>3. Width * n - 1 - j = 0 + s
    BY <1>0, <1>3, <1>9, <1>13
  <2>4. 0 \in Nat /\ 1 \in Nat /\ 1 > 0 /\ 1 = Pow(0)
    BY <1>8
  <2> HIDE DEF h
  <2>5. N \in Nat /\ Width * n - 1 - j \in Nat
        /\ (N \div Pow(Width * n - 1 - j)) % 2 = (b(k) \div d) % 2
    BY ONLY <1>7, <2>1, <2>2, <2>3, <2>4, Zenon
  <2> QED BY <1>5, <2>5 DEF N
<1>14. CASE k = n - 2
  <2> DEFINE h == IF n = 2 THEN 0 ELSE b(0)
             t == IF n = 2 THEN b(1) ELSE b(2)
  <2>1. h \in Nat /\ t \in Nat /\ R > t
    BY <1>0, <1>1, <1>10, <1>14
  <2>2. N = (h * R + b(k)) * R + t
    BY <1>0, <1>1, <1>4, <1>10, <1>11, <1>12, <1>14
  <2>3. Width * n - 1 - j = Width + s
    BY <1>0, <1>3, <1>9, <1>14
  <2>4. R \in Nat /\ Width \in Nat /\ R = Pow(Width)
    BY <1>0, <1>4, <1>8
  <2> HIDE DEF h, t
  <2>5. N \in Nat /\ Width * n - 1 - j \in Nat
        /\ (N \div Pow(Width * n - 1 - j)) % 2 = (b(k) \div d) % 2
    BY ONLY <1>7, <2>1, <2>2, <2>3, <2>4, Zenon
  <2> QED BY <1>5, <2>5 DEF N
<1>15. CASE k = n - 3
  <2> DEFINE t == R * b(1) + b(2)
  <2>1. n = 3 /\ k = 0
    BY <1>0, <1>1, <1>15
  <2>2. t \in Nat /\ R * R > t
    BY <1>4, <1>10, <1>12, <2>1
  <2>3. N = (0 * R + b(k)) * (R * R) + t
    <3>1. R * (R * b(0) + b(1)) = (R * R) * b(0) + R * b(1)
      BY <1>4, <1>10, <2>1
    <3> QED BY <1>4, <1>10, <1>11, <1>12, <2>1, <3>1
  <2>4. Width * n - 1 - j = (Width + Width) + s
    BY <1>0, <1>3, <1>9, <1>15
  <2>5. 0 \in Nat /\ R * R \in Nat /\ Width + Width \in Nat /\ R * R = Pow(Width + Width)
    BY <1>0, <1>8, <1>12
  <2> HIDE DEF t
  <2>6. N \in Nat /\ Width * n - 1 - j \in Nat
        /\ (N \div Pow(Width * n - 1 - j)) % 2 = (b(k) \div d) % 2
    BY ONLY <1>7, <2>2, <2>3, <2>4, <2>5, Zenon
  <2> QED BY <1>5, <2>6 DEF N
<1> QED BY <1>0, <1>1, <1>2, <1>13, <1>14, <1>15

\* f accumulates n bits from off.
Collects(f, p, off, n) ==
  f = [m \in 0 .. n |-> IF m = 0 THEN 0 ELSE 2 * f[m - 1] + Bit(p, off + m - 1)]

\* What a recursive function computes: any function that satisfies its equation.
LEMMA OneCollects ==
  ASSUME NEW p, NEW off, NEW n \in Nat, NEW h, Collects(h, p, off, n)
  PROVE  \A m \in 0 .. n : Accumulated(p, off, n)[m] = h[m]
<1> DEFINE acc == Accumulated(p, off, n)
           T == {m \in 0 .. n : acc[m] # h[m]}
<1>1. Collects(acc, p, off, n)
  BY DEF Collects, Accumulated
<1> HIDE DEF acc
<1>2. \A m \in 0 .. n : /\ acc[m] = IF m = 0 THEN 0 ELSE 2 * acc[m - 1] + Bit(p, off + m - 1)
                        /\ h[m] = IF m = 0 THEN 0 ELSE 2 * h[m - 1] + Bit(p, off + m - 1)
  BY <1>1 DEF Collects
<1>3. T = {}
  <2> SUFFICES ASSUME T # {} PROVE FALSE
    OBVIOUS
  <2>1. PICK m \in T : \A k \in T : m <= k
    <3>1. T \subseteq Nat
      OBVIOUS
    <3> HIDE DEF T
    <3> QED BY <3>1, LeastOne
  <2>2. m # 0
    BY <1>2, <2>1
  <2>3. m - 1 \in 0 .. n /\ m - 1 \notin T
    BY <2>1, <2>2
  <2>4. acc[m - 1] = h[m - 1]
    BY <2>3
  <2>5. acc[m] = 2 * acc[m - 1] + Bit(p, off + m - 1) /\ h[m] = 2 * h[m - 1] + Bit(p, off + m - 1)
    BY <1>2, <2>1, <2>2
  <2> QED BY <2>1, <2>4, <2>5
<1> QED BY <1>3 DEF acc

\* The bits of a string of bytes, one by one, are their number, shifted and cut.
LEMMA BitsAddUp ==
  ASSUME NEW p, NEW at, NEW len, IsByteString(p, at, len),
         NEW o \in Nat, NEW n \in Nat, o + n <= Width * len
  PROVE  Accumulated(p, Width * at + o, n)[n]
           = (BigEndian(p, at, len) \div Pow(Width * len - o - n)) % Pow(n)
<1> DEFINE N == BigEndian(p, at, len)
           M == Width * len
           first(m) == N \div Pow(M - o - m)
           h == [m \in 0 .. n |-> first(m) % Pow(m)]
<1>0. M \in Nat /\ Width \in Nat /\ at \in Nat /\ Width * at \in Nat /\ (M > 0 => N \in Nat)
  <2>1. Width \in Nat /\ at \in Nat /\ len \in Nat
    BY DEF IsByteString
  <2>2. M \in Nat /\ Width * at \in Nat
    BY <2>1
  <2>3. ASSUME M > 0 PROVE N \in Nat
    <3>1. 0 \in 0 .. M - 1
      BY <2>2, <2>3
    <3> QED BY <3>1, DigitOfNumber
  <2> QED BY <2>1, <2>2, <2>3
<1>1. ASSUME NEW m \in 0 .. n
      PROVE  h[m] = IF m = 0 THEN 0 ELSE 2 * h[m - 1] + Bit(p, (Width * at + o) + m - 1)
  <2>1. CASE m = 0
    <3>1. M > 0
      <4>1. Width > 0 /\ len > 0 /\ Width \in Nat /\ len \in Nat
        BY DEF IsByteString
      <4> QED BY <4>1
    <3>2. first(0) \in Nat
      <4>1. M - o - 0 \in Nat
        BY <1>0
      <4>2. Pow(M - o - 0) \in Nat /\ Pow(M - o - 0) > 0
        BY <4>1, Powers, PowersMultiply
      <4> HIDE DEF N, M
      <4> QED BY <1>0, <3>1, <4>2, Divides
    <3>3. first(0) % 1 = 0
      <4> HIDE DEF first
      <4> QED BY <3>2
    <3>4. h[0] = first(0) % Pow(0)
      OBVIOUS
    <3> HIDE DEF first, h
    <3> QED BY <2>1, <3>3, <3>4, Powers
  <2>2. CASE m # 0
    <3> DEFINE x == first(m - 1)
               y == first(m)
               j == o + m - 1
               d == Pow(M - o - m)
    <3>1. /\ m - 1 \in Nat /\ m - 1 \in 0 .. n /\ j \in 0 .. M - 1 /\ M > 0 /\ M - o - m \in Nat
          /\ M - o - (m - 1) = (M - o - m) + 1 /\ M - 1 - j = M - o - m
      <4>1. o + n <= M
        OBVIOUS
      <4> HIDE DEF M
      <4> QED BY <1>0, <2>2, <4>1
    <3>2. d \in Nat /\ d > 0 /\ Pow(M - o - (m - 1)) = 2 * d
      BY <3>1, Powers, PowersMultiply
    <3>3. N \in Nat
      BY <1>0, <3>1
    <3>4. y % 2 = Bit(p, Width * at + j)
      <4>1. (N \div Pow(M - 1 - j)) % 2 = Bit(p, Width * at + j)
        BY <3>1, DigitOfNumber
      <4> QED BY <3>1, <4>1
    <3> HIDE DEF N, M, d
    <3>5. y \in Nat
      BY <3>2, <3>3, Divides DEF d
    <3>6. y \div 2 = x
      <4>1. (N \div d) \div 2 = N \div (d * 2)
        BY <3>2, <3>3, DividesTwice
      <4>2. d * 2 = 2 * d
        BY <3>2
      <4> QED BY <3>2, <4>1, <4>2 DEF d
    <3> DEFINE q == Pow(m - 1)
               b == Bit(p, Width * at + j)
    <3>7. Pow(m) = 2 * q /\ q \in Nat /\ q > 0
      <4>1. Pow((m - 1) + 1) = 2 * q /\ q \in Nat
        BY <3>1, Powers
      <4>2. (m - 1) + 1 = m
        OBVIOUS
      <4>3. q > 0
        BY <3>1, PowersMultiply
      <4> QED BY <4>1, <4>2, <4>3
    <3>8. h[m] = y % Pow(m) /\ h[m - 1] = x % q
      BY <3>1
    <3>9. (Width * at + o) + m - 1 = Width * at + j
      BY <1>0
    <3> HIDE DEF x, y, q, b, h, j
    <3>10. b \in {0, 1} /\ y = 2 * x + b
      BY <3>4, <3>5, <3>6, LastBit DEF b
    <3>11. x \in Nat
      BY <3>5, <3>6
    <3>12. (2 * x + b) % (2 * q) = 2 * (x % q) + b
      BY <3>7, <3>10, <3>11, OneMoreBit
    <3> QED BY <2>2, <3>7, <3>8, <3>9, <3>10, <3>12 DEF b
  <2> QED BY <2>1, <2>2
<1>2. Collects(h, p, Width * at + o, n)
  <2>1. h = [m \in 0 .. n |-> h[m]]
    OBVIOUS
  <2> HIDE DEF h
  <2> QED BY <1>1, <2>1 DEF Collects
<1>3. h[n] = first(n) % Pow(n)
  OBVIOUS
<1> HIDE DEF h
<1>4. Accumulated(p, Width * at + o, n)[n] = h[n]
  BY <1>2, OneCollects
<1> QED BY <1>3, <1>4

\* The bytes that n bits from off touch.
LEMMA BytesTouched ==
  ASSUME NEW w \in Nat, w > 0, NEW off \in Nat, NEW n \in 1 .. 2 * w
  PROVE  LET first == off \div w
             last  == (off + n - 1) \div w
         IN /\ first \in Nat /\ last \in Nat /\ last - first + 1 \in 1 .. 3
            /\ off % w \in Nat /\ off = w * first + (off % w)
            /\ (off % w) + n <= w * (last - first + 1)
            /\ w * (last - first + 1) - (off % w) - n = w * (last + 1) - off - n
            /\ (off + n + w - 1) \div w = last + 1
<1> DEFINE first == off \div w
           o == off % w
           x == off + n - 1
           last == x \div w
           r == x % w
<1>0. x \in Nat /\ n \in Nat /\ n >= 1 /\ n <= 2 * w
  OBVIOUS
<1>1. first \in Nat /\ o \in 0 .. w - 1 /\ off = first * w + o
  BY Divides
<1>2. last \in Nat /\ r \in 0 .. w - 1 /\ x = last * w + r
  <2> HIDE DEF x
  <2> QED BY <1>0, Divides
<1>3. (off + n + w - 1) \div w = last + 1
  <2>1. off + n + w - 1 = (last + 1) * w + r
    <3>1. (last + 1) * w = last * w + 1 * w /\ last * w \in Nat
      <4> HIDE DEF last
      <4> QED BY <1>2, Times
    <3> HIDE DEF last, r
    <3> QED BY <1>2, <3>1
  <2> HIDE DEF last, r
  <2> QED BY <1>2, <2>1, Quotient
<1>4. off + n = last * w + r + 1
  <2> HIDE DEF last, r
  <2> QED BY <1>0, <1>2
<1> HIDE DEF first, o, x, last, r
<1>5. first * w \in Nat /\ last * w \in Nat
  BY <1>1, <1>2, Times
<1>6. first <= last
  <2> SUFFICES ASSUME last + 1 <= first PROVE FALSE
    BY <1>1, <1>2
  <2>1. (last + 1) * w <= first * w /\ (last + 1) * w = last * w + 1 * w
    BY <1>1, <1>2, Times
  <2> QED BY <1>0, <1>1, <1>2, <1>4, <1>5, <2>1
<1>7. last <= first + 2
  <2> SUFFICES ASSUME first + 3 <= last PROVE FALSE
    BY <1>1, <1>2
  <2>1. (first + 3) * w <= last * w /\ (first + 3) * w = first * w + 3 * w
    BY <1>1, <1>2, Times
  <2> QED BY <1>0, <1>1, <1>2, <1>4, <1>5, <2>1
<1>8. w * (last - first + 1) = last * w - first * w + w /\ w * (last + 1) = last * w + w
      /\ w * first = first * w
  BY <1>1, <1>2
<1>9. o + n <= w * (last - first + 1)
      /\ w * (last - first + 1) - o - n = w * (last + 1) - off - n
  BY <1>0, <1>1, <1>2, <1>4, <1>5, <1>8
<1> QED BY <1>1, <1>2, <1>3, <1>5, <1>6, <1>7, <1>8, <1>9 DEF first, o, x, last

\* For every width of a byte, offset and reply: a bit field, accumulated bit by bit, is what
\* shifting and cutting the number in its bytes gives (extract_bits).
THEOREM BitsAreOfTheNumber == FieldDecodingSpec => []BitsOfTheNumber
<1>1. Validated => BitsOfTheNumber
  <2> SUFFICES ASSUME Validated, HasBits(field), Value # {},
                      NEW off \in field.bit_offset, NEW n \in field.bit_length
               PROVE  LET from == Width * Skip + off
                          first == from \div Width
                          last == (from + n - 1) \div Width
                          number == BigEndian(reply, first, last - first + 1) IN
                      Value = {(number \div 2 ^ (Width * (last + 1) - from - n)) % 2 ^ n}
    BY DEF BitsOfTheNumber
  <2> DEFINE from == Width * Skip + off
             first == from \div Width
             last == (from + n - 1) \div Width
             len == last - first + 1
             o == from % Width
  <2>1. field.bit_offset = {off} /\ field.bit_length = {n}
        /\ off \in BitOffsets /\ n \in BitLengths
    BY FieldParts, Optional DEF Validated, HasBits
  <2>2. off \in Nat /\ n \in 1 .. 2 * Width /\ Width \in Nat /\ Width > 0
    BY <2>1, FieldAssumption DEF Validated, check_field, LongestBits
  <2>3. from \in Nat /\ Value = extract_bits(reply, from, n)
    <3>1. \A x : UNION {UNION {x}} = x
      OBVIOUS
    <3>2. CASE source = "uds_pid"
      <4>1. from = off + Width * Header /\ from \in Nat
        BY <2>2, <3>2 DEF Skip, Header
      <4> HIDE DEF from
      <4> QED BY <2>1, <3>1, <3>2, <4>1 DEF Value, Decode, extract_value
    <3>3. CASE source = "broadcast"
      <4>1. from = off /\ from \in Nat
        BY <2>2, <3>3 DEF Skip
      <4> HIDE DEF from
      <4> QED BY <2>1, <3>1, <3>3, <4>1 DEF Value, Decode, extract_value_broadcast
    <3> QED BY <3>2, <3>3 DEF Validated
  <2>4. /\ first \in Nat /\ last \in Nat /\ len \in 1 .. 3
        /\ o \in Nat /\ from = Width * first + o /\ o + n <= Width * len
        /\ Width * len - o - n = Width * (last + 1) - from - n
        /\ (from + n + Width - 1) \div Width = last + 1
    <3> HIDE DEF from
    <3> QED BY <2>2, <2>3, BytesTouched
  <2>5. (from + n + Width - 1) \div Width <= Len(reply)
        /\ Value = {Accumulated(reply, from, n)[n]}
    BY <2>3 DEF extract_bits
  <2> HIDE DEF from, first, last, o
  <2>6. IsByteString(reply, first, len)
    <3>1. ASSUME NEW k \in 0 .. len - 1
          PROVE  ByteAt(reply, first + k) \in Nat /\ ByteAt(reply, first + k) < Pow(Width)
      <4>1. first + k + 1 \in 1 .. Len(reply) /\ Len(reply) \in Nat
        BY <2>4, <2>5 DEF Validated
      <4>2. reply[first + k + 1] \in Bytes
        BY <4>1 DEF Validated
      <4>3. Bytes \subseteq 0 .. Pow(Width) - 1
        BY FieldAssumption DEF Pow
      <4>4. Pow(Width) \in Nat
        BY <2>2, Powers
      <4>5. reply[first + k + 1] \in 0 .. Pow(Width) - 1
        BY <4>2, <4>3
      <4>6. ByteAt(reply, first + k) = reply[first + k + 1]
        BY DEF ByteAt
      <4> QED BY <4>4, <4>5, <4>6
    <3> QED BY <2>2, <2>4, <3>1 DEF IsByteString
  <2>7. Accumulated(reply, Width * first + o, n)[n]
          = (BigEndian(reply, first, len) \div Pow(Width * len - o - n)) % Pow(n)
    <3>1. n \in Nat
      BY <2>2
    <3> HIDE DEF len
    <3> QED BY <2>4, <2>6, <3>1, BitsAddUp
  <2>8. Value = {(BigEndian(reply, first, len) \div Pow(Width * (last + 1) - from - n)) % Pow(n)}
    BY <2>4, <2>5, <2>7
  <2> QED BY <2>8 DEF from, first, last, Pow
<1> QED BY <1>1, ValidatedAlways, PTL

-----------------------------------------------------------------------------
(* ReplyAssembly: no lost frame and no early end of the reading puts a wrong byte into an
   accepted reply. *)

-----------------------------------------------------------------------------
(* Lines *)

LEMMA LineFields ==
    ASSUME NEW x \in Printed
    PROVE  /\ x.kind \in {"searching", "length", "data"}
           /\ x.kind = "length" <=> x = Length
           /\ x.kind = "data" => x.frame \in 0 .. FrameCount - 1
BY DEF Printed, Searching, Length, Data

LEMMA DataFields ==
    ASSUME NEW k \in 0 .. FrameCount - 1
    PROVE  /\ Data(k) \in Printed /\ Data(k).kind = "data" /\ Data(k).frame = k
           /\ Data(k) # Length
BY DEF Printed, Length, Data

LEMMA LengthFields == Length \in Printed /\ Length.kind = "length" /\ Length.size = size
BY DEF Printed, Length

\* The bytes that a frame adds.
LEMMA FrameBytes ==
    ASSUME size \in Nat \ {0}, NEW k \in 0 .. FrameCount - 1
    PROVE  /\ FrameCount \in Nat
           /\ BytesOf(k) \in Seq(Nat) /\ Len(BytesOf(k)) = Last(k) - First(k) + 1
           /\ \A j \in 1 .. Len(BytesOf(k)) : BytesOf(k)[j] = First(k) + j - 1
           /\ Long /\ k = 0 => First(k) = 1 /\ Last(k) = 6
           /\ Long /\ k # 0 => First(k) = 7 * k /\ Last(k) = 7 * k + 6
           /\ ~Long => k = 0 /\ First(k) = 1 /\ Last(k) = size
<1>1. /\ FrameCount \in Nat
      /\ Long /\ k = 0 => First(k) = 1 /\ Last(k) = 6
      /\ Long /\ k # 0 => First(k) = 7 * k /\ Last(k) = 7 * k + 6
      /\ ~Long => k = 0 /\ First(k) = 1 /\ Last(k) = size
  BY DEF FrameCount, First, Last, Long
<1>2. First(k) \in Nat \ {0} /\ Last(k) - First(k) + 1 \in Nat
  BY <1>1 DEF FrameCount, Long
<1>3. BytesOf(k) = [j \in 1 .. Last(k) - First(k) + 1 |-> First(k) + j - 1]
  BY DEF BytesOf
<1>4. BytesOf(k) \in Seq(Nat) /\ Len(BytesOf(k)) = Last(k) - First(k) + 1
  <2> HIDE DEF First, Last
  <2>1. \A j \in 1 .. Last(k) - First(k) + 1 : First(k) + j - 1 \in Nat
    BY <1>2
  <2> QED BY <1>2, <1>3, <2>1
<1> QED BY <1>1, <1>3, <1>4

-----------------------------------------------------------------------------
(* The invariant *)

LEMMA InvInit == AssemblyInit => IInv
<1> SUFFICES ASSUME AssemblyInit PROVE IInv
  OBVIOUS
<1>1. lines = <<>> \/ lines = <<Searching>>
  BY DEF AssemblyInit
<1>2. Searching \in Printed /\ Searching # Length /\ Searching.kind # "data"
  BY DEF Searching, Length, Printed
<1>3. lines \in Seq(Printed) /\ Len(lines) \in 0 .. 1
      /\ \A k \in 1 .. Len(lines) : lines[k] = Searching
  <2> HIDE DEF Printed, Searching
  <2>1. CASE lines = <<>>
    BY <2>1
  <2>2. CASE lines = <<Searching>>
    BY <1>2, <2>2
  <2> QED BY <1>1, <2>1, <2>2
<1>4. size \in Nat \ {0} /\ FrameCount \in Nat
  BY AssemblyAssumption DEF AssemblyInit, FrameCount, Long
<1>5. TypeOK
  <2>1. frame \in 0 .. FrameCount /\ i \in 1 .. Len(lines) + 1
    BY <1>3, <1>4 DEF AssemblyInit
  <2>2. expected_len = {} /\ got_data = FALSE /\ payload = <<>> /\ pc = "read" /\ i = 1
    BY DEF AssemblyInit
  <2>3. payload \in Seq(Nat)
    BY <2>2
  <2> QED BY <1>3, <1>4, <2>1, <2>2, <2>3 DEF TypeOK
<1>6. InOrder /\ LengthFirst /\ NextInOrder
  BY <1>2, <1>3 DEF AssemblyInit, InOrder, LengthFirst, NextInOrder, IsData
<1>7. Uncut
  BY DEF AssemblyInit, Uncut
<1> QED BY <1>5, <1>6, <1>7 DEF IInv

LEMMA SameMessage ==
    ASSUME size' = size
    PROVE  Printed' = Printed /\ FrameCount' = FrameCount /\ (Long' <=> Long) /\ Length' = Length
BY DEF Printed, FrameCount, Long, Length, Data, Searching

\* Reading: what a line appended to the others changes.
LEMMA ReadStep ==
    ASSUME IInv, ReadLength \/ ReadFirst \/ ReadNext
    PROVE  IInv'
<1> DEFINE n == Len(lines)
<1>1. n \in Nat /\ frame \in Nat /\ FrameCount \in Nat \ {0}
  BY DEF IInv, TypeOK, FrameCount, Long
<1>2. LengthPrinted <=> \E j \in 1 .. n : lines[j] = Length
  BY DEF IInv, TypeOK, LengthPrinted
<1>3. PICK x \in Printed :
        /\ lines' = Append(lines, x)
        /\ \/ x = Length /\ Long /\ ~LengthPrinted /\ frame' = frame
           \/ /\ x = Data(frame) /\ x # Length /\ frame \in 0 .. FrameCount - 1 /\ frame' = frame + 1
              /\ Long => LengthPrinted
              /\ frame > 0 => \E j \in 1 .. n : lines[j] = Data(0)
  <2>1. CASE ReadLength
    BY <2>1, LengthFields DEF ReadLength, bus
  <2>2. CASE ReadFirst
    <3>1. 0 \in 0 .. FrameCount - 1
      BY <1>1
    <3> QED BY <2>2, <3>1, DataFields DEF ReadFirst
  <2>3. CASE ReadNext
    <3>1. frame \in 0 .. FrameCount - 1
      BY <1>1, <2>3 DEF ReadNext
    <3> QED BY <1>1, <2>3, <3>1, DataFields DEF ReadNext, IInv, LengthFirst, InOrder
  <2> QED BY <2>1, <2>2, <2>3
<1>4. /\ size' = size /\ pc = "read" /\ pc' = pc
      /\ UNCHANGED <<i, expected_len, got_data, payload>>
  BY DEF ReadLength, ReadFirst, ReadNext, ToAssembler, bus
<1>5. Printed' = Printed /\ FrameCount' = FrameCount /\ (Long' <=> Long) /\ Length' = Length
  BY <1>4, SameMessage
<1>6. /\ lines' \in Seq(Printed) /\ Len(lines') = n + 1 /\ lines'[n + 1] = x
      /\ \A k \in 1 .. n : lines'[k] = lines[k] /\ lines'[k] \in Printed
  <2> HIDE DEF Printed
  <2> QED BY <1>3 DEF IInv, TypeOK
<1>7. i = 1 /\ expected_len = {} /\ payload = <<>> /\ got_data = FALSE
  BY <1>4 DEF IInv, TypeOK
<1>8. x # Length => x = Data(frame) /\ x.frame = frame /\ x.kind = "data"
  BY <1>3, DataFields
<1>9. x = Length => x.kind # "data"
  BY LengthFields
<1> HIDE DEF Printed, Length, Data, Long, FrameCount
<1>10. TypeOK'
  <2>1. lines' \in Seq(Printed') /\ size' \in Nat \ {0} /\ i' \in 1 .. Len(lines') + 1
    BY <1>1, <1>4, <1>5, <1>6, <1>7 DEF IInv, TypeOK
  <2>2. frame' \in 0 .. FrameCount'
    BY <1>1, <1>3, <1>5 DEF IInv, TypeOK
  <2>3. expected_len' = {} /\ got_data' = FALSE /\ payload' = <<>> /\ pc' = "read" /\ i' = 1
    BY <1>4, <1>7
  <2>4. payload' \in Seq(Nat)
    BY <2>3
  <2> QED BY <2>1, <2>2, <2>3, <2>4 DEF TypeOK
<1>11. /\ \A k \in 1 .. n : IsData(k)' <=> IsData(k)
       /\ \A k \in 1 .. n + 1 : k \notin 1 .. n => k = n + 1
  BY <1>1, <1>6 DEF IsData
<1>12. InOrder'
  <2>1. CASE x = Length
    <3>1. frame' = frame /\ lines'[n + 1].kind # "data"
      BY <1>3, <1>6, <1>8, <1>9, <2>1
    <3> QED BY <1>1, <1>6, <1>11, <3>1 DEF InOrder, IInv, IsData
  <2>2. CASE x # Length
    <3> DEFINE Front == Data(0)
    <3>1. frame' = frame + 1 /\ lines'[n + 1] = Data(frame) /\ lines'[n + 1].frame = frame
      BY <1>3, <1>6, <1>8, <2>2
    <3>2. frame > 0 => \E j \in 1 .. n : lines'[j] = Front
      BY <1>3, <1>6, <1>8, <2>2
    <3>3. frame = 0 => lines'[n + 1] = Front
      BY <3>1
    <3>4. \A k \in 1 .. n : IsData(k) => lines[k].frame \in Nat
      BY <1>1, <1>6, LineFields DEF IsData
    <3> HIDE DEF Front
    <3>5. \A j, k \in 1 .. n + 1 : j < k /\ IsData(j)' /\ IsData(k)'
            => lines'[j].frame < lines'[k].frame
      BY <1>1, <1>6, <1>11, <3>1, <3>4 DEF InOrder, IInv, IsData
    <3>6. \A k \in 1 .. n + 1 : IsData(k)' => lines'[k].frame < frame'
      BY <1>1, <1>6, <1>11, <3>1, <3>4 DEF InOrder, IInv, IsData
    <3>7. \E j \in 1 .. n + 1 : lines'[j] = Front
      BY <1>1, <3>2, <3>3
    <3>8. \A k \in 1 .. n : lines[k].frame > 0 /\ IsData(k)
            => \E j \in 1 .. k - 1 : lines'[j] = Front
      BY <1>1, <1>6 DEF InOrder, IInv, Front
    <3>9. \A k \in 1 .. n + 1 : IsData(k)' /\ lines'[k].frame > 0
            => \E j \in 1 .. k - 1 : lines'[j] = Front
      BY <1>1, <1>6, <1>11, <3>1, <3>2, <3>8
    <3>10. Front' = Front
      BY DEF Front, Data
    <3> QED BY <1>6, <3>5, <3>6, <3>7, <3>9 DEF InOrder, Front
  <2> QED BY <2>1, <2>2
<1>13. LengthFirst'
  <2>1. LengthPrinted' <=> \E j \in 1 .. n + 1 : lines'[j] = Length
    BY <1>5, <1>6 DEF LengthPrinted
  <2>2. CASE x = Length
    <3>1. Long /\ ~LengthPrinted /\ lines'[n + 1] = Length /\ lines'[n + 1].kind # "data"
      BY <1>3, <1>6, <1>8, <1>9, <2>2
    <3> QED
      BY <1>1, <1>2, <1>4, <1>5, <1>6, <1>7, <1>11, <2>1, <3>1 DEF LengthFirst, IInv, IsData
  <2>3. CASE x # Length
    <3>1. lines'[n + 1] # Length /\ (Long => \E j \in 1 .. n : lines'[j] = Length)
      BY <1>2, <1>3, <1>6, <1>8, <2>3
    <3> QED
      BY <1>1, <1>2, <1>4, <1>5, <1>6, <1>7, <1>11, <2>1, <3>1 DEF LengthFirst, IInv, IsData
  <2> QED BY <2>2, <2>3
<1>14. NextInOrder'
  <2>1. Taken' = 0 /\ InPlace'
    BY <1>4, <1>7 DEF Taken, InPlace
  <2>2. \A k \in 1 .. n + 1 : lines'[k].kind = "data" => lines'[k].frame \in Nat
    BY <1>1, <1>6, <1>11, LineFields
  <2> QED BY <1>1, <1>4, <1>6, <1>7, <2>1, <2>2 DEF NextInOrder, IsData
<1>15. Uncut'
  BY <1>4, <1>7 DEF Uncut
<1> QED BY <1>10, <1>12, <1>13, <1>14, <1>15 DEF IInv

\* Reading on without a line.
LEMMA LostStep ==
    ASSUME IInv, FrameLost \/ StopReading
    PROVE  IInv'
<1>1. /\ size' = size /\ lines' = lines /\ frame' \in frame .. FrameCount
      /\ pc' \in {"read", "assemble"} /\ (pc' = "read" => pc = "read")
      /\ frame' > 0 => frame > 0
      /\ UNCHANGED <<i, expected_len, got_data, payload>>
  BY DEF FrameLost, StopReading, ToAssembler, bus, IInv, TypeOK, FrameCount, Long
<1>2. Printed' = Printed /\ FrameCount' = FrameCount /\ (Long' <=> Long) /\ Length' = Length
  BY <1>1, SameMessage
<1>3. \A k : IsData(k)' <=> IsData(k)
  BY <1>1 DEF IsData
<1>4. Data(0)' = Data(0)
  BY DEF Data
<1> HIDE DEF Printed, Length, Data, Long, FrameCount
<1>5. TypeOK'
  BY <1>1, <1>2 DEF IInv, TypeOK
<1>6. InOrder'
  <2>1. \A k \in 1 .. Len(lines) : IsData(k) => lines[k].frame \in Nat
    <3>1. \A k \in 1 .. Len(lines) : lines[k] \in Printed
      BY DEF IInv, TypeOK
    <3> QED BY <3>1, LineFields DEF IsData
  <2>2. frame \in Nat /\ frame' \in Nat /\ frame <= frame'
    BY <1>1 DEF IInv, TypeOK, FrameCount
  <2> QED BY <1>1, <1>3, <1>4, <2>1, <2>2 DEF IInv, InOrder
<1>7. LengthFirst'
  BY <1>1, <1>2, <1>3 DEF IInv, LengthFirst, LengthPrinted, TypeOK
<1>8. NextInOrder' /\ (Uncut' <=> Uncut) /\ (Whole' <=> Whole)
  BY <1>1, <1>2, <1>3 DEF IInv, NextInOrder, Uncut, Whole, InPlace, Taken
<1> QED BY <1>1, <1>5, <1>6, <1>7, <1>8 DEF IInv
-----------------------------------------------------------------------------
(* Assembling *)

\* What no step of the assembling changes.
LEMMA Kept ==
    ASSUME IInv, UNCHANGED <<bus, lines>>
    PROVE  /\ size' = size /\ lines' = lines /\ frame' = frame
           /\ Printed' = Printed /\ FrameCount' = FrameCount /\ (Long' <=> Long) /\ Length' = Length
           /\ InOrder' /\ (\A k : IsData(k)' <=> IsData(k))
<1>1. size' = size /\ lines' = lines /\ frame' = frame
  BY DEF bus
<1>2. Printed' = Printed /\ FrameCount' = FrameCount /\ (Long' <=> Long) /\ Length' = Length
  BY <1>1, SameMessage
<1>3. InOrder'
  BY <1>1 DEF IInv, InOrder, IsData, Data
<1> QED BY <1>1, <1>2, <1>3 DEF IsData

LEMMA SkipStep ==
    ASSUME IInv, TakeSearching
    PROVE  IInv'
<1>1. /\ i <= Len(lines) /\ lines[i].kind = "searching" /\ pc = "assemble" /\ i' = i + 1
      /\ UNCHANGED <<bus, lines>> /\ UNCHANGED <<pc, expected_len, got_data, payload>>
  BY DEF TakeSearching, Here
<1> HIDE DEF Printed, Length, Long, FrameCount
<1>2. /\ size' = size /\ lines' = lines /\ frame' = frame
      /\ Printed' = Printed /\ FrameCount' = FrameCount /\ (Long' <=> Long) /\ Length' = Length
      /\ InOrder' /\ (\A k : IsData(k)' <=> IsData(k))
  BY <1>1, Kept
<1>3. Len(lines) \in Nat /\ i \in 1 .. Len(lines)
  BY <1>1 DEF IInv, TypeOK
<1>4. lines[i] # Length /\ ~IsData(i)
  BY <1>1, LengthFields DEF IsData
<1>5. TypeOK'
  BY <1>1, <1>2, <1>3 DEF IInv, TypeOK
<1>6. LengthFirst'
  BY <1>1, <1>2, <1>3, <1>4 DEF IInv, LengthFirst, LengthPrinted
<1>7. NextInOrder'
  BY <1>1, <1>2, <1>3, <1>4 DEF IInv, NextInOrder, InPlace, Taken
<1>8. Uncut'
  BY <1>1, <1>2, <1>3 DEF IInv, Uncut, Whole, InPlace, Taken
<1> QED BY <1>2, <1>5, <1>6, <1>7, <1>8 DEF IInv

LEMMA LengthStep ==
    ASSUME IInv, TakeLength
    PROVE  IInv'
<1>1. /\ i <= Len(lines) /\ lines[i].kind = "length" /\ pc = "assemble" /\ i' = i + 1
      /\ got_data = FALSE /\ expected_len' = {lines[i].size}
      /\ UNCHANGED <<bus, lines>> /\ UNCHANGED <<pc, got_data, payload>>
  BY DEF TakeLength, Here, IInv, TypeOK
<1> HIDE DEF Printed, Length, Long, FrameCount
<1>2. /\ size' = size /\ lines' = lines /\ frame' = frame
      /\ Printed' = Printed /\ FrameCount' = FrameCount /\ (Long' <=> Long) /\ Length' = Length
      /\ InOrder' /\ (\A k : IsData(k)' <=> IsData(k))
  BY <1>1, Kept
<1>3. Len(lines) \in Nat /\ i \in 1 .. Len(lines) /\ lines[i] \in Printed
  BY <1>1 DEF IInv, TypeOK
<1>4. lines[i] = Length /\ ~IsData(i) /\ expected_len' = {size}
  BY <1>1, <1>3, LineFields, LengthFields DEF IsData
<1>5. TypeOK'
  <2>1. i' \in 1 .. Len(lines') + 1 /\ pc' # "read"
    BY <1>1, <1>2, <1>3
  <2>2. expected_len' \in {{}, {size'}}
    BY <1>2, <1>4
  <2>3. got_data' = got_data /\ payload' = payload /\ pc' = pc
    BY <1>1
  <2> QED BY <1>2, <2>1, <2>2, <2>3 DEF IInv, TypeOK
<1>6. LengthFirst'
  BY <1>1, <1>2, <1>3, <1>4 DEF IInv, LengthFirst, LengthPrinted
<1>7. NextInOrder'
  BY <1>1, <1>2, <1>3, <1>4 DEF IInv, NextInOrder, InPlace, Taken
<1>8. Uncut'
  <2>1. payload = <<>> /\ size \in Nat \ {0} /\ Long
    BY <1>1, <1>3, <1>4 DEF IInv, TypeOK, LengthFirst
  <2> QED BY <1>1, <1>2, <1>4, <2>1 DEF Uncut
<1> QED BY <1>2, <1>5, <1>6, <1>7, <1>8 DEF IInv

LEMMA JudgeStep ==
    ASSUME IInv, Judge
    PROVE  IInv'
<1>1. /\ pc = "assemble" /\ pc' \in {"accepted", "rejected"}
      /\ UNCHANGED <<bus, lines>> /\ UNCHANGED <<i, expected_len, got_data, payload>>
  BY DEF Judge
<1> HIDE DEF Printed, Length, Long, FrameCount
<1>2. /\ size' = size /\ lines' = lines /\ frame' = frame
      /\ Printed' = Printed /\ FrameCount' = FrameCount /\ (Long' <=> Long) /\ Length' = Length
      /\ InOrder' /\ (\A k : IsData(k)' <=> IsData(k))
  BY <1>1, Kept
<1>3. TypeOK'
  BY <1>1, <1>2 DEF IInv, TypeOK
<1>4. LengthFirst'
  BY <1>1, <1>2 DEF IInv, LengthFirst, LengthPrinted
<1>5. NextInOrder' /\ (Uncut' <=> Uncut) /\ (Whole' <=> Whole)
  BY <1>1, <1>2 DEF IInv, NextInOrder, Uncut, Whole, InPlace, Taken
<1> QED BY <1>1, <1>2, <1>3, <1>4, <1>5 DEF IInv

LEMMA Concatenated ==
    ASSUME NEW s \in Seq(Nat), NEW t \in Seq(Nat)
    PROVE  /\ s \o t \in Seq(Nat) /\ Len(s \o t) = Len(s) + Len(t)
           /\ \A j \in 1 .. Len(s) : (s \o t)[j] = s[j]
           /\ \A j \in Len(s) + 1 .. Len(s) + Len(t) : (s \o t)[j] = t[j - Len(s)]
OBVIOUS

LEMMA Prefix ==
    ASSUME NEW s \in Seq(Nat), NEW n \in 1 .. Len(s)
    PROVE  /\ SubSeq(s, 1, n) \in Seq(Nat) /\ Len(SubSeq(s, 1, n)) = n
           /\ \A j \in 1 .. n : SubSeq(s, 1, n)[j] = s[j]
OBVIOUS

\* The payload so far with the bytes of the frame behind it.
LEMMA Longer ==
    ASSUME IInv, pc = "assemble", i <= Len(lines), IsData(i), i \in 1 .. Len(lines),
           NEW f, f = lines[i].frame, NEW all, all = payload \o BytesOf(f)
    PROVE  /\ all \in Seq(Nat) /\ f \in 0 .. FrameCount - 1 /\ f >= Taken /\ all # <<>>
           /\ Long => /\ expected_len = {size} /\ Len(payload) < size
                      /\ Len(all) = 7 * Taken + 6
           /\ ~Long => expected_len = {} /\ f = 0 /\ payload = <<>> /\ Len(all) = size
           /\ f = Taken => \A j \in 1 .. Len(all) : all[j] = j
<1>1. /\ size \in Nat \ {0} /\ Len(payload) \in Nat /\ payload \in Seq(Nat)
      /\ lines[i] \in Printed /\ Len(lines) \in Nat /\ Uncut
      /\ got_data \in BOOLEAN /\ (got_data <=> payload # <<>>)
      /\ expected_len \in {{}, {size}}
  BY DEF IInv, TypeOK
<1>2. f \in 0 .. FrameCount - 1 /\ FrameCount \in Nat
  <2>1. FrameCount \in Nat
    BY <1>1 DEF FrameCount, Long
  <2> QED BY <1>1, <2>1, LineFields DEF IsData
<1> DEFINE B == BytesOf(f)
<1>3. /\ B \in Seq(Nat) /\ Len(B) = Last(f) - First(f) + 1
      /\ \A j \in 1 .. Len(B) : B[j] = First(f) + j - 1
      /\ Long /\ f = 0 => First(f) = 1 /\ Last(f) = 6
      /\ Long /\ f # 0 => First(f) = 7 * f /\ Last(f) = 7 * f + 6
      /\ ~Long => f = 0 /\ First(f) = 1 /\ Last(f) = size
  BY <1>1, <1>2, FrameBytes
<1>4. f >= Taken /\ (f = Taken => InPlace)
  BY <1>1 DEF IInv, NextInOrder
<1>5. Taken \in Nat /\ (payload = <<>> <=> Taken = 0) /\ (payload = <<>> <=> Len(payload) = 0)
  BY <1>1 DEF Taken
<1> HIDE DEF B, First, Last, BytesOf, Taken
<1>6. /\ all \in Seq(Nat) /\ Len(all) = Len(payload) + Len(B)
      /\ \A j \in 1 .. Len(payload) : all[j] = payload[j]
      /\ \A j \in Len(payload) + 1 .. Len(payload) + Len(B) : all[j] = B[j - Len(payload)]
  BY <1>1, <1>3, Concatenated DEF B
<1>7. f > 0 => got_data
  <2>1. f > 0 => \E j \in 1 .. i - 1 : lines[j] = Data(0)
    BY DEF IInv, InOrder
  <2>2. \A j \in 1 .. i - 1 : lines[j] = Data(0) => IsData(j)
    BY DEF IsData, Data
  <2> QED BY <2>1, <2>2 DEF IInv, NextInOrder
<1>8. CASE Long
  <2>1. expected_len = {size} /\ Len(payload) < size
    <3>1. expected_len # {}
      BY <1>8 DEF IInv, LengthFirst
    <3> QED BY <1>1, <3>1 DEF Uncut
  <2>2. Len(payload) = IF payload = <<>> THEN 0 ELSE 7 * Taken - 1
    BY <1>1, <1>8 DEF Uncut
  <2>3. f = 0 => payload = <<>>
    BY <1>2, <1>4, <1>5
  <2>4. f > 0 => payload # <<>>
    BY <1>1, <1>7
  <2>5. Len(B) = IF f = 0 THEN 6 ELSE 7
    BY <1>2, <1>3, <1>8
  <2>6. Len(all) = 7 * Taken + 6
    BY <1>2, <1>5, <1>6, <2>2, <2>3, <2>4, <2>5
  <2>7. ASSUME f = Taken PROVE \A j \in 1 .. Len(all) : all[j] = j
    <3>1. \A j \in 1 .. Len(payload) : all[j] = j
      BY <1>4, <1>6, <2>7 DEF InPlace
    <3>2. Len(payload) + 1 = First(f)
      BY <1>2, <1>3, <1>5, <1>8, <2>2, <2>3, <2>4, <2>7
    <3>3. \A j \in Len(payload) + 1 .. Len(payload) + Len(B) : all[j] = j
      <4> TAKE j \in Len(payload) + 1 .. Len(payload) + Len(B)
      <4>1. j - Len(payload) \in 1 .. Len(B) /\ j \in Int
        BY <1>1, <1>3
      <4>2. B[j - Len(payload)] = First(f) + (j - Len(payload)) - 1
        BY <1>3, <4>1
      <4>3. all[j] = B[j - Len(payload)]
        BY <1>6
      <4>4. First(f) + (j - Len(payload)) - 1 = j
        <5>1. Len(payload) \in Int
          BY <1>1
        <5> QED BY <3>2, <4>1, <5>1
      <4> QED BY <4>2, <4>3, <4>4
    <3> QED BY <1>1, <1>3, <1>6, <3>1, <3>3
  <2>8. all # <<>>
    BY <1>5, <2>6
  <2> QED BY <1>2, <1>4, <1>6, <1>8, <2>1, <2>6, <2>7, <2>8
<1>9. CASE ~Long
  <2>1. expected_len = {}
    BY <1>1, <1>9 DEF IInv, LengthFirst
  <2>2. f = 0 /\ payload = <<>> /\ Len(payload) = 0 /\ Len(B) = size
    BY <1>1, <1>3, <1>4, <1>5, <1>9
  <2>3. \A j \in 1 .. Len(all) : all[j] = j
    BY <1>1, <1>3, <1>6, <1>9, <2>2
  <2> QED BY <1>1, <1>2, <1>4, <1>6, <1>9, <2>1, <2>2, <2>3
<1> QED BY <1>8, <1>9

LEMMA DataStep ==
    ASSUME IInv, TakeData
    PROVE  IInv'
<1> DEFINE f == lines[i].frame
           all == payload \o BytesOf(f)
<1>1. /\ i <= Len(lines) /\ IsData(i) /\ pc = "assemble" /\ got_data' = TRUE
      /\ UNCHANGED <<bus, lines>> /\ pc' = pc /\ expected_len' = expected_len
  BY DEF TakeData, Here, IsData
<1>2. \/ (\A n \in expected_len : Len(all) < n) /\ payload' = all /\ i' = i + 1
      \/ \E n \in expected_len :
           Len(all) >= n /\ payload' = SubSeq(all, 1, n) /\ i' = Len(lines) + 1
  BY DEF TakeData
<1>3. Len(lines) \in Nat /\ i \in 1 .. Len(lines) /\ size \in Nat \ {0} /\ FrameCount \in Nat
      /\ Len(payload) \in Nat
  BY <1>1 DEF IInv, TypeOK, FrameCount, Long
<1>4. /\ all \in Seq(Nat) /\ f \in 0 .. FrameCount - 1 /\ f >= Taken /\ all # <<>>
      /\ Long => /\ expected_len = {size} /\ Len(payload) < size
                 /\ Len(all) = 7 * Taken + 6
      /\ ~Long => expected_len = {} /\ f = 0 /\ payload = <<>> /\ Len(all) = size
      /\ f = Taken => \A j \in 1 .. Len(all) : all[j] = j
  BY <1>1, <1>3, Longer
<1>5. Taken \in Nat /\ FrameCount = IF Long THEN size \div 7 + 1 ELSE 1
  BY <1>3 DEF Taken, FrameCount
<1>6. \A k \in i + 1 .. Len(lines) : IsData(k) =>
        lines[k].frame \in 0 .. FrameCount - 1 /\ lines[k].frame > f
  <2>1. \A k \in 1 .. Len(lines) : lines[k] \in Printed
    BY DEF IInv, TypeOK
  <2> QED BY <1>1, <1>3, <2>1, LineFields DEF IInv, InOrder, IsData
<1> HIDE DEF all, f, Printed, Length, Long, FrameCount, Taken
<1>7. /\ size' = size /\ lines' = lines /\ frame' = frame
      /\ Printed' = Printed /\ FrameCount' = FrameCount /\ (Long' <=> Long) /\ Length' = Length
      /\ InOrder' /\ (\A k : IsData(k)' <=> IsData(k))
  BY <1>1, Kept
<1>8. CASE (\A n \in expected_len : Len(all) < n) /\ payload' = all /\ i' = i + 1
  <2>1. Taken' = IF Long THEN Taken + 1 ELSE (size + 6) \div 7
    <3>1. Taken' = (Len(all) + 6) \div 7
      BY <1>8 DEF Taken
    <3> QED BY <1>3, <1>4, <1>5, <3>1
  <2>2. f = Taken => InPlace'
    BY <1>4, <1>8 DEF InPlace
  <2>3. TypeOK'
    <3>1. i' \in 1 .. Len(lines') + 1 /\ pc' # "read" /\ payload' # <<>>
          /\ payload' \in Seq(Nat)
      BY <1>1, <1>3, <1>4, <1>7, <1>8
    <3> QED BY <1>1, <1>7, <3>1 DEF IInv, TypeOK
  <2>4. LengthFirst'
    <3>1. lines[i] # Length
      BY <1>1, LengthFields DEF IsData
    <3> QED BY <1>1, <1>3, <1>7, <1>8, <3>1 DEF IInv, LengthFirst, LengthPrinted
  <2>5. NextInOrder'
    <3>1. \A k \in i + 1 .. Len(lines) : IsData(k) =>
            lines[k].frame >= Taken' /\ (lines[k].frame = Taken' => InPlace')
      <4>1. CASE Long
        <5>1. f \in Nat /\ f >= Taken
          BY <1>3, <1>4
        <5>2. Taken' = Taken + 1 /\ (f = Taken => InPlace')
          BY <2>1, <2>2, <4>1
        <5>3. ASSUME NEW k \in i + 1 .. Len(lines), IsData(k)
              PROVE  lines[k].frame >= Taken' /\ (lines[k].frame = Taken' => InPlace')
          <6>1. lines[k].frame \in Nat /\ lines[k].frame > f
            BY ONLY <1>3, <1>6, <5>3
          <6> QED BY ONLY <1>5, <5>1, <5>2, <6>1
        <5> QED BY ONLY <5>3
      <4>2. CASE ~Long
        BY <1>3, <1>4, <1>5, <1>6, <4>2
      <4> QED BY <4>1, <4>2
    <3> QED BY <1>1, <1>7, <1>8, <3>1 DEF NextInOrder
  <2>6. Uncut'
    <3>1. CASE Long
      <4>1. Len(payload') < size /\ expected_len' # {}
        BY <1>1, <1>4, <1>8, <3>1
      <4>2. Len(payload') = 7 * Taken' - 1
        BY <1>4, <1>5, <1>8, <2>1, <3>1
      <4> QED BY <1>1, <1>7, <3>1, <4>1, <4>2 DEF Uncut
    <3>2. CASE ~Long
      <4>1. Len(payload') = size /\ Taken = 0
        BY <1>4, <1>5, <1>8, <3>2
      <4>2. InPlace'
        BY <1>4, <2>2, <3>2, <4>1
      <4> QED BY <1>1, <1>4, <1>7, <3>2, <4>1, <4>2 DEF Uncut, Whole
    <3> QED BY <3>1, <3>2
  <2> QED BY <1>7, <2>3, <2>4, <2>5, <2>6 DEF IInv
<1>9. CASE \E n \in expected_len :
             Len(all) >= n /\ payload' = SubSeq(all, 1, n) /\ i' = Len(lines) + 1
  <2>1. Long /\ size <= Len(all) /\ payload' = SubSeq(all, 1, size) /\ i' = Len(lines) + 1
        /\ expected_len = {size}
    BY <1>4, <1>9
  <2>2. f = Taken
    BY <1>3, <1>4, <1>5, <2>1
  <2>3. /\ payload' \in Seq(Nat) /\ Len(payload') = size
        /\ \A j \in 1 .. size : payload'[j] = j
    <3>1. size \in 1 .. Len(all)
      BY <1>3, <1>4, <2>1
    <3> QED BY <1>4, <2>1, <2>2, <3>1, Prefix
  <2>4. Whole'
    BY <1>7, <2>3 DEF Whole, InPlace
  <2>5. TypeOK'
    <3>1. i' \in 1 .. Len(lines') + 1 /\ pc' # "read" /\ payload' # <<>>
      BY <1>1, <1>3, <1>7, <2>1, <2>3
    <3> QED BY <1>1, <1>7, <2>3, <3>1 DEF IInv, TypeOK
  <2>6. LengthFirst'
    <3>1. \E j \in 1 .. i - 1 : lines[j] = Length
      BY <2>1 DEF IInv, LengthFirst
    <3>2. \E j \in 1 .. Len(lines) : lines[j] = Length
      BY <1>3, <3>1
    <3> QED BY <1>1, <1>3, <1>7, <2>1, <3>2 DEF IInv, LengthFirst, LengthPrinted
  <2>7. NextInOrder'
    BY <1>1, <1>3, <1>7, <2>1 DEF NextInOrder
  <2> QED BY <1>7, <2>1, <2>4, <2>5, <2>6, <2>7 DEF IInv
<1> QED BY <1>2, <1>8, <1>9

-----------------------------------------------------------------------------
(* The theorems *)

LEMMA InvStep == IInv /\ [AssemblyNext]_assemblyVars => IInv'
<1> SUFFICES ASSUME IInv, [AssemblyNext]_assemblyVars PROVE IInv'
  OBVIOUS
<1>1. CASE ReadLength \/ ReadFirst \/ ReadNext
  BY <1>1, ReadStep
<1>2. CASE FrameLost \/ StopReading
  BY <1>2, LostStep
<1>3. CASE Assemble
  BY <1>3, SkipStep, LengthStep, DataStep, JudgeStep DEF Assemble
<1>4. CASE UNCHANGED assemblyVars
  <2> USE <1>4 DEF assemblyVars, bus
  <2>1. TypeOK'
    BY DEF IInv, TypeOK, Printed, Searching, Length, Data, FrameCount, Long
  <2>2. InOrder' /\ LengthFirst' /\ NextInOrder'
    BY DEF IInv, InOrder, LengthFirst, NextInOrder, LengthPrinted, IsData, Length, Data, Long,
           InPlace, Taken
  <2>3. (Uncut' <=> Uncut) /\ (Whole' <=> Whole)
    BY DEF Uncut, Whole, InPlace, Taken, Long
  <2> QED BY <2>1, <2>2, <2>3 DEF IInv
<1> QED BY <1>1, <1>2, <1>3, <1>4 DEF AssemblyNext

\* A line of a reply is where the chip printed it, and what is assembled of the lines so far
\* is the start of the message or can no longer become as long as it (assemble_iso_tp).
THEOREM Invariant == ReplyAssemblySpec => []IInv
<1> QED BY InvInit, InvStep, PTL DEF ReplyAssemblySpec

\* An accepted reply is the message that the ECU sent, for every length of it (assemble_iso_tp).
THEOREM AcceptedIsWhole == ReplyAssemblySpec => []WholeOrNothing
<1>1. AssemblyInit => WholeOrNothing
  BY DEF AssemblyInit, WholeOrNothing
<1>2. IInv /\ WholeOrNothing /\ [AssemblyNext]_assemblyVars => WholeOrNothing'
  <2> SUFFICES ASSUME IInv, WholeOrNothing, [AssemblyNext]_assemblyVars, pc' = "accepted"
               PROVE  payload' = Message'
    BY DEF WholeOrNothing
  <2>1. CASE Judge
    <3>1. /\ i > Len(lines) /\ got_data /\ \A n \in expected_len : Len(payload) >= n
          /\ payload' = payload /\ size' = size
      BY <2>1 DEF Judge, bus
    <3>2. expected_len \in {{}, {size}} /\ payload \in Seq(Nat) /\ size \in Nat \ {0}
          /\ payload # <<>>
      BY <3>1 DEF IInv, TypeOK
    <3>3. Whole
      <4> SUFFICES ASSUME Uncut PROVE Whole
        BY DEF IInv
      <4>1. ~Long
        BY <3>1, <3>2 DEF Uncut
      <4> QED BY <3>2, <4>1 DEF Uncut
    <3>4. payload = Message
      BY <3>2, <3>3 DEF Whole, InPlace, Message
    <3> QED BY <3>1, <3>4 DEF Message
  <2>2. CASE UNCHANGED assemblyVars
    BY <2>2 DEF assemblyVars, bus, WholeOrNothing, Message
  <2> QED BY <2>1, <2>2 DEF AssemblyNext, ReadLength, ReadFirst, ReadNext, FrameLost, StopReading,
             Assemble, TakeSearching, TakeLength, TakeData, Here
<1> QED BY <1>1, <1>2, Invariant, PTL DEF ReplyAssemblySpec

-----------------------------------------------------------------------------
(* The same reply, polled as a single frame *)

\* f adds up the first n lines.
Adds(f, ls, n) ==
    f = [k \in 0 .. n |-> IF k = 0 THEN <<>> ELSE f[k - 1] \o LineBytes(ls, k)]

LEMMA OneMoreAdds ==
    ASSUME NEW ls, NEW n \in Nat, n # 0, NEW g, Adds(g, ls, n - 1)
    PROVE  \E f : Adds(f, ls, n)
<1> DEFINE h == [k \in 0 .. n |-> IF k = n THEN g[n - 1] \o LineBytes(ls, n) ELSE g[k]]
<1>1. ASSUME NEW k \in 0 .. n
      PROVE  h[k] = IF k = 0 THEN <<>> ELSE h[k - 1] \o LineBytes(ls, k)
  <2>1. n - 1 \in 0 .. n /\ n - 1 # n
    OBVIOUS
  <2>2. CASE k = n
    <3>1. h[n] = g[n - 1] \o LineBytes(ls, n) /\ h[n - 1] = g[n - 1]
      BY <2>1
    <3> QED BY <2>2, <3>1
  <2>3. CASE k # n
    <3>1. k \in 0 .. n - 1 /\ (k # 0 => k - 1 \in 0 .. n - 1 /\ k - 1 # n)
      BY <2>3
    <3>2. g[k] = IF k = 0 THEN <<>> ELSE g[k - 1] \o LineBytes(ls, k)
      BY <3>1 DEF Adds
    <3>3. h[k] = g[k] /\ (k # 0 => h[k - 1] = g[k - 1])
      BY <2>3, <3>1
    <3> QED BY <3>2, <3>3
  <2> QED BY <2>2, <2>3
<1>2. h = [k \in 0 .. n |-> h[k]]
  OBVIOUS
<1> HIDE DEF h
<1>3. Adds(h, ls, n)
  BY <1>1, <1>2 DEF Adds
<1> QED BY <1>3

\* There is such a function, however many lines there are.
LEMMA LinesAddUp ==
    ASSUME NEW ls, Len(ls) \in Nat
    PROVE  /\ UpTo(ls)[0] = <<>>
           /\ \A k \in 1 .. Len(ls) : UpTo(ls)[k] = UpTo(ls)[k - 1] \o LineBytes(ls, k)
<1> DEFINE T == {n \in Nat : ~\E f : Adds(f, ls, n)}
<1>1. T = {}
  <2> SUFFICES ASSUME T # {} PROVE FALSE
    OBVIOUS
  <2>1. PICK n \in T : \A m \in T : n <= m
    BY LeastOne
  <2>2. n # 0
    <3>1. Adds([k \in 0 .. 0 |-> <<>>], ls, 0)
      BY DEF Adds
    <3> QED BY <2>1, <3>1
  <2>3. n \in Nat /\ n - 1 \in Nat /\ n - 1 \notin T
    BY <2>1, <2>2
  <2>4. PICK f : Adds(f, ls, n - 1)
    BY <2>3
  <2> QED BY <2>1, <2>2, <2>3, <2>4, OneMoreAdds
<1>2. \E f : Adds(f, ls, Len(ls))
  BY <1>1
<1>3. UpTo(ls) = CHOOSE f : Adds(f, ls, Len(ls))
  BY DEF UpTo, Adds
<1>4. Adds(UpTo(ls), ls, Len(ls))
  BY <1>2, <1>3
<1>5. ASSUME NEW k \in 0 .. Len(ls)
      PROVE  UpTo(ls)[k] = IF k = 0 THEN <<>> ELSE UpTo(ls)[k - 1] \o LineBytes(ls, k)
  BY <1>4 DEF Adds
<1>6. UpTo(ls)[0] = <<>>
  <2>1. 0 \in 0 .. Len(ls)
    OBVIOUS
  <2> QED BY <1>5, <2>1
<1>7. ASSUME NEW k \in 1 .. Len(ls) PROVE UpTo(ls)[k] = UpTo(ls)[k - 1] \o LineBytes(ls, k)
  <2>1. k \in 0 .. Len(ls) /\ k # 0
    OBVIOUS
  <2> QED BY <1>5, <2>1
<1> QED BY <1>6, <1>7

\* get_payload reads the data of the lines and nothing else.
LEMMA LineReads ==
    ASSUME IInv, size > 1, NEW k \in 1 .. Len(lines)
    PROVE  LineBytes(lines, k) = IF IsData(k) THEN BytesOf(lines[k].frame) ELSE <<>>
<1>1. lines[k] \in Printed /\ size \in Nat \ {0} /\ Len(lines) \in Nat
  BY DEF IInv, TypeOK
<1>2. lines[k].kind \in {"searching", "length", "data"} /\ (lines[k].kind = "length" => lines[k] = Length)
  BY <1>1, LineFields
<1>3. CASE lines[k].kind = "data"
  <2>1. lines[k].frame \in 0 .. FrameCount - 1
    BY <1>1, <1>3, LineFields
  <2>2. Len(BytesOf(lines[k].frame)) # 1
    <3> PICK f \in 0 .. FrameCount - 1 : f = lines[k].frame
      BY <2>1
    <3>1. Len(BytesOf(f)) = Last(f) - First(f) + 1
      BY <1>1, FrameBytes
    <3>2. CASE Long
      <4>1. f \in Nat /\ (f = 0 => First(f) = 1 /\ Last(f) = 6)
            /\ (f # 0 => First(f) = 7 * f /\ Last(f) = 7 * f + 6)
        BY <1>1, <3>2, FrameBytes
      <4> QED BY <3>1, <4>1
    <3>3. CASE ~Long
      <4>1. First(f) = 1 /\ Last(f) = size
        BY <1>1, <3>3, FrameBytes
      <4> QED BY <1>1, <3>1, <4>1
    <3> QED BY <3>2, <3>3
  <2> QED BY <1>3, <2>2 DEF LineBytes, IsLength, IsData
<1>4. CASE lines[k].kind = "searching"
  BY <1>4 DEF LineBytes, IsData
<1>5. CASE lines[k].kind = "length"
  <2>1. lines[k] = Length /\ Long
    BY <1>2, <1>5 DEF IInv, LengthFirst
  <2>2. ASSUME NEW j \in 1 .. k - 1 PROVE lines[j].kind = "searching"
    <3>1. j \in 1 .. Len(lines) /\ j # k
      BY <1>1
    <3>2. lines[j] \in Printed
      BY <3>1 DEF IInv, TypeOK
    <3>3. lines[j] # Length
      BY <2>1, <3>1 DEF IInv, LengthFirst
    <3>4. ~IsData(j)
      <4> SUFFICES ASSUME IsData(j) PROVE FALSE
        OBVIOUS
      <4>1. PICK l \in 1 .. j - 1 : lines[l] = Length
        BY <2>1, <3>1 DEF IInv, LengthFirst
      <4>2. l \in 1 .. Len(lines) /\ l # k
        BY <1>1, <3>1
      <4> QED BY <2>1, <4>1, <4>2 DEF IInv, LengthFirst
    <3> QED BY <3>2, <3>3, <3>4, LineFields DEF IsData
  <2>3. IsLength(lines, k)
    BY <1>5, <2>2 DEF IsLength
  <2> QED BY <1>5, <2>3 DEF LineBytes, IsData
<1> QED BY <1>2, <1>3, <1>4, <1>5

LEMMA LineIsBytes ==
    ASSUME IInv, size > 1, NEW k \in 1 .. Len(lines)
    PROVE  LineBytes(lines, k) \in Seq(Nat)
<1>1. CASE IsData(k)
  <2>1. lines[k].frame \in 0 .. FrameCount - 1 /\ size \in Nat \ {0}
    BY <1>1, LineFields DEF IInv, TypeOK, IsData
  <2> QED BY <1>1, <2>1, LineReads, FrameBytes
<1>2. CASE ~IsData(k)
  <2>1. LineBytes(lines, k) = <<>>
    BY <1>2, LineReads
  <2> QED BY <2>1
<1> QED BY <1>1, <1>2

LEMMA StartOfStart ==
    ASSUME NEW w \in Seq(Nat), NEW s \in Seq(Nat), NEW t \in Seq(Nat),
           StartsWith(w, s), StartsWith(s, t)
    PROVE  StartsWith(w, t)
<1>1. Len(t) \in Nat /\ Len(s) \in Nat /\ Len(w) \in Nat
  OBVIOUS
<1>2. Len(t) <= Len(s) /\ Len(s) <= Len(w)
  BY DEF StartsWith
<1>3. Len(t) <= Len(w)
  BY ONLY <1>1, <1>2
<1>4. ASSUME NEW j \in 1 .. Len(t) PROVE w[j] = t[j]
  <2>1. j \in 1 .. Len(s)
    BY ONLY <1>1, <1>2, <1>4
  <2> QED BY <2>1 DEF StartsWith
<1> QED BY <1>3, <1>4 DEF StartsWith

\* What has been read is read on, never changed.
LEMMA ReadsOn ==
    ASSUME IInv, size > 1
    PROVE  \A m \in 0 .. Len(lines) :
             /\ UpTo(lines)[m] \in Seq(Nat)
             /\ \A k \in 0 .. m : StartsWith(UpTo(lines)[m], UpTo(lines)[k])
<1> DEFINE U(m) == UpTo(lines)[m]
           Fine(m) == U(m) \in Seq(Nat) /\ \A k \in 0 .. m : StartsWith(U(m), U(k))
           T == {m \in 0 .. Len(lines) : ~Fine(m)}
<1> SUFFICES ASSUME T # {} PROVE FALSE
  OBVIOUS
<1>1. Len(lines) \in Nat
  BY DEF IInv, TypeOK
<1>2. PICK m \in T : \A n \in T : m <= n
  <2>1. T \subseteq Nat
    BY <1>1
  <2> QED BY <2>1, LeastOne
<1>3. m \in 0 .. Len(lines) /\ ~Fine(m)
  BY <1>2
<1>4. m # 0
  <2>1. U(0) = <<>>
    BY <1>1, LinesAddUp
  <2>2. U(0) \in Seq(Nat) /\ StartsWith(U(0), U(0))
    BY <2>1 DEF StartsWith
  <2>3. Fine(0)
    BY <2>2
  <2> QED BY <1>3, <2>3
<1>5. m \in 1 .. Len(lines) /\ m - 1 \in 0 .. Len(lines) /\ m \in Nat
  BY <1>1, <1>3, <1>4
<1>6. Fine(m - 1)
  <2>1. m - 1 \notin T
    BY <1>2, <1>5
  <2> QED BY <1>5, <2>1
<1>7. PICK b \in Seq(Nat) : b = LineBytes(lines, m)
  BY <1>5, LineIsBytes
<1>8. PICK s \in Seq(Nat) : s = U(m - 1)
  BY <1>6
<1>9. U(m) = s \o b
  BY <1>1, <1>5, <1>7, <1>8, LinesAddUp
<1>10. U(m) \in Seq(Nat) /\ Len(U(m)) >= Len(s) /\ \A j \in 1 .. Len(s) : U(m)[j] = s[j]
  <2>1. /\ s \o b \in Seq(Nat) /\ Len(s \o b) = Len(s) + Len(b)
        /\ \A j \in 1 .. Len(s) : (s \o b)[j] = s[j]
    BY Concatenated
  <2> QED BY <1>9, <2>1
<1>11. ASSUME NEW k \in 0 .. m PROVE StartsWith(U(m), U(k))
  <2>1. CASE k = m
    BY <1>10, <2>1 DEF StartsWith
  <2>2. CASE k # m
    <3>1. k \in 0 .. m - 1
      BY <1>5, <2>2
    <3>2. StartsWith(s, U(k)) /\ U(k) \in Seq(Nat)
      <4>1. StartsWith(U(m - 1), U(k))
        BY <1>6, <3>1
      <4>2. k \notin T /\ k \in 0 .. Len(lines)
        BY <1>2, <1>5, <3>1
      <4> QED BY <1>8, <4>1, <4>2
    <3>3. PICK t \in Seq(Nat) : t = U(k)
      BY <3>2
    <3>4. PICK w \in Seq(Nat) : w = U(m)
      BY <1>10
    <3>5. StartsWith(w, s)
      BY <1>10, <3>4 DEF StartsWith
    <3>6. StartsWith(w, t)
      BY <3>2, <3>3, <3>5, StartOfStart
    <3> QED BY <3>3, <3>4, <3>6
  <2> QED BY <2>1, <2>2
<1> QED BY <1>3, <1>10, <1>11

LEMMA SameLines ==
    ASSUME size' = size
    PROVE  UpTo(lines)' = UpTo(lines') /\ get_payload(lines)' = get_payload(lines')
  BY DEF get_payload, UpTo, LineBytes, IsLength, BytesOf, First, Last, Long

LEMMA SameSoFarStep ==
    ASSUME IInv, IInv', SameSoFar, [AssemblyNext]_assemblyVars
    PROVE  SameSoFar'
<1>1. /\ Len(lines) \in Nat /\ i \in 1 .. Len(lines) + 1 /\ size \in Nat \ {0}
      /\ payload \in Seq(Nat) /\ expected_len \in {{}, {size}}
      /\ pc = "read" => i = 1 /\ payload = <<>>
  BY DEF IInv, TypeOK
<1>2. CASE ReadLength \/ ReadFirst \/ ReadNext \/ FrameLost \/ StopReading
  <2>1. /\ pc' # "accepted" /\ i' = 1 /\ payload' = <<>>
    BY <1>1, <1>2 DEF ReadLength, ReadFirst, ReadNext, FrameLost, StopReading, ToAssembler
  <2>2. Len(lines') \in Nat
    BY DEF IInv, TypeOK
  <2>3. UpTo(lines')[0] = <<>>
    BY <2>2, LinesAddUp
  <2>4. UpTo(lines)' = UpTo(lines')
    BY <1>2, SameLines DEF ReadLength, ReadFirst, ReadNext, FrameLost, StopReading, bus
  <2> QED BY <2>1, <2>3, <2>4 DEF SameSoFar
<1>3. CASE TakeSearching \/ TakeLength
  <2>1. /\ pc' # "accepted" /\ i' = i + 1 /\ payload' = payload /\ size' = size /\ lines' = lines
        /\ i \in 1 .. Len(lines) /\ lines[i].kind # "data"
    BY <1>1, <1>3 DEF TakeSearching, TakeLength, Here, bus
  <2> SUFFICES ASSUME size > 1 PROVE payload = UpTo(lines)[i]
    BY <2>1, SameLines DEF SameSoFar
  <2>2. payload = UpTo(lines)[i - 1]
    BY <1>1, <2>1 DEF SameSoFar
  <2>3. UpTo(lines)[i] = UpTo(lines)[i - 1] \o <<>>
    BY <1>1, <2>1, LinesAddUp, LineReads DEF IsData
  <2> QED BY <1>1, <2>2, <2>3
<1>4. CASE TakeData
  <2> DEFINE all == payload \o BytesOf(lines[i].frame)
  <2>1. /\ pc' # "accepted" /\ size' = size /\ lines' = lines
        /\ i \in 1 .. Len(lines) /\ IsData(i)
    <3>1. pc' = pc /\ pc = "assemble" /\ UNCHANGED bus /\ lines' = lines
          /\ i <= Len(lines) /\ lines[i].kind = "data"
      BY <1>4 DEF TakeData, Here
    <3> QED BY <1>1, <3>1 DEF IsData, bus
  <2>2. \/ payload' = all /\ i' = i + 1
        \/ \E n \in expected_len :
             Len(all) >= n /\ payload' = SubSeq(all, 1, n) /\ i' = Len(lines) + 1
    BY <1>4 DEF TakeData
  <2> SUFFICES ASSUME size > 1
               PROVE  \/ payload' = UpTo(lines)[i' - 1]
                      \/ i' = Len(lines) + 1 /\ StartsWith(get_payload(lines), payload')
    BY <2>1, SameLines DEF SameSoFar
  <2>3. UpTo(lines)[i] = all
    <3>1. payload = UpTo(lines)[i - 1]
      BY <1>1, <2>1 DEF SameSoFar
    <3>2. LineBytes(lines, i) = BytesOf(lines[i].frame)
      BY <2>1, LineReads
    <3> QED BY <1>1, <2>1, <3>1, <3>2, LinesAddUp
  <2>4. all \in Seq(Nat) /\ StartsWith(get_payload(lines), all)
    <3>1. /\ i \in 0 .. Len(lines) /\ Len(lines) \in 0 .. Len(lines)
      BY <1>1, <2>1
    <3>2. /\ UpTo(lines)[i] \in Seq(Nat)
          /\ StartsWith(UpTo(lines)[Len(lines)], UpTo(lines)[i])
      BY <3>1, ReadsOn
    <3> HIDE DEF all
    <3> QED BY <2>3, <3>2 DEF get_payload
  <2> HIDE DEF all
  <2>5. CASE payload' = all /\ i' = i + 1
    BY <1>1, <2>3, <2>5
  <2>6. CASE \E n \in expected_len :
               Len(all) >= n /\ payload' = SubSeq(all, 1, n) /\ i' = Len(lines) + 1
    <3>1. size \in 1 .. Len(all) /\ payload' = SubSeq(all, 1, size) /\ i' = Len(lines) + 1
      BY <1>1, <2>4, <2>6
    <3>2. Len(payload') = size /\ \A j \in 1 .. size : payload'[j] = all[j]
      BY <2>4, <3>1, Prefix
    <3>3. UpTo(lines)[Len(lines)] \in Seq(Nat)
      BY <1>1, ReadsOn
    <3>4. StartsWith(get_payload(lines), payload')
      BY <2>4, <3>1, <3>2, <3>3 DEF StartsWith, get_payload
    <3> QED BY <3>1, <3>4
  <2> QED BY <2>2, <2>5, <2>6
<1>5. CASE Judge
  <2>1. i = Len(lines) + 1
    BY <1>1, <1>5 DEF Judge
  <2>2. UNCHANGED <<size, lines, i, payload>>
    BY <1>5 DEF Judge, bus
  <2> QED BY <2>1, <2>2, SameLines DEF SameSoFar
<1>6. CASE UNCHANGED assemblyVars
  <2>1. UNCHANGED <<size, lines, i, payload, pc>>
    BY <1>6 DEF assemblyVars, bus
  <2> QED BY <2>1, SameLines DEF SameSoFar
<1> QED BY <1>2, <1>3, <1>4, <1>5, <1>6 DEF AssemblyNext, Assemble

\* A reply that is accepted gives the same bytes at the same places when it is read as a single
\* frame, for every length of the message and whatever was lost (get_payload, assemble_iso_tp).
THEOREM SingleReadsTheSame == ReplyAssemblySpec => []SameFromTheStart
<1>1. AssemblyInit => IInv /\ SameSoFar
  <2> SUFFICES ASSUME AssemblyInit PROVE SameSoFar
    BY InvInit
  <2>1. Len(lines) \in Nat
    BY InvInit DEF IInv, TypeOK
  <2> QED BY <2>1, LinesAddUp DEF AssemblyInit, SameSoFar
<1>2. IInv /\ SameSoFar /\ [AssemblyNext]_assemblyVars => IInv' /\ SameSoFar'
  BY InvStep, SameSoFarStep
<1>3. IInv /\ SameSoFar => SameFromTheStart
  <2> SUFFICES ASSUME IInv, SameSoFar, pc = "accepted", size > 1
               PROVE  StartsWith(get_payload(lines), payload)
    BY DEF SameFromTheStart, StartsWith
  <2>1. Len(lines) \in Nat /\ i = Len(lines) + 1
    BY DEF IInv, TypeOK, SameSoFar
  <2>2. CASE payload = UpTo(lines)[i - 1]
    <3>1. payload = UpTo(lines)[Len(lines)]
      BY <2>1, <2>2
    <3> QED BY <2>1, <3>1, ReadsOn DEF get_payload
  <2> QED BY <2>2 DEF SameSoFar
<1> QED BY <1>1, <1>2, <1>3, PTL DEF ReplyAssemblySpec

-----------------------------------------------------------------------------
(* BroadcastScan *)

\* A line behind the others is the latest payload of its frame, or changes nothing.
LEMMA OneMoreLine ==
  ASSUME NEW ls \in Seq(Lines), NEW line \in Lines, NEW f,
         PayloadsOf(ls, f) # {} =>
           \E m \in PayloadsOf(ls, f) : \A j \in PayloadsOf(ls, f) : j <= m
  PROVE  LET all == Append(ls, line) IN
         /\ LatestValue(all, f) =
              IF line.id = f /\ Routed(line)
              THEN IF line.kind # "short" THEN Len(all) ELSE NoValue
              ELSE LatestValue(ls, f)
         /\ PayloadsOf(all, f) # {} =>
              \E m \in PayloadsOf(all, f) : \A j \in PayloadsOf(all, f) : j <= m
<1> DEFINE all == Append(ls, line)
           P == PayloadsOf(ls, f)
           Q == PayloadsOf(all, f)
           n == Len(ls) + 1
<1>1. /\ Len(ls) \in Nat /\ Len(all) = n /\ all[n] = line /\ DOMAIN all = 1 .. n
      /\ DOMAIN ls = 1 .. Len(ls) /\ \A k \in 1 .. Len(ls) : all[k] = ls[k]
  OBVIOUS
<1> HIDE DEF all
<1>2. \A k : k \in P <=> k \in 1 .. Len(ls) /\ ls[k].id = f /\ Routed(ls[k])
  BY <1>1 DEF PayloadsOf
<1>3. \A k : k \in Q <=> k \in 1 .. n /\ all[k].id = f /\ Routed(all[k])
  BY <1>1 DEF PayloadsOf
<1> HIDE DEF P, Q
<1>4. CASE line.id = f /\ Routed(line)
  <2>1. n \in Q /\ \A k \in Q : k \in 1 .. n
    BY <1>1, <1>3, <1>4
  <2>2. \A k \in Q : (\A j \in Q : j <= k) <=> k = n
    BY <1>1, <2>1
  <2>3. (CHOOSE k \in Q : \A j \in Q : j <= k) = n
    BY <2>1, <2>2
  <2>4. LatestValue(all, f) = IF line.kind # "short" THEN n ELSE NoValue
    BY <1>1, <2>1, <2>3 DEF LatestValue, Q
  <2> QED BY <1>1, <1>4, <2>1, <2>2, <2>4 DEF all, Q
<1>5. CASE ~(line.id = f /\ Routed(line))
  <2>1. P = Q
    <3>1. \A k : k \in P <=> k \in Q
      BY <1>1, <1>2, <1>3, <1>5
    <3> QED BY <3>1
  <2> DEFINE latest == CHOOSE k \in P : \A j \in P : j <= k
  <2>2. CASE P = {}
    BY <1>5, <2>1, <2>2 DEF LatestValue, P, Q, all
  <2>3. CASE P # {}
    <3>1. \E k \in P : \A j \in P : j <= k
      BY <2>3 DEF P
    <3>2. latest \in P
      BY <3>1
    <3>3. all[latest] = ls[latest]
      <4> HIDE DEF latest
      <4> QED BY <1>1, <1>2, <3>2
    <3>4. LatestValue(ls, f) = IF ls[latest].kind # "short" THEN latest ELSE NoValue
      BY <2>3 DEF LatestValue, P
    <3>5. LatestValue(all, f) = IF all[latest].kind # "short" THEN latest ELSE NoValue
      BY <2>1, <2>3 DEF LatestValue, P, Q
    <3> QED BY <1>5, <2>1, <3>1, <3>3, <3>4, <3>5 DEF all, Q
  <2> QED BY <2>2, <2>3
<1> QED BY <1>4, <1>5

LEMMA TrackedAlways == BroadcastScanSpec => []Tracked
<1>1. ScanInit => Tracked
  BY DEF ScanInit, Tracked, LatestValue, PayloadsOf
<1>2. Tracked /\ [ScanNext]_scanVars => Tracked'
  <2> SUFFICES ASSUME Tracked, [ScanNext]_scanVars PROVE Tracked'
    OBVIOUS
  <2>1. CASE Line
    <3>1. PICK line \in Lines :
            /\ shown' = Append(shown, line)
            /\ wanted' = IF line.id \in Frames /\ line.kind \in {"data", "short"}
                         THEN [wanted EXCEPT ![line.id] =
                                 IF line.kind = "data" THEN Len(shown') ELSE NoValue]
                         ELSE wanted
      BY <2>1 DEF Line
    <3>2. shown \in Seq(Lines) /\ wanted = [f \in Frames |-> LatestValue(shown, f)]
      BY DEF Tracked
    <3>3. ASSUME NEW f \in Frames
          PROVE  /\ LatestValue(shown', f) =
                      IF line.id = f /\ Routed(line)
                      THEN IF line.kind # "short" THEN Len(shown') ELSE NoValue
                      ELSE LatestValue(shown, f)
                 /\ PayloadsOf(shown', f) # {} =>
                      \E m \in PayloadsOf(shown', f) : \A j \in PayloadsOf(shown', f) : j <= m
      BY <3>1, <3>2, OneMoreLine DEF Tracked
    <3>4. wanted' = [f \in Frames |-> LatestValue(shown', f)]
      <4>1. Routed(line) <=> line.kind \in {"data", "short"}
        BY DEF Routed
      <4> DEFINE w == [f \in Frames |-> LatestValue(shown', f)]
      <4>2. DOMAIN wanted' = Frames /\ DOMAIN w = Frames
        BY <3>1, <3>2
      <4>3. \A f \in Frames : wanted'[f] = LatestValue(shown', f)
        <5> TAKE f \in Frames
        <5>1. wanted[f] = LatestValue(shown, f)
          BY <3>2
        <5>2. CASE line.id = f /\ Routed(line)
          BY <3>1, <3>2, <3>3, <4>1, <5>2
        <5>3. CASE ~(line.id = f /\ Routed(line))
          BY <3>1, <3>2, <3>3, <4>1, <5>1, <5>3
        <5> QED BY <5>2, <5>3
      <4>4. wanted' = [f \in Frames |-> wanted'[f]]
        BY <3>1, <3>2
      <4> QED BY <4>3, <4>4
    <3>5. shown' \in Seq(Lines)
      BY <3>1, <3>2
    <3> QED BY <3>3, <3>4, <3>5 DEF Tracked
  <2>2. CASE Prompt \/ Expire \/ LinkLost \/ UNCHANGED scanVars
    <3>1. shown' = shown /\ wanted' = wanted
      BY <2>2 DEF Prompt, Expire, LinkLost, scanVars
    <3> QED BY <3>1 DEF Tracked, LatestValue, PayloadsOf
  <2> QED BY <2>1, <2>2 DEF ScanNext
<1> QED BY <1>1, <1>2, PTL DEF BroadcastScanSpec

\* Whatever ends a scan of any length, each frame is reported as the bus last showed it
\* (route_broadcast_lines).
THEOREM LatestIsReported == BroadcastScanSpec => []ReportsLatest
<1>1. ScanInit => ReportsLatest
  BY DEF ScanInit, ReportsLatest, Ended
<1>2. ReportsLatest /\ Tracked' /\ [ScanNext]_scanVars => ReportsLatest'
  <2> SUFFICES ASSUME ReportsLatest, Tracked', [ScanNext]_scanVars, Ended'
               PROVE  reported' = wanted'
    BY DEF ReportsLatest
  <2>1. CASE \E reason : Finish(reason)
    BY <2>1 DEF Finish, Tracked
  <2>2. CASE UNCHANGED <<ended_by, reported, wanted>>
    BY <2>2 DEF ReportsLatest, Ended
  <2>3. (\E reason : Finish(reason)) \/ UNCHANGED <<ended_by, reported, wanted>>
    <3>1. CASE Line
      <4>1. ended_by' \notin {"no", "error"} /\ ended_by = "no"
        BY <3>1 DEF Line, Ended
      <4> QED BY <3>1, <4>1 DEF Line
    <3>2. CASE Prompt \/ Expire
      BY <3>2 DEF Prompt, Expire
    <3>3. CASE LinkLost
      BY <3>3 DEF LinkLost, Ended
    <3>4. CASE UNCHANGED scanVars
      BY <3>4 DEF scanVars
    <3> QED BY <3>1, <3>2, <3>3, <3>4 DEF ScanNext
  <2> QED BY <2>1, <2>2, <2>3
<1> QED BY <1>1, <1>2, TrackedAlways, PTL DEF BroadcastScanSpec

-----------------------------------------------------------------------------
(* Payloads *)

LEMMA ThisCycleAlways == PayloadsSpec => []ThisCycle
<1>1. PayloadsInit => ThisCycle
  BY DEF PayloadsInit, ThisCycle
<1>2. ThisCycle /\ [PayloadsNext]_payloadsVars => ThisCycle'
  <2> SUFFICES ASSUME ThisCycle, [PayloadsNext]_payloadsVars PROVE ThisCycle'
    OBVIOUS
  <2>1. CASE Insert
    <3>1. PICK k \in Keys : \E v \in Values[k] :
            metrics' = [j \in {k} \cup DOMAIN metrics |-> IF j = k THEN v ELSE metrics[j]]
      BY <2>1 DEF Insert
    <3>2. /\ DOMAIN metrics' = {k} \cup DOMAIN metrics
          /\ \E v \in Values[k] :
               \A j \in DOMAIN metrics' : metrics'[j] = IF j = k THEN v ELSE metrics[j]
      BY <3>1
    <3>3. sent' = None
      BY <2>1 DEF Insert
    <3> QED BY <3>1, <3>2, <3>3 DEF ThisCycle
  <2>2. CASE Publish
    BY <2>2 DEF Publish, ThisCycle, BuiltOf
  <2>3. CASE NextCycle
    <3>1. metrics' = <<>> /\ sent' = None
      BY <2>3 DEF NextCycle
    <3> QED BY <3>1 DEF ThisCycle
  <2>4. CASE UNCHANGED payloadsVars
    BY <2>4 DEF payloadsVars, ThisCycle
  <2> QED BY <2>1, <2>2, <2>3, <2>4 DEF PayloadsNext
<1> QED BY <1>1, <1>2, PTL DEF PayloadsSpec

\* A reading is a set of at most one integer.
LEMMA OneReading ==
  ASSUME ThisCycle, NEW k \in Keys, NEW v \in Read(metrics, k)
  PROVE  v \subseteq Int /\ (\A x, y \in v : x = y) /\ k \in DOMAIN metrics /\ v = metrics[k]
<1>1. k \in DOMAIN metrics /\ v = metrics[k]
  BY DEF Read, None
<1>2. v \in Values[k]
  BY <1>1 DEF ThisCycle
<1> QED BY <1>1, <1>2, PayloadAssumption

\* Miles that were driven are kilometres that were driven, or too many for an f32.
LEMMA InKm ==
  ASSUME NEW x \in Int, x > 0
  PROVE  \A y \in F32((8 * x) \div 5) : y \in Int /\ y > 0
<1>1. (8 * x) \div 5 \in Int /\ (8 * x) \div 5 > 0
  OBVIOUS
<1> QED BY <1>1 DEF F32, NaN

\* Which readings the odometer is built of.
LEMMA Distance ==
  ASSUME ThisCycle, NEW d
  PROVE  LET km == Read(metrics, "km")
             mi == Read(metrics, "mi") IN
         /\ d \in distance(metrics) =>
              \/ d \in Finite(km) /\ (Positive(km) # None => d \in Positive(km))
                 /\ (Positive(km) = None => Positive(mi) = None)
              \/ \E v \in Positive(mi) : \E x \in v : d = F32((8 * x) \div 5)
         /\ Finite(km) # None \/ Positive(mi) # None => distance(metrics) # None
<1> DEFINE km == Read(metrics, "km")
           mi == Read(metrics, "mi")
<1>1. \A v \in km : v = metrics["km"]
  BY DEF Read, None
<1>2. \A S : Finite(Finite(S)) = Finite(S)
  BY DEF Finite
<1>3. \A S : Positive(Finite(S)) = Positive(S) /\ Positive(S) \subseteq Finite(S) /\ Finite(S) \subseteq S
  BY <1>2 DEF Positive, Finite
<1>4. \A S, e : e \in ToKm(S) <=> \E v \in S : \E x \in v : e = F32((8 * x) \div 5)
  BY DEF ToKm
<1>5. \A v \in Positive(mi) : \E x \in v : x > 0
  BY DEF Positive
<1>6. distance(metrics) = IF Positive(km) # None THEN Finite(km)
                          ELSE IF Positive(mi) # None THEN ToKm(Positive(mi)) ELSE Finite(km)
  BY <1>3 DEF distance
<1> HIDE DEF km, mi
<1>7. ASSUME d \in distance(metrics)
      PROVE  \/ d \in Finite(km) /\ (Positive(km) # None => d \in Positive(km))
                /\ (Positive(km) = None => Positive(mi) = None)
             \/ \E v \in Positive(mi) : \E x \in v : d = F32((8 * x) \div 5)
  <2>1. CASE Positive(km) # None
    <3>1. d \in Finite(km) /\ d \in km
      BY <1>3, <1>6, <1>7, <2>1
    <3>2. \A v \in Positive(km) : v = d
      BY <1>1, <1>3, <3>1
    <3>3. d \in Positive(km)
      BY <2>1, <3>2 DEF None
    <3> QED BY <2>1, <3>1, <3>3
  <2>2. CASE Positive(km) = None /\ Positive(mi) # None
    BY <1>4, <1>6, <1>7, <2>2
  <2>3. CASE Positive(km) = None /\ Positive(mi) = None
    BY <1>6, <1>7, <2>3
  <2> QED BY <2>1, <2>2, <2>3
<1>8. Finite(km) # None \/ Positive(mi) # None => distance(metrics) # None
  <2>1. CASE Positive(km) # None
    BY <1>3, <1>6, <2>1 DEF None
  <2>2. CASE Positive(km) = None /\ Positive(mi) # None
    <3>1. PICK v \in Positive(mi) : TRUE
      BY <2>2 DEF None
    <3>2. PICK x \in v : TRUE
      BY <1>5, <3>1
    <3>3. F32((8 * x) \div 5) \in ToKm(Positive(mi))
      BY <1>4, <3>1, <3>2
    <3> QED BY <1>6, <2>2, <3>3 DEF None
  <2>3. CASE Positive(km) = None /\ Positive(mi) = None
    BY <1>6, <2>3
  <2> QED BY <2>1, <2>2, <2>3
<1> QED BY <1>7, <1>8 DEF km, mi

\* aa-proxy-rs can use what it gets: for every reading of every key, and any capacity
\* (build_battery, build_odometer).
THEOREM UsableAlways == PayloadsSpec => []PayloadsAreUsable
<1> DEFINE km == Read(metrics, "km")
           mi == Read(metrics, "mi")
<1>1. {"percentage", "km", "mi"} \subseteq Keys
  BY PayloadAssumption
<1>2. ASSUME ThisCycle, NEW v \in Positive(mi), NEW x \in v
      PROVE  \A y \in F32((8 * x) \div 5) : y \in Int /\ y > 0
  <2>1. v \in mi /\ \E y \in v : y > 0
    BY DEF Positive, Finite
  <2>2. x \in Int /\ x > 0
    BY <1>1, <1>2, <2>1, OneReading
  <2> QED BY <2>2, InKm
<1>3. ThisCycle => PlausibleIsAccepted
  <2> SUFFICES ASSUME ThisCycle, NEW s \in sent,
                      \A k \in DOMAIN metrics :
                        \E x \in metrics[k] : x >= 0 /\ (k = "percentage" => x <= 100)
               PROVE  /\ \A b \in s.battery : HasCharge(b)
                      /\ \A o \in s.odometer : \A x \in o.km : x >= 0
    BY DEF PlausibleIsAccepted
  <2>1. s.battery = build_battery(metrics) /\ s.odometer = build_odometer(metrics)
    BY DEF ThisCycle, None, BuiltOf
  <2>2. ASSUME NEW b \in s.battery PROVE HasCharge(b)
    <3>1. b \in build_battery(metrics)
      BY <2>1
    <3>2. /\ b.percentage = Read(metrics, "percentage") /\ b.wh = level_wh(metrics)
          /\ "percentage" \in DOMAIN metrics \/ level_wh(metrics) # None
      BY <3>1 DEF build_battery, BatteryOf, None
    <3>3. CASE "percentage" \in DOMAIN metrics
      <4>1. metrics["percentage"] # NaN /\ metrics["percentage"] \in b.percentage
        BY <3>2, <3>3 DEF Read, NaN
      <4> QED BY <4>1 DEF HasCharge, Number, Finite, None
    <3>4. CASE level_wh(metrics) # None
      BY <3>2, <3>4 DEF HasCharge
    <3> QED BY <3>2, <3>3, <3>4
  <2>3. ASSUME NEW o \in s.odometer, NEW x \in o.km PROVE x >= 0
    <3>1. o.km \in distance(metrics)
      BY <2>1 DEF build_odometer
    <3>2. CASE o.km \in Finite(km)
      <4>1. o.km \in km
        BY <3>2 DEF Finite
      <4>2. /\ o.km \subseteq Int /\ (\A y, z \in o.km : y = z)
            /\ "km" \in DOMAIN metrics /\ o.km = metrics["km"]
        BY <1>1, <4>1, OneReading
      <4>3. \E y \in o.km : y >= 0
        BY <4>2
      <4> QED BY <4>2, <4>3
    <3>3. CASE \E v \in Positive(mi) : \E y \in v : o.km = F32((8 * y) \div 5)
      <4>1. x \in Int /\ x > 0
        BY <1>2, <3>3
      <4> QED BY <4>1
    <3> QED BY <3>1, <3>2, <3>3, Distance
  <2> QED BY <2>2, <2>3
<1>4. ThisCycle => DistanceIsShown
  <2> SUFFICES ASSUME ThisCycle, NEW s \in sent
               PROVE  /\ Positive(km) \cup Positive(mi) # None =>
                           \E o \in s.odometer : \A x \in o.km : x > 0
                      /\ Number(km) => s.odometer # None
    BY DEF DistanceIsShown
  <2>1. s.odometer = build_odometer(metrics)
    BY DEF ThisCycle, None, BuiltOf
  <2>2. ASSUME NEW d \in distance(metrics) PROVE \E o \in s.odometer : o.km = d
    <3> DEFINE o == [km |-> d, trip |-> Read(metrics, "trip")]
    <3>1. o \in s.odometer
      BY <2>1 DEF build_odometer
    <3>2. o.km = d
      OBVIOUS
    <3> HIDE DEF o
    <3> QED BY <3>1, <3>2
  <2>3. ASSUME Positive(km) \cup Positive(mi) # None
        PROVE  \E o \in s.odometer : \A x \in o.km : x > 0
    <3>1. Finite(km) # None \/ Positive(mi) # None
      BY <2>3 DEF Positive, None
    <3>2. PICK d \in distance(metrics) : TRUE
      BY <3>1, Distance DEF None
    <3>3. \A x \in d : x > 0
      <4>1. CASE \E v \in Positive(mi) : \E y \in v : d = F32((8 * y) \div 5)
        BY <1>2, <4>1
      <4>2. CASE ~\E v \in Positive(mi) : \E y \in v : d = F32((8 * y) \div 5)
        <5>1. d \in Positive(km)
          BY <2>3, <3>2, <4>2, Distance DEF None
        <5>2. d \in km /\ \E y \in d : y > 0
          BY <5>1 DEF Positive, Finite
        <5> QED BY <1>1, <5>2, OneReading
      <4> QED BY <4>1, <4>2
    <3> QED BY <2>2, <3>2, <3>3
  <2>4. ASSUME Number(km) PROVE s.odometer # None
    <3>1. PICK d \in distance(metrics) : TRUE
      BY <2>4, Distance DEF Number, None
    <3> QED BY <2>2, <3>1 DEF None
  <2> QED BY <2>3, <2>4
<1> QED BY <1>3, <1>4, ThisCycleAlways, PTL DEF PayloadsAreUsable

=============================================================================
