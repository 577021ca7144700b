--------------------------- MODULE InterfaceProofs ---------------------------
(***************************************************************************)
(* Proofs about Interface: what a function of interface.cpp packages, the  *)
(* parser of protocol.cpp accepts and the getters read back, for every     *)
(* size of a byte, every limit, every set of requests and everything that  *)
(* was parsed before.                                                      *)
(*                                                                         *)
(* The argument has four parts: numbers survive being cut into bytes; a    *)
(* parameter is appended to a buffer without touching what is there;       *)
(* the loop of parse_message records the positions at which the parameters *)
(* were packaged (Follows, the inductive invariant); and a lookup stops at *)
(* the one parameter of its type.                                          *)
(***************************************************************************)
EXTENDS Interface, CommonMessageProofs, SequenceTheorems

(***************************************************************************)
(* Numbers and bytes.                                                      *)
(***************************************************************************)

\* A quotient and a remainder are determined by what they give back.
LEMMA Unique ==
    ASSUME NEW N \in Nat \ {0}, NEW q \in Int, NEW r \in 0 .. N - 1,
           NEW k \in Int, NEW s \in 0 .. N - 1, N * q + r = N * k + s
    PROVE  k = q /\ s = r
<1>1. q - k >= 1 => N * q >= N * k + N
  OBVIOUS
<1>2. k - q >= 1 => N * k >= N * q + N
  OBVIOUS
<1> QED BY <1>1, <1>2

\* Whatever gives n back is its quotient and its remainder.
LEMMA Division ==
    ASSUME NEW N \in Nat \ {0}, NEW q \in Int, NEW r \in 0 .. N - 1, NEW n \in Int, n = N * q + r
    PROVE  n \div N = q /\ n % N = r
<1>1. /\ n = N * (n \div N) + (n % N)
      /\ n \div N \in Int /\ n % N \in 0 .. N - 1
  OBVIOUS
<1> QED BY <1>1, Unique

\* An index into a circular buffer of N places, before and behind its start.
LEMMA Wrapped ==
    ASSUME NEW N \in Nat \ {0}, NEW x \in Int
    PROVE  /\ x \in 0 .. N - 1 => x % N = x
           /\ x \in -N .. -1 => x % N = x + N
<1>1. ASSUME x \in 0 .. N - 1 PROVE x % N = x
  <2>1. x = N * 0 + x /\ 0 \in Int
    BY <1>1
  <2> QED BY <1>1, <2>1, Division
<1>2. ASSUME x \in -N .. -1 PROVE x % N = x + N
  <2>1. x = N * (-1) + (x + N) /\ -1 \in Int /\ x + N \in 0 .. N - 1
    BY <1>2
  <2> QED BY <1>2, <2>1, Division
<1> QED BY <1>1, <1>2

\* The number of values of a byte and of an unsigned short.
LEMMA Widths ==
    /\ Base \in Nat /\ Base > 5 /\ Base \in Nat \ {0}
    /\ Width16 \in Nat /\ Width16 >= 36 /\ Width16 \in Nat \ {0}
    /\ Width16 = Base * Base
<1>1. Base \in Nat /\ Base > 5
  BY CommonMessageAssumption, InterfaceAssumption
<1>2. Base * Base >= 6 * Base
  BY <1>1
<1> QED BY <1>1, <1>2 DEF Width16

\* The digits of a number in base Base, from the last one on.
LEMMA Digit ==
    ASSUME NEW n \in Nat
    PROVE  /\ n \div Base \in Nat /\ n % Base \in 0 .. Base - 1
           /\ n = Base * (n \div Base) + (n % Base)
BY Widths

\* An unsigned short is read back from its two bytes.
LEMMA Bytes16Value ==
    ASSUME NEW n \in 0 .. Width16 - 1
    PROVE  /\ Bytes16(n) \in Seq(Int) /\ Len(Bytes16(n)) = 2
           /\ Bytes16(n)[1] * Base + Bytes16(n)[2] = n
<1> DEFINE q == n \div Base
           r == n % Base
<1>1. n \in Nat /\ Base \in Nat \ {0}
  BY Widths
<1>2. q \in Nat /\ r \in 0 .. Base - 1 /\ n = Base * q + r
  BY <1>1, Digit
<1>3. q < Base
  <2> HIDE DEF q, r
  <2>1. q >= Base => Base * q >= Base * Base
    BY <1>1, <1>2
  <2> QED BY <1>1, <1>2, <2>1, Widths
<1>4. q % Base = q
  <2> HIDE DEF q, r
  <2>1. q \in 0 .. Base - 1 /\ q = Base * 0 + q
    BY <1>1, <1>2, <1>3
  <2>2. Base \in Nat \ {0} /\ 0 \in Int /\ q \in Int
    BY <1>1, <2>1
  <2> QED BY <2>1, <2>2, Division
<1>5. Bytes16(n) = <<q, r>>
  BY <1>4 DEF Bytes16
<1> HIDE DEF q, r
<1>6. q * Base + r = n
  BY <1>1, <1>2
<1>7. /\ <<q, r>> \in Seq(Int) /\ Len(<<q, r>>) = 2
      /\ <<q, r>>[1] = q /\ <<q, r>>[2] = r
  BY <1>2
<1> QED BY <1>5, <1>6, <1>7

\* For the prover: products regrouped.
LEMMA Reordered == \A a, b \in Int : (a * b) * b = (b * b) * a
OBVIOUS

\* An unsigned int is read back from its four bytes.
LEMMA Bytes32Value ==
    ASSUME NEW n \in 0 .. Width16 * Width16 - 1
    PROVE  /\ Bytes32(n) \in Seq(Int) /\ Len(Bytes32(n)) = 4
           /\ (Bytes32(n)[1] * Base + Bytes32(n)[2]) * Base * Base
                 + (Bytes32(n)[3] * Base + Bytes32(n)[4]) = n
<1> DEFINE q1 == n \div Base
           r1 == n % Base
           q2 == q1 \div Base
           r2 == q1 % Base
<1>1. n \in Nat /\ Base \in Nat \ {0} /\ Width16 \in Nat \ {0} /\ Width16 = Base * Base
  BY Widths
<1>2. q1 \in Nat /\ r1 \in 0 .. Base - 1 /\ n = Base * q1 + r1
  BY <1>1, Digit
<1>3. q2 \in Nat /\ r2 \in 0 .. Base - 1 /\ q1 = Base * q2 + r2
  BY <1>2, Digit
<1>4. Bytes16(n) = <<r2, r1>>
  BY DEF Bytes16
<1> HIDE DEF q1, r1, q2, r2
<1>5. n = Width16 * q2 + (r2 * Base + r1)
  <2>1. n = Base * (Base * q2 + r2) + r1
    BY <1>2, <1>3
  <2>2. Base * (Base * q2 + r2) = (Base * Base) * q2 + r2 * Base
    BY <1>1, <1>2, <1>3
  <2> QED BY <1>1, <1>2, <1>3, <2>1, <2>2
<1>6. r2 * Base + r1 \in 0 .. Width16 - 1
  <2>1. r2 * Base <= (Base - 1) * Base
    BY <1>1, <1>3
  <2>2. (Base - 1) * Base = Base * Base - Base
    BY <1>1
  <2>3. r2 * Base \in Nat
    BY <1>1, <1>3
  <2> QED BY <1>1, <1>2, <2>1, <2>2, <2>3
<1>7. n \div Width16 = q2
  BY <1>1, <1>2, <1>3, <1>5, <1>6, Division
<1>8. q2 < Width16
  <2>1. q2 >= Width16 => Width16 * q2 >= Width16 * Width16
    BY <1>1, <1>3
  <2> QED BY <1>1, <1>3, <1>5, <1>6, <2>1
<1>9. /\ Bytes16(q2) \in Seq(Int) /\ Len(Bytes16(q2)) = 2
      /\ Bytes16(q2)[1] * Base + Bytes16(q2)[2] = q2
  BY <1>1, <1>3, <1>8, Bytes16Value
<1>10. Bytes32(n) = Bytes16(q2) \o <<r2, r1>>
  BY <1>4, <1>7 DEF Bytes32
<1>11. /\ Bytes32(n) \in Seq(Int) /\ Len(Bytes32(n)) = 4
       /\ Bytes32(n)[1] = Bytes16(q2)[1] /\ Bytes32(n)[2] = Bytes16(q2)[2]
       /\ Bytes32(n)[3] = r2 /\ Bytes32(n)[4] = r1
  <2> DEFINE low == <<r2, r1>>
  <2>1. low \in Seq(Int) /\ Len(low) = 2 /\ low[1] = r2 /\ low[2] = r1
    BY <1>2, <1>3
  <2> DEFINE high == Bytes16(q2)
  <2>2. high \in Seq(Int) /\ Len(high) = 2
    BY <1>9
  <2>3. Bytes32(n) = high \o low
    BY <1>10
  <2> HIDE DEF low, high
  <2>4. /\ high \o low \in Seq(Int) /\ Len(high \o low) = Len(high) + Len(low)
        /\ \A i \in 1 .. Len(high) + Len(low) :
              (high \o low)[i] = IF i <= Len(high) THEN high[i] ELSE low[i - Len(high)]
    BY <2>1, <2>2, ConcatProperties
  <2>5. /\ Bytes32(n) \in Seq(Int) /\ Len(Bytes32(n)) = 4
        /\ Bytes32(n)[1] = high[1] /\ Bytes32(n)[2] = high[2]
        /\ Bytes32(n)[3] = low[1] /\ Bytes32(n)[4] = low[2]
    BY <2>1, <2>2, <2>3, <2>4
  <2> QED BY <2>1, <2>5 DEF high
<1>12. q2 * Base * Base = Width16 * q2
  BY <1>1, <1>3, Reordered
<1>13. (q2 * Base) * Base + (r2 * Base + r1) = n
  <2>1. /\ (q2 * Base) * Base \in Int /\ Width16 * q2 \in Int /\ r2 * Base + r1 \in Int
    BY <1>1, <1>2, <1>3
  <2> QED BY <1>5, <1>12, <2>1
<1> QED BY <1>9, <1>11, <1>13

-----------------------------------------------------------------------------
(***************************************************************************)
(* Packaging.                                                              *)
(***************************************************************************)

\* Parameters that are a short, an int and a block; every type has its own number.
Short(p) == p.type \in {PARAMETER_CHANNEL_ID, PARAMETER_ERROR_CODE}
Whole(p) == p.type \in {PARAMETER_BLOCK_ID, PARAMETER_CRC}
Block(p) == p.type = PARAMETER_BLOCK_DATA

\* A parameter that a function of interface.cpp may be given.
Legal(p) == (Short(p) \/ Whole(p) \/ Block(p)) /\ InRange(p)

\* The parameter p, head and value, stands at the position at of the buffer a.
Stored(a, p, at) ==
    /\ ParameterType(a, at) = p.type
    /\ ParameterLength(a, at) = Width(p)
    /\ Short(p) => U16(a, at + 4) = p.value
    /\ Whole(p) => U32(a, at + 4) = p.value
    /\ Block(p) => \A i \in 1 .. Len(p.value) : a[at + 4 + i - 1] = p.value[i]

\* What a legal parameter is, by its kind.
LEMMA Legals ==
    ASSUME NEW p, Legal(p)
    PROVE  /\ p.type \in 0 .. Width16 - 1 /\ Width(p) \in 0 .. Width16 - 1
           /\ Width(p) + 31 <= Width16
           /\ Short(p) => /\ Width(p) = 2 /\ p.value \in 0 .. Width16 - 1
                          /\ ~Whole(p) /\ ~Block(p)
           /\ Whole(p) => /\ Width(p) = 4 /\ p.value \in 0 .. Width16 * Width16 - 1
                          /\ ~Short(p) /\ ~Block(p)
           /\ Block(p) => /\ Width(p) = Len(p.value) /\ p.value \in Seq(Byte)
                         /\ ~Short(p) /\ ~Whole(p)
<1> USE DEF Short, Whole, Block, PARAMETER_CHANNEL_ID, PARAMETER_ERROR_CODE,
            PARAMETER_BLOCK_ID, PARAMETER_CRC, PARAMETER_BLOCK_DATA
<1>1. CASE Short(p)
  <2>1. Width(p) = 2
    BY <1>1 DEF Width
  <2>2. p.value \in 0 .. Width16 - 1
    BY <1>1 DEF Legal, InRange
  <2>3. p.type \in 0 .. 5 /\ ~Whole(p) /\ ~Block(p)
    BY <1>1
  <2> QED BY <1>1, <2>1, <2>2, <2>3, Widths
<1>2. CASE Whole(p)
  <2>1. Width(p) = 4
    BY <1>2 DEF Width
  <2>2. p.value \in 0 .. Width16 * Width16 - 1
    BY <1>2 DEF Legal, InRange
  <2>3. p.type \in 0 .. 5 /\ ~Short(p) /\ ~Block(p)
    BY <1>2
  <2> QED BY <1>2, <2>1, <2>2, <2>3, Widths
<1>3. CASE Block(p)
  <2>1. Width(p) = Len(p.value) /\ p.value \in Seq(Byte) /\ Len(p.value) + 31 <= Width16
    BY <1>3 DEF Legal, InRange, Width
  <2>2. Len(p.value) \in Nat
    BY <2>1
  <2> QED BY <1>3, <2>1, <2>2, Widths
<1> QED BY <1>1, <1>2, <1>3 DEF Legal

\* The bytes of a parameter: four of its head, and its value.
LEMMA Template ==
    ASSUME NEW p, Legal(p)
    PROVE  LET b == package_message_parameter_template(p) IN
           /\ b \in Seq(Int) /\ Len(b) = 4 + Width(p)
           /\ b[1] * Base + b[2] = p.type
           /\ b[3] * Base + b[4] = Width(p)
           /\ Short(p) => b[5] * Base + b[6] = p.value
           /\ Whole(p) => (b[5] * Base + b[6]) * Base * Base + (b[7] * Base + b[8]) = p.value
           /\ Block(p) => \A i \in 1 .. Len(p.value) : b[4 + i] = p.value[i]
<1> DEFINE type == Bytes16(p.type)
           size == Bytes16(Width(p))
           value == CASE Short(p) -> Bytes16(p.value)
                      [] Whole(p) -> Bytes32(p.value)
                      [] Block(p) -> p.value
           head == type \o size
           b == head \o value
<1>1. /\ type \in Seq(Int) /\ Len(type) = 2 /\ type[1] * Base + type[2] = p.type
      /\ size \in Seq(Int) /\ Len(size) = 2 /\ size[1] * Base + size[2] = Width(p)
  BY Legals, Bytes16Value
<1>2. /\ value \in Seq(Int) /\ Len(value) = Width(p)
      /\ Short(p) => value[1] * Base + value[2] = p.value
      /\ Whole(p) => (value[1] * Base + value[2]) * Base * Base
                        + (value[3] * Base + value[4]) = p.value
      /\ Block(p) => \A i \in 1 .. Len(p.value) : value[i] = p.value[i]
  <2>1. CASE Short(p)
    <3>1. value = Bytes16(p.value) /\ ~Whole(p) /\ ~Block(p) /\ Width(p) = 2
      BY <2>1, Legals
    <3> QED BY <2>1, <3>1, Legals, Bytes16Value
  <2>2. CASE Whole(p)
    <3>1. value = Bytes32(p.value) /\ ~Short(p) /\ ~Block(p) /\ Width(p) = 4
      BY <2>2, Legals
    <3> QED BY <2>2, <3>1, Legals, Bytes32Value
  <2>3. CASE Block(p)
    <3>1. value = p.value /\ ~Short(p) /\ ~Whole(p) /\ Width(p) = Len(p.value)
      BY <2>3, Legals
    <3>2. p.value \in Seq(Byte) /\ Byte \subseteq Int
      BY <2>3, Legals, Widths DEF Byte
    <3>3. p.value \in Seq(Int)
      BY <3>2, SeqMonotonic
    <3> QED BY <3>1, <3>3
  <2> QED BY <2>1, <2>2, <2>3 DEF Legal
<1>3. package_message_parameter_template(p) = b
  BY DEF package_message_parameter_template, Short, Whole, Block
<1> HIDE DEF type, size, value
<1>4. /\ head \in Seq(Int) /\ Len(head) = 4
      /\ head[1] = type[1] /\ head[2] = type[2] /\ head[3] = size[1] /\ head[4] = size[2]
  <2>1. /\ type \o size \in Seq(Int) /\ Len(type \o size) = Len(type) + Len(size)
        /\ \A i \in 1 .. Len(type) + Len(size) :
              (type \o size)[i] = IF i <= Len(type) THEN type[i] ELSE size[i - Len(type)]
    BY <1>1, ConcatProperties
  <2> QED BY <1>1, <2>1
<1> HIDE DEF head
<1>5. /\ b \in Seq(Int) /\ Len(b) = 4 + Width(p)
      /\ b[1] = head[1] /\ b[2] = head[2] /\ b[3] = head[3] /\ b[4] = head[4]
      /\ \A i \in 1 .. Width(p) : b[4 + i] = value[i]
  <2>1. /\ head \o value \in Seq(Int) /\ Len(head \o value) = Len(head) + Len(value)
        /\ \A i \in 1 .. Len(head) + Len(value) :
              (head \o value)[i] = IF i <= Len(head) THEN head[i] ELSE value[i - Len(head)]
    <3>1. head \in Seq(Int) /\ value \in Seq(Int)
      BY <1>2, <1>4
    <3> QED BY <3>1, ConcatProperties
  <2> HIDE DEF b
  <2>2. /\ b \in Seq(Int) /\ Len(b) = Len(head) + Len(value)
        /\ \A i \in 1 .. Len(head) + Len(value) :
              b[i] = IF i <= Len(head) THEN head[i] ELSE value[i - Len(head)]
    BY <2>1, Zenon DEF b
  <2>3. Width(p) \in Nat /\ Len(head) = 4 /\ Len(value) = Width(p)
    BY <1>2, <1>4, Legals
  <2>4. ASSUME NEW i \in 1 .. 4 PROVE b[i] = head[i]
    <3>1. i \in 1 .. Len(head) + Len(value) /\ i <= Len(head)
      BY <2>3
    <3> QED BY <2>2, <3>1
  <2>5. ASSUME NEW i \in 1 .. Width(p) PROVE b[4 + i] = value[i]
    <3>1. /\ 4 + i \in 1 .. Len(head) + Len(value) /\ ~(4 + i <= Len(head))
          /\ 4 + i - Len(head) = i
      BY <2>3
    <3> QED BY <2>2, <3>1
  <2>6. 1 \in 1 .. 4 /\ 2 \in 1 .. 4 /\ 3 \in 1 .. 4 /\ 4 \in 1 .. 4
    OBVIOUS
  <2>7. b[1] = head[1] /\ b[2] = head[2] /\ b[3] = head[3] /\ b[4] = head[4]
    BY <2>4, <2>6, Zenon
  <2>8. b \in Seq(Int) /\ Len(b) = 4 + Width(p)
    BY <2>2, <2>3
  <2> QED BY <2>5, <2>7, <2>8
<1> HIDE DEF b
<1>6. Short(p) => b[5] = value[1] /\ b[6] = value[2]
  BY <1>5, Legals
<1>7. Whole(p) => b[5] = value[1] /\ b[6] = value[2] /\ b[7] = value[3] /\ b[8] = value[4]
  BY <1>5, Legals
<1>8. Block(p) => \A i \in 1 .. Len(p.value) : b[4 + i] = p.value[i]
  BY <1>2, <1>5, Legals
<1> QED BY <1>1, <1>2, <1>3, <1>4, <1>5, <1>6, <1>7, <1>8

\* What Put changes in a buffer when it stays inside.
LEMMA Putting ==
    ASSUME NEW a, NEW at \in Nat, NEW bytes, Len(bytes) \in Nat, at + Len(bytes) <= Width16
    PROVE  \A i \in Output : Put(a, at, bytes)[i] =
              IF at <= i /\ i < at + Len(bytes) THEN bytes[i - at + 1] ELSE a[i]
<1> SUFFICES ASSUME NEW i \in Output
             PROVE  Put(a, at, bytes)[i] =
                       IF at <= i /\ i < at + Len(bytes) THEN bytes[i - at + 1] ELSE a[i]
  OBVIOUS
<1> DEFINE k == (i - at) % Width16
<1>1. i \in 0 .. Width16 - 1 /\ Width16 \in Nat \ {0}
  BY Widths DEF Output
<1>2. Put(a, at, bytes)[i] = IF k < Len(bytes) THEN bytes[k + 1] ELSE a[i]
  BY DEF Put
<1>3. CASE at <= i
  <2>1. i - at \in Int /\ i - at \in 0 .. Width16 - 1
    BY <1>1, <1>3
  <2>2. k = i - at
    BY <1>1, <2>1, Wrapped
  <2> HIDE DEF k
  <2> QED BY <1>1, <1>2, <1>3, <2>2
<1>4. CASE at > i
  <2>1. i - at \in Int /\ i - at \in -Width16 .. -1
    BY <1>1, <1>4
  <2>2. k = i - at + Width16
    BY <1>1, <2>1, Wrapped
  <2> HIDE DEF k
  <2> QED BY <1>1, <1>2, <1>4, <2>2
<1> QED BY <1>1, <1>3, <1>4

\* A parameter whose bytes lie in a buffer is stored there.
LEMMA BytesAreStored ==
    ASSUME NEW p, Legal(p), NEW a, NEW at \in Nat,
           \A i \in at .. at + 3 + Width(p) :
              a[i] = package_message_parameter_template(p)[i - at + 1]
    PROVE  Stored(a, p, at)
<1> DEFINE b == package_message_parameter_template(p)
<1>1. /\ b[1] * Base + b[2] = p.type
      /\ b[3] * Base + b[4] = Width(p)
      /\ Short(p) => b[5] * Base + b[6] = p.value
      /\ Whole(p) => (b[5] * Base + b[6]) * Base * Base + (b[7] * Base + b[8]) = p.value
      /\ Block(p) => \A i \in 1 .. Len(p.value) : b[4 + i] = p.value[i]
  BY Template
<1> HIDE DEF b
<1>2. \A i \in at .. at + 3 + Width(p) : a[i] = b[i - at + 1]
  BY DEF b
<1>3. Width(p) \in Nat
  BY Legals
<1>4. a[at] = b[1] /\ a[at + 1] = b[2] /\ a[at + 2] = b[3] /\ a[at + 2 + 1] = b[4]
  BY <1>2, <1>3
<1>5. ParameterType(a, at) = p.type /\ ParameterLength(a, at) = Width(p)
  BY <1>1, <1>4 DEF ParameterType, ParameterLength, U16
<1>6. ASSUME Short(p) PROVE U16(a, at + 4) = p.value
  <2>1. a[at + 4] = b[5] /\ a[at + 4 + 1] = b[6]
    BY <1>2, <1>6, Legals
  <2> QED BY <1>1, <1>6, <2>1 DEF U16
<1>7. ASSUME Whole(p) PROVE U32(a, at + 4) = p.value
  <2>1. /\ a[at + 4] = b[5] /\ a[at + 4 + 1] = b[6]
        /\ a[at + 4 + 2] = b[7] /\ a[at + 4 + 2 + 1] = b[8]
    <3>1. Width(p) = 4
      BY <1>7, Legals
    <3> QED BY <1>2, <3>1
  <2> QED BY <1>1, <1>7, <2>1 DEF U16, U32
<1>8. ASSUME Block(p) PROVE \A i \in 1 .. Len(p.value) : a[at + 4 + i - 1] = p.value[i]
  <2>1. \A i \in 1 .. Width(p) : a[at + 4 + i - 1] = b[4 + i]
    BY <1>2, <1>3
  <2> QED BY <1>1, <1>8, <2>1, Legals
<1> QED BY <1>5, <1>6, <1>7, <1>8 DEF Stored

\* A stored parameter is stored in every buffer that holds the same bytes there.
LEMMA StoredSame ==
    ASSUME NEW p, Legal(p), NEW a, NEW b, NEW at \in Nat, Stored(a, p, at),
           \A i \in at .. at + 3 + Width(p) : a[i] = b[i]
    PROVE  Stored(b, p, at)
<1>1. Width(p) \in Nat
  BY Legals
<1>2. a[at] = b[at] /\ a[at + 1] = b[at + 1] /\ a[at + 2] = b[at + 2] /\ a[at + 2 + 1] = b[at + 2 + 1]
  BY <1>1
<1>3. ParameterType(b, at) = p.type /\ ParameterLength(b, at) = Width(p)
  BY <1>2 DEF Stored, ParameterType, ParameterLength, U16
<1>4. ASSUME Short(p) PROVE U16(b, at + 4) = p.value
  <2>1. a[at + 4] = b[at + 4] /\ a[at + 4 + 1] = b[at + 4 + 1]
    BY <1>4, Legals
  <2> QED BY <1>4, <2>1 DEF Stored, U16
<1>5. ASSUME Whole(p) PROVE U32(b, at + 4) = p.value
  <2>1. /\ a[at + 4] = b[at + 4] /\ a[at + 4 + 1] = b[at + 4 + 1]
        /\ a[at + 4 + 2] = b[at + 4 + 2] /\ a[at + 4 + 2 + 1] = b[at + 4 + 2 + 1]
    <3>1. Width(p) = 4
      BY <1>5, Legals
    <3> QED BY <3>1
  <2> QED BY <1>5, <2>1 DEF Stored, U16, U32
<1>6. ASSUME Block(p) PROVE \A i \in 1 .. Len(p.value) : b[at + 4 + i - 1] = p.value[i]
  <2>1. \A i \in 1 .. Width(p) : a[at + 4 + i - 1] = b[at + 4 + i - 1]
    BY <1>1
  <2> QED BY <1>6, <2>1, Legals DEF Stored
<1> QED BY <1>3, <1>4, <1>5, <1>6 DEF Stored

\* Where the k-th of the parameters ps starts, or the message ends.
Position(ps, k) ==
    CASE k = 1 -> 5
      [] k = 2 -> 9 + Width(ps[1])
      [] k = 3 -> 13 + Width(ps[1]) + Width(ps[2])
      [] k = 4 -> 17 + Width(ps[1]) + Width(ps[2]) + Width(ps[3])
      [] k = 5 -> 21 + Width(ps[1]) + Width(ps[2]) + Width(ps[3]) + Width(ps[4])

\* The parameters that the functions of interface.cpp put together.
LEMMA Requested ==
    ASSUME NEW r \in Requests
    PROVE  LET ps == r.parameters IN
           /\ Len(ps) \in {1, 2, 4} /\ DOMAIN ps = 1 .. Len(ps)
           /\ \A k \in 1 .. Len(ps) : Legal(ps[k])
           /\ \A j, k \in 1 .. Len(ps) : ps[j].type = ps[k].type => j = k
           /\ \A k \in 1 .. Len(ps) : Block(ps[k]) => Len(ps) = 4 /\ k = 3
           /\ Short(ps[1])
<1> DEFINE ps == r.parameters
           types == [k \in DOMAIN ps |-> ps[k].type]
           n == Len(ps)
<1> USE DEF PARAMETER_CHANNEL_ID, PARAMETER_ERROR_CODE,
            PARAMETER_BLOCK_ID, PARAMETER_CRC, PARAMETER_BLOCK_DATA
<1>1. types \in {<<1>>, <<1, 5>>, <<1, 2>>, <<1, 2, 3, 4>>} /\ Len(ps) = Len(types)
  BY InterfaceAssumption DEF Signatures
<1>2. \A k \in DOMAIN ps : InRange(ps[k])
  BY InterfaceAssumption
<1>3. DOMAIN types = DOMAIN ps /\ \A k \in DOMAIN ps : types[k] = ps[k].type
  OBVIOUS
<1> HIDE DEF types
<1>4. \/ Len(ps) = 1 /\ DOMAIN ps = 1 .. 1 /\ ps[1].type = 1
      \/ Len(ps) = 2 /\ DOMAIN ps = 1 .. 2 /\ ps[1].type = 1 /\ ps[2].type \in {2, 5}
      \/ /\ Len(ps) = 4 /\ DOMAIN ps = 1 .. 4 /\ ps[1].type = 1 /\ ps[2].type = 2
         /\ ps[3].type = 3 /\ ps[4].type = 4
  <2>1. CASE types = <<1>>
    BY <2>1, <1>1, <1>3
  <2>2. CASE types = <<1, 5>>
    BY <2>2, <1>1, <1>3
  <2>3. CASE types = <<1, 2>>
    BY <2>3, <1>1, <1>3
  <2>4. CASE types = <<1, 2, 3, 4>>
    BY <2>4, <1>1, <1>3
  <2> QED BY <1>1, <2>1, <2>2, <2>3, <2>4
<1>5. Len(ps) \in {1, 2, 4} /\ DOMAIN ps = 1 .. Len(ps)
  BY <1>4
<1> HIDE DEF ps
<1>6. \A k \in 1 .. Len(ps) : Legal(ps[k])
  <2> SUFFICES ASSUME NEW k \in DOMAIN ps PROVE Legal(ps[k])
    BY <1>5
  <2>1. ps[k].type \in {1, 2, 3, 4, 5}
    BY <1>4
  <2> QED BY <1>2, <2>1 DEF Legal, Short, Whole, Block
<1>7. \A j, k \in DOMAIN ps : ps[j].type = ps[k].type => j = k
  BY <1>4
<1>8. \A k \in DOMAIN ps : ps[k].type = 3 => Len(ps) = 4 /\ k = 3
  BY <1>4
<1>9. Short(ps[1])
  BY <1>4 DEF Short
<1> QED BY <1>5, <1>6, <1>7, <1>8, <1>9 DEF ps, Block

\* The parameters lie behind one another, and the last one ends in reach of a short.
LEMMA Positions ==
    ASSUME NEW r \in Requests
    PROVE  LET ps == r.parameters
               at(k) == Position(ps, k) IN
           /\ \A k \in 1 .. Len(ps) + 1 : at(k) \in Nat /\ at(k) >= 5 /\ at(k) <= Width16
           /\ at(1) = 5
           /\ \A k \in 1 .. Len(ps) : Width(ps[k]) \in Nat /\ at(k + 1) = at(k) + 4 + Width(ps[k])
           /\ \A j, k \in 1 .. Len(ps) + 1 : j < k => at(j) + 4 + Width(ps[j]) <= at(k)
<1> DEFINE ps == r.parameters
           n == Len(ps)
           w(k) == Width(ps[k])
<1>1. n \in {1, 2, 4}
  BY Requested
<1>2. \A k \in 1 .. n : w(k) \in Nat /\ w(k) + 31 <= Width16
  BY Requested, Legals
<1>3. \A k \in 1 .. n : w(k) <= 4 \/ (n = 4 /\ k = 3)
  BY Requested, Legals DEF Legal
<1>4. Position(ps, 1) = 5 /\ Position(ps, 2) = 9 + w(1)
  BY DEF Position
<1>5. /\ Position(ps, 3) = 13 + w(1) + w(2)
      /\ Position(ps, 4) = 17 + w(1) + w(2) + w(3)
      /\ Position(ps, 5) = 21 + w(1) + w(2) + w(3) + w(4)
  BY DEF Position
<1> HIDE DEF n, ps, w
<1>6. Width16 \in Nat /\ Width16 >= 36
  BY Widths
<1>7. CASE n = 1
  <2>1. w(1) \in Nat /\ w(1) <= 4
    BY <1>1, <1>2, <1>3, <1>7
  <2> QED BY <1>4, <1>6, <1>7, <2>1 DEF n, ps, w
<1>8. CASE n = 2
  <2>1. w(1) \in Nat /\ w(1) <= 4 /\ w(2) \in Nat /\ w(2) <= 4
    BY <1>1, <1>2, <1>3, <1>8
  <2> QED BY <1>4, <1>5, <1>6, <1>8, <2>1 DEF n, ps, w
<1>9. CASE n = 4
  <2>1. /\ w(1) \in Nat /\ w(1) <= 4 /\ w(2) \in Nat /\ w(2) <= 4
        /\ w(3) \in Nat /\ w(3) + 31 <= Width16 /\ w(4) \in Nat /\ w(4) <= 4
    BY <1>1, <1>2, <1>3, <1>9
  <2>2. \A k \in 1 .. 5 : /\ Position(ps, k) \in Nat
                          /\ Position(ps, k) >= 5 /\ Position(ps, k) <= Width16
    <3>1. 21 + w(1) + w(2) + w(3) + w(4) <= Width16
      <4>1. w(1) = 2
        BY <1>1, Requested, Legals DEF n, ps, w
      <4> QED BY <1>6, <2>1, <4>1
    <3> QED BY <1>4, <1>5, <1>6, <2>1, <3>1
  <2>3. \A k \in 1 .. 4 : w(k) \in Nat /\ Position(ps, k + 1) = Position(ps, k) + 4 + w(k)
    BY <1>4, <1>5, <2>1
  <2>4. \A j, k \in 1 .. 5 : j < k => Position(ps, j) + 4 + w(j) <= Position(ps, k)
    <3> SUFFICES ASSUME NEW j \in 1 .. 4, NEW k \in 2 .. 5, j < k
                 PROVE  Position(ps, j) + 4 + w(j) <= Position(ps, k)
      OBVIOUS
    <3>1. CASE j = 1
      BY <1>4, <1>5, <2>1, <3>1
    <3>2. CASE j = 2
      BY <1>4, <1>5, <2>1, <3>2
    <3>3. CASE j \in {3, 4}
      BY <1>4, <1>5, <2>1, <3>3
    <3> QED BY <3>1, <3>2, <3>3
  <2> QED BY <1>4, <1>9, <2>2, <2>3, <2>4 DEF n, ps, w
<1> QED BY <1>1, <1>7, <1>8, <1>9

\* The head and the first n parameters of the request r are in the buffer a.
Packed(a, r, n) ==
    /\ U16(a, 1) = r.type
    /\ U16(a, 3) = Position(r.parameters, n + 1) - MESSAGE_HEAD_LENGTH
    /\ \A k \in 1 .. n : Stored(a, r.parameters[k], Position(r.parameters, k))

\* A parameter is appended behind the others, and the length in the head follows.
LEMMA Appended ==
    ASSUME NEW r \in Requests, NEW n \in 1 .. Len(r.parameters), NEW a, Packed(a, r, n - 1)
    PROVE  Packed(package_message_parameter_content(a, r.parameters[n]), r, n)
<1> DEFINE ps == r.parameters
           p == ps[n]
           at == Position(ps, n)
           end == Position(ps, n + 1)
           bytes == package_message_parameter_template(p)
           longer == Put(a, at, bytes)
           b == Put(longer, 3, Bytes16(end - 5))
<1> USE DEF MESSAGE_HEAD_LENGTH
<1>1. Len(ps) \in {1, 2, 4} /\ \A k \in 1 .. Len(ps) : Legal(ps[k])
  BY Requested
<1>2. Len(ps) \in Nat /\ n \in 1 .. Len(ps) /\ n \in 1 .. Len(ps) + 1 /\ n + 1 \in 1 .. Len(ps) + 1
      /\ n \in Nat
  BY <1>1
<1>3. /\ at \in Nat /\ at >= 5 /\ end \in Nat /\ end <= Width16
      /\ Width(p) \in Nat /\ end = at + 4 + Width(p)
  <2>1. at \in Nat /\ at >= 5
    BY <1>2, Positions
  <2>2. end \in Nat /\ end <= Width16
    BY <1>2, Positions
  <2>3. Width(p) \in Nat /\ end = at + 4 + Width(p)
    BY <1>2, Positions
  <2> QED BY <2>1, <2>2, <2>3
<1>4. Len(bytes) = 4 + Width(p)
  BY <1>1, <1>2, Template
<1>5. /\ U16(a, 1) = r.type /\ U16(a, 3) = at - 5
      /\ \A k \in 1 .. n - 1 : Stored(a, ps[k], Position(ps, k))
  <2>1. (n - 1) + 1 = n
    BY <1>2
  <2> QED BY <2>1 DEF Packed
<1>6. Width16 \in Nat \ {0} /\ Width16 >= 36
  BY Widths
<1>7. package_message_parameter_content(a, p) = b
  <2> DEFINE length == (U16(a, 3) + MESSAGE_HEAD_LENGTH) % Width16
             size == (length + Len(bytes) - MESSAGE_HEAD_LENGTH) % Width16
  <2>1. length = at
    <3> HIDE DEF at, end
    <3>1. at \in Int /\ at \in 0 .. Width16 - 1
      BY <1>3, <1>6
    <3>2. U16(a, 3) + 5 = at
      BY <1>3, <1>5
    <3>3. at % Width16 = at
      BY <1>6, <3>1, Wrapped
    <3> QED BY <3>2, <3>3
  <2>2. size = end - 5
    <3> HIDE DEF length, bytes, end, at
    <3>1. end - 5 \in Int /\ end - 5 \in 0 .. Width16 - 1
      BY <1>3, <1>6
    <3>2. length + Len(bytes) - 5 = end - 5
      BY <1>3, <1>4, <2>1
    <3>3. (end - 5) % Width16 = end - 5
      BY <1>6, <3>1, Wrapped
    <3> QED BY <3>2, <3>3
  <2>3. package_message_parameter_content(a, p) = Put(Put(a, length, bytes), 3, Bytes16(size))
    BY DEF package_message_parameter_content
  <2> HIDE DEF length, size
  <2> QED BY <2>1, <2>2, <2>3
<1>8. \A i \in Output : longer[i] = IF at <= i /\ i < end THEN bytes[i - at + 1] ELSE a[i]
  <2> HIDE DEF bytes, at, end
  <2>1. Len(bytes) \in Nat /\ at + Len(bytes) <= Width16 /\ at + Len(bytes) = end
    BY <1>3, <1>4
  <2>2. \A i \in Output : Put(a, at, bytes)[i] =
           IF at <= i /\ i < at + Len(bytes) THEN bytes[i - at + 1] ELSE a[i]
    BY <1>3, <2>1, Putting
  <2> QED BY <2>1, <2>2
<1> DEFINE size == Bytes16(end - 5)
<1>9. Len(size) = 2 /\ size[1] * Base + size[2] = end - 5
  <2> HIDE DEF end, at
  <2>1. end - 5 \in 0 .. Width16 - 1
    BY <1>3, <1>6
  <2> QED BY <2>1, Bytes16Value
<1> HIDE DEF size
<1>10. \A i \in Output : b[i] = IF 3 <= i /\ i < 5 THEN size[i - 3 + 1] ELSE longer[i]
  <2>1. b = Put(longer, 3, size)
    BY DEF size
  <2> HIDE DEF longer, b
  <2>2. Len(size) \in Nat /\ 3 + Len(size) = 5 /\ 3 + Len(size) <= Width16 /\ 3 \in Nat
    <3>1. Len(size) = 2
      BY <1>9
    <3> QED BY <1>6, <3>1
  <2>3. \A i \in Output : Put(longer, 3, size)[i] =
           IF 3 <= i /\ i < 3 + Len(size) THEN size[i - 3 + 1] ELSE longer[i]
    BY <2>2, Putting
  <2> QED BY <2>1, <2>2, <2>3
<1>11. Output = 0 .. Width16 - 1
  BY DEF Output
<1> HIDE DEF b, longer, bytes, at, end, p
<1>12. ASSUME NEW i \in 0 .. at - 1, i < 3 \/ i >= 5 PROVE b[i] = a[i]
  <2>1. i \in Int /\ 0 <= i /\ i < at /\ at <= Width16
    BY <1>3, <1>6
  <2>2. i \in Output
    BY <1>3, <1>6, <1>11, <2>1
  <2>3. ~(at <= i) /\ ~(3 <= i /\ i < 5)
    BY <1>3, <1>12, <2>1
  <2> QED BY <1>8, <1>10, <2>2, <2>3
<1>13. ASSUME NEW i \in at .. end - 1 PROVE b[i] = bytes[i - at + 1]
  <2>1. i \in Output /\ at <= i /\ i < end /\ ~(3 <= i /\ i < 5)
    BY <1>3, <1>6, <1>11
  <2> QED BY <1>8, <1>10, <2>1
<1>14. U16(b, 1) = r.type
  <2>1. 1 \in 0 .. at - 1 /\ 1 < 3 /\ 2 \in 0 .. at - 1 /\ 2 < 3 /\ 1 + 1 = 2
    BY <1>3
  <2>2. b[1] = a[1] /\ b[1 + 1] = a[1 + 1]
    BY <1>12, <2>1
  <2> QED BY <1>5, <2>2 DEF U16
<1>15. U16(b, 3) = end - 5
  <2>1. /\ 3 \in Output /\ 3 <= 3 /\ 3 < 5 /\ 3 - 3 + 1 = 1
        /\ 4 \in Output /\ 3 <= 4 /\ 4 < 5 /\ 4 - 3 + 1 = 2 /\ 3 + 1 = 4
    BY <1>6, <1>11
  <2>2. b[3] = size[1] /\ b[3 + 1] = size[2]
    BY <1>10, <2>1
  <2> QED BY <1>9, <2>2 DEF U16
<1>16. Stored(b, p, at)
  <2>1. \A i \in at .. at + 3 + Width(p) : b[i] = bytes[i - at + 1]
    <3>1. at + 3 + Width(p) = end - 1
      BY <1>3
    <3> QED BY <1>13, <3>1
  <2>2. Legal(p)
    BY <1>1, <1>2 DEF p
  <2> QED BY <1>3, <2>1, <2>2, BytesAreStored DEF bytes
<1>17. ASSUME NEW k \in 1 .. n - 1 PROVE Stored(b, ps[k], Position(ps, k))
  <2> DEFINE here == Position(ps, k)
  <2>1. k \in 1 .. Len(ps) /\ k \in 1 .. Len(ps) + 1 /\ k < n
    BY <1>2
  <2>2. here \in Nat /\ here >= 5 /\ Width(ps[k]) \in Nat /\ here + 4 + Width(ps[k]) <= at
    <3>1. here \in Nat /\ here >= 5
      BY <2>1, Positions
    <3>2. Width(ps[k]) \in Nat
      BY <2>1, Positions
    <3>3. here + 4 + Width(ps[k]) <= at
      BY <1>2, <2>1, Positions DEF at
    <3> QED BY <3>1, <3>2, <3>3
  <2>3. Legal(ps[k]) /\ Stored(a, ps[k], here)
    BY <1>1, <1>5, <1>17, <2>1
  <2> HIDE DEF here
  <2>4. \A i \in here .. here + 3 + Width(ps[k]) : a[i] = b[i]
    <3> SUFFICES ASSUME NEW i \in here .. here + 3 + Width(ps[k]) PROVE a[i] = b[i]
      OBVIOUS
    <3>1. i \in Int /\ here <= i /\ i <= here + 3 + Width(ps[k])
      BY <2>2
    <3>2. i \in 0 .. at - 1 /\ i >= 5
      BY <1>3, <2>2, <3>1
    <3> QED BY <1>12, <3>2
  <2>5. Stored(b, ps[k], here)
    BY <2>2, <2>3, <2>4, StoredSame
  <2> QED BY <2>5 DEF here
<1>18. \A k \in 1 .. n : Stored(b, ps[k], Position(ps, k))
  BY <1>2, <1>16, <1>17 DEF p, at
<1> QED BY <1>7, <1>14, <1>15, <1>18 DEF Packed, end, p

\* package_message_head leaves a message without parameters.
LEMMA Headed ==
    ASSUME NEW r \in Requests
    PROVE  Packed(package_message_head(r.type), r, 0)
<1> DEFINE type == Bytes16(r.type)
           bytes == <<PROTOCOL_VERSION>> \o type \o <<0, 0>>
           none == [i \in Output |-> 0]
           a == Put(none, 0, bytes)
<1>1. type \in Seq(Int) /\ Len(type) = 2 /\ type[1] * Base + type[2] = r.type
  <2>1. r.type \in 0 .. Width16 - 1
    BY InterfaceAssumption
  <2> QED BY <2>1, Bytes16Value
<1> HIDE DEF type
<1>2. /\ Len(bytes) = 5 /\ bytes[2] = type[1] /\ bytes[3] = type[2]
      /\ bytes[4] = 0 /\ bytes[5] = 0
  <2> DEFINE first == <<PROTOCOL_VERSION>>
             last == <<0, 0>>
             both == first \o type
  <2>1. first \in Seq(Int) /\ Len(first) = 1
    BY DEF PROTOCOL_VERSION
  <2>2. last \in Seq(Int) /\ Len(last) = 2 /\ last[1] = 0 /\ last[2] = 0
    OBVIOUS
  <2> HIDE DEF first, last
  <2>3. both \in Seq(Int) /\ Len(both) = 3 /\ both[2] = type[1] /\ both[3] = type[2]
    <3>1. /\ first \o type \in Seq(Int) /\ Len(first \o type) = Len(first) + Len(type)
          /\ \A i \in 1 .. Len(first) + Len(type) :
                (first \o type)[i] = IF i <= Len(first) THEN first[i] ELSE type[i - Len(first)]
      BY <1>1, <2>1, ConcatProperties
    <3> QED BY <1>1, <2>1, <3>1
  <2> HIDE DEF both
  <2>4. /\ both \o last \in Seq(Int) /\ Len(both \o last) = Len(both) + Len(last)
        /\ \A i \in 1 .. Len(both) + Len(last) :
              (both \o last)[i] = IF i <= Len(both) THEN both[i] ELSE last[i - Len(both)]
    BY <2>2, <2>3, ConcatProperties
  <2>5. bytes = both \o last
    BY DEF both, first, last
  <2> HIDE DEF bytes
  <2>6. \A i \in 1 .. 3 : (both \o last)[i] = both[i]
    BY <2>2, <2>3, <2>4
  <2>7. (both \o last)[4] = 0 /\ (both \o last)[5] = 0
    BY <2>2, <2>3, <2>4
  <2> QED BY <2>2, <2>3, <2>4, <2>5, <2>6, <2>7
<1>3. package_message_head(r.type) = a
  BY DEF package_message_head, type
<1> HIDE DEF bytes, none
<1>4. \A i \in 0 .. 4 : a[i] = bytes[i + 1]
  <2>1. 0 \in Nat /\ Len(bytes) \in Nat /\ 0 + Len(bytes) <= Width16
    BY <1>2, Widths
  <2>2. \A i \in Output : Put(none, 0, bytes)[i] =
           IF 0 <= i /\ i < 0 + Len(bytes) THEN bytes[i - 0 + 1] ELSE none[i]
    BY <2>1, Putting
  <2>3. 0 .. 4 \subseteq Output
    BY Widths DEF Output
  <2> QED BY <1>2, <2>2, <2>3
<1> HIDE DEF a
<1>5. a[1] = type[1] /\ a[1 + 1] = type[2] /\ a[3] = 0 /\ a[3 + 1] = 0
  BY <1>2, <1>4
<1>6. U16(a, 1) = r.type /\ U16(a, 3) = 0
  BY <1>1, <1>5, Widths DEF U16
<1>7. Position(r.parameters, 0 + 1) - MESSAGE_HEAD_LENGTH = 0
  BY Positions DEF MESSAGE_HEAD_LENGTH
<1> QED BY <1>3, <1>6, <1>7 DEF Packed

\* The bytes of a packaged message, and the buffer they come from.
LEMMA Packaged ==
    ASSUME NEW r \in Requests
    PROVE  LET end == Position(r.parameters, Len(r.parameters) + 1) IN
           \E a : /\ Packed(a, r, Len(r.parameters))
                  /\ package_message_common(r) = [i \in 1 .. end |-> a[i - 1]]
<1> DEFINE p == r.parameters
           n == Len(p)
           end == Position(p, n + 1)
           none == package_message_head(r.type)
           one == package_message_parameter_content(none, p[1])
           two == package_message_parameter_content(one, p[2])
           three == package_message_parameter_content(two, p[3])
           four == package_message_parameter_content(three, p[4])
           buffer == CASE n = 1 -> one [] n = 2 -> two [] n = 4 -> four
<1>1. n \in {1, 2, 4}
  BY Requested
<1>2. Packed(none, r, 0)
  BY Headed
<1>3. package_message_common(r) =
         [i \in 1 .. MESSAGE_HEAD_LENGTH + U16(buffer, 3) |-> buffer[i - 1]]
  BY DEF package_message_common, package_message_1, package_message_2, package_message_4
<1> HIDE DEF none
<1>4. Packed(one, r, 1)
  <2>1. 1 \in 1 .. n /\ 1 - 1 = 0
    <3> HIDE DEF n
    <3> QED BY <1>1
  <2> QED BY <1>2, <2>1, Appended
<1> HIDE DEF one
<1>5. n # 1 => Packed(two, r, 2)
  <2> SUFFICES ASSUME n # 1 PROVE Packed(two, r, 2)
    OBVIOUS
  <2>1. 2 \in 1 .. n /\ 2 - 1 = 1
    <3> HIDE DEF n
    <3> QED BY <1>1
  <2> QED BY <1>4, <2>1, Appended
<1> HIDE DEF two
<1>6. n = 4 => Packed(four, r, 4)
  <2> SUFFICES ASSUME n = 4 PROVE Packed(four, r, 4)
    OBVIOUS
  <2>1. 3 \in 1 .. n /\ 3 - 1 = 2 /\ 4 \in 1 .. n /\ 4 - 1 = 3
    OBVIOUS
  <2>2. Packed(three, r, 3)
    BY <1>5, <2>1, Appended
  <2> HIDE DEF three
  <2> QED BY <2>1, <2>2, Appended
<1> HIDE DEF three, four
<1>7. Packed(buffer, r, n)
  <2>1. CASE n = 1
    BY <1>4, <2>1
  <2>2. CASE n = 2
    BY <1>5, <2>2
  <2>3. CASE n = 4
    BY <1>6, <2>3
  <2> QED BY <1>1, <2>1, <2>2, <2>3
<1> HIDE DEF buffer
<1>8. end \in Nat
  <2>1. n + 1 \in 1 .. n + 1
    BY <1>1
  <2> QED BY <2>1, Positions
<1>9. MESSAGE_HEAD_LENGTH + U16(buffer, 3) = end
  BY <1>7, <1>8 DEF Packed, MESSAGE_HEAD_LENGTH
<1> QED BY <1>3, <1>7, <1>9

\* What a buffer holds when a packaged message has been copied into it.
LEMMA Held ==
    ASSUME NEW r \in Requests, NEW w, w = package_message_common(r),
           NEW b, \A i \in 0 .. Len(w) - 1 : b[i] = w[i + 1]
    PROVE  LET ps == r.parameters IN
           /\ Len(w) = Position(ps, Len(ps) + 1)
           /\ Announced(w) = Len(w) - 5 /\ w[2] * Base + w[3] = r.type
           /\ \A k \in 1 .. Len(ps) : Stored(b, ps[k], Position(ps, k))
<1> DEFINE ps == r.parameters
           n == Len(ps)
           end == Position(ps, n + 1)
<1>1. PICK a : Packed(a, r, n) /\ w = [i \in 1 .. end |-> a[i - 1]]
  BY Packaged
<1>2. n \in Nat /\ \A k \in 1 .. n : Legal(ps[k])
  <2>1. n \in {1, 2, 4} /\ \A k \in 1 .. n : Legal(ps[k])
    BY Requested
  <2> HIDE DEF n
  <2> QED BY <2>1
<1>3. end \in Nat /\ end >= 5
  <2>1. n + 1 \in 1 .. n + 1
    BY <1>2
  <2> QED BY <2>1, Positions
<1> HIDE DEF end
<1>4. Len(w) = end /\ \A i \in 1 .. end : w[i] = a[i - 1]
  BY <1>1, <1>3
<1>5. \A i \in 0 .. end - 1 : b[i] = a[i]
  BY <1>3, <1>4
<1>6. Announced(w) = Len(w) - 5
  <2>1. w[4] = a[3] /\ w[5] = a[3 + 1]
    BY <1>3, <1>4
  <2>2. U16(a, 3) = end - 5
    BY <1>1 DEF Packed, end, MESSAGE_HEAD_LENGTH
  <2> QED BY <1>4, <2>1, <2>2 DEF Announced, U16
<1>7. w[2] * Base + w[3] = r.type
  <2>1. w[2] = a[1] /\ w[3] = a[1 + 1]
    BY <1>3, <1>4
  <2> QED BY <1>1, <2>1 DEF Packed, U16
<1>8. ASSUME NEW k \in 1 .. n PROVE Stored(b, ps[k], Position(ps, k))
  <2> DEFINE at == Position(ps, k)
  <2>1. /\ k \in 1 .. n + 1 /\ n + 1 \in 1 .. n + 1 /\ k < n + 1
    BY <1>2
  <2>2. at \in Nat /\ Width(ps[k]) \in Nat
    BY <2>1, Positions
  <2>3. at + 4 + Width(ps[k]) <= end
    BY <2>1, Positions DEF end
  <2>4. Stored(a, ps[k], at) /\ Legal(ps[k])
    BY <1>1, <1>2 DEF Packed
  <2> HIDE DEF at
  <2>5. \A i \in at .. at + 3 + Width(ps[k]) : a[i] = b[i]
    BY <1>3, <1>5, <2>2, <2>3
  <2>6. Stored(b, ps[k], at)
    BY <2>2, <2>4, <2>5, StoredSame
  <2> QED BY <2>6 DEF at
<1> QED BY <1>4, <1>6, <1>7, <1>8 DEF end
-----------------------------------------------------------------------------
(***************************************************************************)
(* Parsing what was packaged.  Follows is the invariant: the positions that *)
(* the loop records are those at which the parameters were packaged, it     *)
(* does not stop before the last of them and does not go on behind it, and  *)
(* no packaged message is refused but for its length.                       *)
(***************************************************************************)
\* The type that has been read is that of the message.
TypeRead ==
    pc \in {"body", "loop", "parsed"} => message_type = wire[2] * Base + wire[3]

FollowsAt(r) ==
    LET ps == r.parameters IN
    /\ pc = "loop" => Len(parameter_positions) <= Len(ps)
    /\ pc = "parsed" => Len(parameter_positions) = Len(ps) + 1
    /\ pc \in {"loop", "parsed"} =>
          \A k \in 1 .. Len(parameter_positions) : parameter_positions[k] = Position(ps, k)
    /\ pc = "closed" => ~Fits(Announced(wire))
Follows == \A r \in Requests : package_message_common(r) = wire => FollowsAt(r)

\* The type is read from bytes that have arrived.
LEMMA TypeReadStep == IInv /\ IInv' /\ TypeRead /\ [Next]_vars => TypeRead'
<1> SUFFICES ASSUME IInv, IInv', TypeRead, [Next]_vars PROVE TypeRead'
  OBVIOUS
<1>1. CASE ReadHead \/ ReadBody
  <2>1. message_type' = U16(input_buffer', 1)
    BY <1>1 DEF ReadHead, ReadBody, parse_message_head
  <2>2. SUFFICES ASSUME pc' \in {"body", "loop", "parsed"}
                 PROVE  message_type' = wire'[2] * Base + wire'[3]
    BY DEF TypeRead
  <2>3. \A i \in 0 .. 4 : input_buffer'[i] = wire'[i + 1]
    BY <2>2 DEF IInv, Arrived, Holds, MESSAGE_HEAD_LENGTH
  <2>4. input_buffer'[1] = wire'[2] /\ input_buffer'[1 + 1] = wire'[3]
    BY <2>3
  <2> QED BY <2>1, <2>4 DEF U16
<1>2. CASE ReadParameter
  BY <1>2 DEF TypeRead, ReadParameter
<1>3. CASE NextMessage
  BY <1>3 DEF TypeRead, NextMessage
<1>4. CASE UNCHANGED vars
  BY <1>4 DEF TypeRead, vars
<1> QED BY <1>1, <1>2, <1>3, <1>4 DEF Next

\* Only a message that is too long is refused with its head.
LEMMA ReadHeadCloses ==
    ASSUME IInv, ReadHead, pc' = "closed"
    PROVE  ~Fits(Announced(wire))
<1>1. wire \in Seq(Byte) /\ Len(wire) \in Nat /\ Len(wire) >= 5
  BY WireLength DEF IInv, TypeOK
<1>2. /\ input_buffer \in [0 .. InputSize - 1 -> Byte] /\ InputSize \in Nat
      /\ InputSize > 5
  BY CommonMessageAssumption DEF IInv, TypeOK, Input, MESSAGE_HEAD_LENGTH, PARAMETER_HEAD_LENGTH
<1>3. \A i \in 0 .. InputSize - 1 : Overlay(input_buffer, wire, 0, 5)[i] =
         IF 0 <= i /\ i < 5 THEN wire[i + 1] ELSE input_buffer[i]
  BY <1>1, <1>2, OverlayType
<1>4. input_buffer' = Overlay(input_buffer, wire, 0, 5)
  BY DEF ReadHead, MESSAGE_HEAD_LENGTH
<1>5. input_buffer'[3] = wire[4] /\ input_buffer'[3 + 1] = wire[5]
  BY <1>2, <1>3, <1>4
<1>6. U16(input_buffer', 3) = Announced(wire)
  BY <1>5 DEF U16, Announced
<1> QED BY <1>6 DEF ReadHead, parse_message_head

\* A round of the loop moves on by one parameter, and the last one ends the message.
LEMMA ReadParameterFollows ==
    ASSUME IInv, ReadParameter, NEW r \in Requests, package_message_common(r) = wire,
           FollowsAt(r)
    PROVE  FollowsAt(r)'
<1> DEFINE ps == r.parameters
           n == Len(ps)
           m == Len(parameter_positions)
           end == Position(ps, n + 1)
           next == Position(ps, m + 1)
<1>1. /\ pc = "loop" /\ wire \in Wire /\ wire' = wire
      /\ byte_count' = byte_count + unpack_parameter(input_buffer, byte_count)
      /\ parameter_positions' = Append(parameter_positions, byte_count')
      /\ parse_message /\ message_body_length' = message_body_length
  BY DEF IInv, TypeOK, ReadParameter
<1>2. /\ wire \in Seq(Byte) /\ Len(wire) \in Nat
      /\ Fits(Announced(wire)) => Len(wire) = 5 + Announced(wire)
  BY <1>1, WireLength
<1>3. /\ message_body_length = Announced(wire)
      /\ \A i \in 0 .. Len(wire) - 1 : input_buffer[i] = wire[i + 1]
  BY <1>1 DEF IInv, Arrived, Holds
<1>4. /\ Len(wire) = end /\ Announced(wire) = Len(wire) - 5
      /\ \A k \in 1 .. n : Stored(input_buffer, ps[k], Position(ps, k))
  BY <1>3, Held
<1>5. parameter_positions \in Seq(Nat) /\ m \in Nat /\ m >= 1 /\ byte_count = parameter_positions[m]
  BY <1>1 DEF IInv, TypeOK, Walked, Chain
<1>6. /\ m <= n /\ n \in {1, 2, 4}
      /\ \A k \in 1 .. m : parameter_positions[k] = Position(ps, k)
  BY <1>1, Requested DEF FollowsAt
<1>7. n \in Nat /\ m \in 1 .. n /\ m + 1 \in 1 .. n + 1 /\ n + 1 \in 1 .. n + 1 /\ m \in 1 .. n + 1
  <2> HIDE DEF n, m
  <2> QED BY <1>5, <1>6
<1>8. byte_count = Position(ps, m)
  BY <1>5, <1>6
<1>9. byte_count' = next
  <2>1. Position(ps, m) \in Nat /\ Width(ps[m]) \in Nat /\ next = Position(ps, m) + 4 + Width(ps[m])
    <3>1. Position(ps, m) \in Nat
      BY <1>7, Positions
    <3>2. Width(ps[m]) \in Nat /\ next = Position(ps, m) + 4 + Width(ps[m])
      BY <1>7, Positions
    <3> QED BY <3>1, <3>2
  <2>2. ParameterLength(input_buffer, byte_count) = Width(ps[m])
    BY <1>4, <1>7, <1>8 DEF Stored
  <2> HIDE DEF next
  <2> QED BY <1>1, <1>8, <2>1, <2>2 DEF unpack_parameter, PARAMETER_HEAD_LENGTH
<1>10. next \in Nat /\ next >= 5 /\ end \in Nat /\ end >= 5
  BY <1>7, Positions
<1>11. m < n => next < end
  <2> SUFFICES ASSUME m < n PROVE next < end
    OBVIOUS
  <2>1. m + 1 \in 1 .. n /\ m + 1 < n + 1
    <3> HIDE DEF m, n
    <3> QED BY <1>5, <1>7
  <2>2. next + 4 + Width(ps[m + 1]) <= end
    BY <1>7, <2>1, Positions
  <2>3. Width(ps[m + 1]) \in Nat
    BY <2>1, Positions
  <2> HIDE DEF next, end
  <2> QED BY <1>10, <2>2, <2>3
<1>12. m = n => next = end
  OBVIOUS
<1>13. /\ Len(parameter_positions') = m + 1
       /\ \A k \in 1 .. m + 1 : parameter_positions'[k] = Position(ps, k)
  <2>1. /\ Len(parameter_positions') = m + 1 /\ parameter_positions'[m + 1] = byte_count'
        /\ \A k \in 1 .. m : parameter_positions'[k] = parameter_positions[k]
    <3>1. byte_count' \in Nat
      BY <1>9, <1>10
    <3> QED BY <1>1, <1>5, <3>1, AppendProperties
  <2> HIDE DEF m
  <2>2. ASSUME NEW k \in 1 .. m + 1 PROVE parameter_positions'[k] = Position(ps, k)
    <3>1. CASE k = m + 1
      BY <1>9, <2>1, <3>1
    <3>2. CASE k \in 1 .. m
      BY <1>6, <2>1, <3>2
    <3> QED BY <1>5, <2>2, <3>1, <3>2
  <2> QED BY <2>1, <2>2
<1> HIDE DEF next, end, m
<1>14. \/ message_body_length > byte_count' - 5 /\ pc' = "loop"
       \/ message_body_length < byte_count' - 5 /\ pc' = "closed"
       \/ message_body_length = byte_count' - 5 /\ pc' = "parsed"
  BY <1>1 DEF parse_message, MESSAGE_HEAD_LENGTH
<1>15. CASE m < n
  <2>1. pc' = "loop"
    BY <1>3, <1>4, <1>9, <1>10, <1>11, <1>14, <1>15
  <2>2. m + 1 <= n
    <3> HIDE DEF n
    <3> QED BY <1>5, <1>7, <1>15
  <2> QED BY <1>13, <2>1, <2>2 DEF FollowsAt
<1>16. CASE m = n
  <2>1. pc' = "parsed"
    BY <1>3, <1>4, <1>9, <1>10, <1>12, <1>14, <1>16
  <2> QED BY <1>13, <1>16, <2>1 DEF FollowsAt
<1>17. m < n \/ m = n
  <2> HIDE DEF n
  <2> QED BY <1>5, <1>7
<1> QED BY <1>15, <1>16, <1>17

\* Every step keeps the positions on the parameters.
LEMMA FollowsStep == IInv /\ Follows /\ [Next]_vars => Follows'
<1> SUFFICES ASSUME IInv, Follows, [Next]_vars, NEW r \in Requests,
                    package_message_common(r) = wire'
             PROVE  FollowsAt(r)'
  BY DEF Follows
<1>1. CASE ReadHead
  <2>1. wire' = wire /\ pc' \in {"body", "closed"}
    BY <1>1 DEF ReadHead, parse_message_head
  <2>2. pc' = "closed" => ~Fits(Announced(wire))
    BY <1>1, ReadHeadCloses
  <2> QED BY <2>1, <2>2 DEF FollowsAt
<1>2. CASE ReadBody
  <2>1. pc' = "loop" /\ parameter_positions' = <<5>>
    BY <1>2 DEF ReadBody, MESSAGE_HEAD_LENGTH
  <2>2. Len(parameter_positions') = 1 /\ parameter_positions'[1] = 5
    BY <2>1
  <2>3. Position(r.parameters, 1) = 5
    BY DEF Position
  <2> DEFINE n == Len(r.parameters)
  <2>4. n \in {1, 2, 4}
    BY Requested
  <2>5. n >= 1
    <3> HIDE DEF n
    <3> QED BY <2>4
  <2> QED BY <2>1, <2>2, <2>3, <2>5 DEF FollowsAt
<1>3. CASE ReadParameter
  <2>1. wire' = wire
    BY <1>3 DEF ReadParameter
  <2>2. FollowsAt(r)
    BY <2>1 DEF Follows
  <2> QED BY <1>3, <2>1, <2>2, ReadParameterFollows
<1>4. CASE NextMessage
  BY <1>4 DEF FollowsAt, NextMessage
<1>5. CASE UNCHANGED vars
  <2>1. FollowsAt(r)
    BY <1>5 DEF Follows, vars
  <2> QED BY <1>5, <2>1 DEF FollowsAt, vars
<1> QED BY <1>1, <1>2, <1>3, <1>4, <1>5 DEF Next

\* The parser follows every message that was packaged.
THEOREM PackagingInvariant == Spec => [](IInv /\ TypeRead /\ Follows)
<1>1. Init => TypeRead /\ Follows
  BY DEF Init, TypeRead, Follows, FollowsAt
<1> QED BY <1>1, Invariance, TypeReadStep, FollowsStep, PTL DEF Spec

\* A client's message is refused only when it is too long as a whole.
THEOREM OnlyLongIsRefused == Spec => []PackagedIsAccepted
<1>1. Follows => PackagedIsAccepted
  BY DEF Follows, FollowsAt, PackagedIsAccepted
<1> QED BY <1>1, PackagingInvariant, PTL
-----------------------------------------------------------------------------
(***************************************************************************)
(* What the getters find.                                                  *)
(***************************************************************************)

\* The first parameter of a type that occurs only once is that parameter.
LEMMA FirstIs ==
    ASSUME NEW type, NEW k \in Matches(type), Matches(type) \subseteq Nat,
           \A j \in Matches(type) : k <= j
    PROVE  First(type) = k
<1>1. First(type) \in Matches(type) /\ \A j \in Matches(type) : First(type) <= j
  BY DEF First
<1> QED BY <1>1

\* Each type has its getter.
LEMMA Gots ==
    /\ Got(PARAMETER_CHANNEL_ID) = get_channel_id
    /\ Got(PARAMETER_BLOCK_ID) = get_block_id
    /\ Got(PARAMETER_BLOCK_DATA) = get_block_data
    /\ Got(PARAMETER_CRC) = get_crc
    /\ Got(PARAMETER_ERROR_CODE) = get_error_code
BY DEF Got, PARAMETER_CHANNEL_ID, PARAMETER_BLOCK_ID, PARAMETER_BLOCK_DATA,
   PARAMETER_CRC, PARAMETER_ERROR_CODE

\* The getter of a parameter's type gives its value, or nothing if it is too long.
LEMMA GettersFind ==
    ASSUME IInv, Follows, pc = "parsed",
           NEW r \in Requests, package_message_common(r) = wire,
           NEW k \in DOMAIN r.parameters
    PROVE  LET p == r.parameters[k] IN
           Got(p.type) = IF Width(p) > MAX_PARAMETER_LENGTH THEN NotFound
                         ELSE <<TRUE, p.value>>
<1> DEFINE ps == r.parameters
           n == Len(ps)
           p == ps[k]
           at == Position(ps, k)
<1>1. /\ n \in {1, 2, 4} /\ DOMAIN ps = 1 .. n
      /\ \A j \in 1 .. n : Legal(ps[j])
      /\ \A i, j \in 1 .. n : ps[i].type = ps[j].type => i = j
      /\ \A j \in 1 .. n : Block(ps[j]) => j = 3
  BY Requested
<1>2. n \in Nat /\ k \in 1 .. n /\ k \in Nat /\ Legal(p)
  <2> HIDE DEF n
  <2>1. n \in Nat /\ k \in 1 .. n
    BY <1>1
  <2> QED BY <1>1, <2>1
<1>3. \A i \in 0 .. Len(wire) - 1 : message_data[i] = wire[i + 1]
  BY DEF IInv, Arrived, Holds
<1>4. \A j \in 1 .. n : Stored(message_data, ps[j], Position(ps, j))
  BY <1>3, Held
<1>5. /\ Len(parameter_positions) = n + 1 /\ parameter_positions \in Seq(Nat)
      /\ \A j \in 1 .. n + 1 : parameter_positions[j] = Position(ps, j)
  <2>1. FollowsAt(r)
    BY DEF Follows
  <2> QED BY <2>1 DEF FollowsAt, IInv, TypeOK
<1>6. DOMAIN parameter_positions = 1 .. n + 1
  BY <1>5
<1>7. \A j \in 1 .. n : /\ ParameterType(message_data, parameter_positions[j]) = ps[j].type
                        /\ ParameterLength(message_data, parameter_positions[j]) = Width(ps[j])
  <2> SUFFICES ASSUME NEW j \in 1 .. n
               PROVE  /\ ParameterType(message_data, parameter_positions[j]) = ps[j].type
                      /\ ParameterLength(message_data, parameter_positions[j]) = Width(ps[j])
    OBVIOUS
  <2>1. parameter_positions[j] = Position(ps, j)
    <3> HIDE DEF n
    <3> QED BY <1>2, <1>5
  <2>2. Stored(message_data, ps[j], Position(ps, j))
    BY <1>4
  <2> QED BY <2>1, <2>2 DEF Stored
<1>8. at \in Nat /\ at >= 5 /\ parameter_positions[k] = at
  <2>1. k \in 1 .. n + 1
    <3> HIDE DEF n
    <3> QED BY <1>2
  <2>2. at \in Nat /\ at >= 5
    BY <2>1, Positions
  <2> QED BY <1>5, <2>1, <2>2
<1>9. /\ k \in Matches(p.type) /\ Matches(p.type) \subseteq Nat
      /\ \A j \in Matches(p.type) : k <= j
  <2> DEFINE type == p.type
  <2>1. Matches(type) = {j \in 1 .. n + 1 :
                            ParameterType(message_data, parameter_positions[j]) = type}
    BY <1>6 DEF Matches
  <2>2. \A j \in 1 .. n : ps[j].type = type => j = k
    BY <1>1, <1>2
  <2>3. ps[k].type = type
    OBVIOUS
  <2> HIDE DEF type, n, ps
  <2>4. k \in Matches(type)
    BY <1>2, <1>7, <2>1, <2>3
  <2>5. ASSUME NEW j \in Matches(type) PROVE j \in Nat /\ k <= j
    <3>1. j \in 1 .. n + 1 /\ ParameterType(message_data, parameter_positions[j]) = type
      BY <2>1, <2>5
    <3>2. CASE j \in 1 .. n
      <4>1. ps[j].type = type
        BY <1>7, <3>1, <3>2
      <4> QED BY <1>2, <2>2, <3>2, <4>1
    <3>3. CASE j = n + 1
      BY <1>2, <3>3
    <3> QED BY <1>2, <3>1, <3>2, <3>3
  <2>6. Matches(type) \subseteq Nat /\ \A j \in Matches(type) : k <= j
    BY <2>5
  <2> QED BY <2>4, <2>6 DEF type
<1>10. First(p.type) = k
  BY <1>9, FirstIs
<1>11. get_parameter_value(p.type) = at + 4
  BY <1>8, <1>9, <1>10 DEF get_parameter_value, PARAMETER_HEAD_LENGTH
<1>12. Stored(message_data, p, at)
  BY <1>2, <1>4
<1>13. MAX_PARAMETER_LENGTH \in Nat /\ MAX_PARAMETER_LENGTH >= 4
  BY CommonMessageAssumption, InterfaceAssumption
<1> HIDE DEF at, n
<1>14. CASE Short(p)
  <2>1. Width(p) = 2 /\ U16(message_data, at + 4) = p.value
    BY <1>2, <1>12, <1>14, Legals DEF Stored
  <2>2. ShortAt(get_parameter_value(p.type)) = <<TRUE, p.value>>
    <3>1. at + 4 # 0
      BY <1>8
    <3>2. ShortAt(at + 4) = <<TRUE, p.value>>
      BY <2>1, <3>1, Zenon DEF ShortAt
    <3> QED BY <1>11, <3>2
  <2>3. Got(p.type) = ShortAt(get_parameter_value(p.type))
    <3>1. CASE p.type = PARAMETER_CHANNEL_ID
      <4>1. Got(PARAMETER_CHANNEL_ID) = ShortAt(get_parameter_value(PARAMETER_CHANNEL_ID))
        BY Gots DEF get_channel_id
      <4> QED BY <3>1, <4>1
    <3>2. CASE p.type = PARAMETER_ERROR_CODE
      <4>1. Got(PARAMETER_ERROR_CODE) = ShortAt(get_parameter_value(PARAMETER_ERROR_CODE))
        BY Gots DEF get_error_code
      <4> QED BY <3>2, <4>1
    <3> QED BY <1>14, <3>1, <3>2 DEF Short
  <2>4. ~(Width(p) > MAX_PARAMETER_LENGTH)
    BY <1>13, <2>1
  <2> QED BY <2>2, <2>3, <2>4
<1>15. CASE Whole(p)
  <2>1. Width(p) = 4 /\ U32(message_data, at + 4) = p.value
    BY <1>2, <1>12, <1>15, Legals DEF Stored
  <2>2. IntAt(get_parameter_value(p.type)) = <<TRUE, p.value>>
    <3>1. at + 4 # 0
      BY <1>8
    <3>2. IntAt(at + 4) = <<TRUE, p.value>>
      BY <2>1, <3>1, Zenon DEF IntAt
    <3> QED BY <1>11, <3>2
  <2>3. Got(p.type) = IntAt(get_parameter_value(p.type))
    <3>1. CASE p.type = PARAMETER_BLOCK_ID
      <4>1. Got(PARAMETER_BLOCK_ID) = IntAt(get_parameter_value(PARAMETER_BLOCK_ID))
        BY Gots DEF get_block_id
      <4> QED BY <3>1, <4>1
    <3>2. CASE p.type = PARAMETER_CRC
      <4>1. Got(PARAMETER_CRC) = IntAt(get_parameter_value(PARAMETER_CRC))
        BY Gots DEF get_crc
      <4> QED BY <3>2, <4>1
    <3> QED BY <1>15, <3>1, <3>2 DEF Whole
  <2>4. ~(Width(p) > MAX_PARAMETER_LENGTH)
    BY <1>13, <2>1
  <2> QED BY <2>2, <2>3, <2>4
<1>16. CASE Block(p)
  <2> DEFINE size == Len(p.value)
             found == get_parameter_content(p.type)
             data == [i \in 1 .. size |-> message_data[at + 4 + i - 1]]
  <2>1. Width(p) = size /\ p.value \in Seq(Byte) /\ size \in Nat
    BY <1>2, <1>16, Legals
  <2>2. data = p.value
    <3>1. \A i \in 1 .. size : message_data[at + 4 + i - 1] = p.value[i]
      BY <1>12, <1>16 DEF Stored
    <3>2. p.value = [i \in 1 .. size |-> p.value[i]]
      BY <2>1
    <3> QED BY <3>1, <3>2
  <2>3. Got(p.type) = get_block_data /\ p.type = PARAMETER_BLOCK_DATA
    BY <1>16, Gots DEF Block
  <2>4. ParameterLength(message_data, at) = size
    BY <1>12, <2>1 DEF Stored
  <2>5. found = IF size > MAX_PARAMETER_LENGTH THEN 0 ELSE at + 4
    <3>1. \A j \in 1 .. n + 1 : j < k =>
             ~(ParameterLength(message_data, parameter_positions[j]) > MAX_PARAMETER_LENGTH)
      <4> SUFFICES ASSUME NEW j \in 1 .. n, j < k
                   PROVE  ~(Width(ps[j]) > MAX_PARAMETER_LENGTH)
        BY <1>2, <1>7
      <4>1. ~Block(ps[j]) /\ Legal(ps[j])
        BY <1>1, <1>2, <1>16
      <4>2. Width(ps[j]) \in {2, 4}
        BY <4>1, Legals DEF Legal
      <4> QED BY <1>13, <4>2
    <3>2. ParameterLength(message_data, parameter_positions[k]) = size
      BY <1>8, <2>4
    <3>3. (\E j \in 1 .. n + 1 :
              /\ ParameterLength(message_data, parameter_positions[j]) > MAX_PARAMETER_LENGTH
              /\ j <= k) <=> size > MAX_PARAMETER_LENGTH
      BY <1>2, <3>1, <3>2
    <3>4. Matches(p.type) # {}
      BY <1>9
    <3>5. Len(parameter_positions) = n + 1
      BY <1>5 DEF n
    <3> QED BY <1>10, <1>11, <3>3, <3>4, <3>5 DEF get_parameter_content
  <2>6. CASE size > MAX_PARAMETER_LENGTH
    <3>1. get_block_data = NotFound
      BY <2>3, <2>5, <2>6 DEF get_block_data
    <3> QED BY <2>1, <2>3, <2>6, <3>1
  <2>7. CASE ~(size > MAX_PARAMETER_LENGTH)
    <3>1. found = at + 4 /\ at + 4 # 0 /\ (at + 4) - PARAMETER_HEAD_LENGTH = at
      BY <1>8, <2>5, <2>7 DEF PARAMETER_HEAD_LENGTH
    <3>2. get_block_data = <<TRUE, data>>
      BY <2>3, <2>4, <3>1, Zenon DEF get_block_data
    <3> QED BY <2>1, <2>2, <2>3, <2>7, <3>2
  <2> QED BY <2>6, <2>7
<1> QED BY <1>2, <1>14, <1>15, <1>16 DEF Legal

(* What one side packages the other reads back, after whatever messages     *)
(* came before; only a block above MAX_PARAMETER_LENGTH is not found.       *)
THEOREM ReadBack == Spec => []RoundTrip
<1>1. IInv /\ TypeRead /\ Follows => RoundTrip
  <2> SUFFICES ASSUME IInv, TypeRead, Follows, pc = "parsed",
                      NEW r \in Requests, package_message_common(r) = wire
               PROVE  /\ message_type = r.type
                      /\ \A k \in DOMAIN r.parameters :
                            LET p == r.parameters[k] IN
                            Got(p.type) = IF Width(p) > MAX_PARAMETER_LENGTH THEN NotFound
                                          ELSE <<TRUE, p.value>>
    BY DEF RoundTrip
  <2>1. \A i \in 0 .. Len(wire) - 1 : message_data[i] = wire[i + 1]
    BY DEF IInv, Arrived, Holds
  <2>2. message_type = r.type
    BY <2>1, Held DEF TypeRead
  <2> QED BY <2>2, GettersFind
<1> QED BY <1>1, PackagingInvariant, PTL
=============================================================================
