------------------------------ MODULE CrcProofs ------------------------------
(***************************************************************************)
(* Proofs about Crc, for blocks of every size: crc32 is the remainder of   *)
(* the division by the polynomial, an undamaged block is accepted, and one *)
(* damaged within 32 neighbouring bits, or in two bits, is refused.        *)
(***************************************************************************)
EXTENDS Crc, SequenceTheorems, WellFoundedInduction, TLAPS

Register == SUBSET (0..31)
Octet == SUBSET (0..7)

(***************************************************************************)
(* Induction, and what a loop computes.                                    *)
(***************************************************************************)

\* A set of naturals that holds 0 and the successors of its members holds all.
LEMMA Induction ==
    ASSUME NEW P, 0 \in P, \A n \in Nat : n \in P => n + 1 \in P
    PROVE  Nat \subseteq P
<1> DEFINE less == OpToRel(<, Nat)
           others == Nat \ P
<1>1. IsWellFoundedOn(less, Nat)
  BY NatLessThanWellFounded
<1>2. \A x, y \in Nat : <<x, y>> \in less <=> x < y
  BY DEF OpToRel
<1> HIDE DEF less
<1>3. SUFFICES ASSUME others # {} PROVE FALSE
  OBVIOUS
<1>4. others \subseteq Nat
  OBVIOUS
<1> HIDE DEF others
<1>5. PICK x \in others : \A y \in others : ~(<<y, x>> \in less)
  BY <1>1, <1>3, <1>4, WFMin
<1>6. x \in Nat /\ x # 0 /\ x - 1 \in Nat /\ x - 1 < x
  BY <1>5 DEF others
<1>7. x - 1 \notin others
  BY <1>2, <1>4, <1>5, <1>6
<1> QED BY <1>5, <1>6, <1>7 DEF others

\* The rounds of a loop of n rounds over a set of values, and its trace.
Rounds(n, S) == [1..n -> [S -> S]]
Trace(g, n, S, first, F) ==
    /\ g \in [0..n -> S]
    /\ g[0] = first
    /\ \A i \in 1..n : g[i] = F[i][g[i - 1]]

LEMMA Loop ==
    ASSUME NEW n \in Nat, NEW S, NEW first \in S, NEW F \in Rounds(n, S)
    PROVE  \E g : Trace(g, n, S, first, F)
<1> DEFINE Until(g, k) == /\ g \in [0..k -> S] /\ g[0] = first
                          /\ \A i \in 1..k : g[i] = F[i][g[i - 1]]
           P == {k \in Nat : k <= n => \E g : Until(g, k)}
<1> USE DEF Rounds
<1>1. 0 \in P
  <2> DEFINE g == [i \in 0..0 |-> first]
  <2>1. Until(g, 0)
    OBVIOUS
  <2> QED BY <2>1
<1>2. ASSUME NEW k \in Nat, k \in P PROVE k + 1 \in P
  <2> SUFFICES ASSUME k + 1 <= n PROVE \E h : Until(h, k + 1)
    BY <1>2
  <2>1. PICK g : Until(g, k)
    BY <1>2
  <2> DEFINE h == [i \in 0..k + 1 |-> IF i = k + 1 THEN F[k + 1][g[k]] ELSE g[i]]
  <2>2. k \in 0..k /\ k + 1 \in 1..n
    OBVIOUS
  <2>3. F[k + 1][g[k]] \in S
    BY <2>1, <2>2
  <2>4. h \in [0..k + 1 -> S]
    BY <2>1, <2>3
  <2>5. h[k + 1] = F[k + 1][h[k]] /\ h[0] = first
    BY <2>1, <2>2
  <2>6. ASSUME NEW i \in 1..k PROVE h[i] = F[i][h[i - 1]]
    <3>1. i \in 0..k + 1 /\ i - 1 \in 0..k + 1 /\ i # k + 1 /\ i - 1 # k + 1
      OBVIOUS
    <3>2. h[i] = g[i] /\ h[i - 1] = g[i - 1]
      BY <3>1
    <3> QED BY <2>1, <3>2
  <2> HIDE DEF h
  <2>7. \A i \in 1..k + 1 : i = k + 1 \/ i \in 1..k
    OBVIOUS
  <2>8. Until(h, k + 1)
    BY <2>4, <2>5, <2>6, <2>7
  <2> QED BY <2>8
<1> HIDE DEF P
<1>3. Nat \subseteq P
  BY <1>1, <1>2, Induction
<1>4. PICK g : Until(g, n)
  BY <1>3 DEF P
<1> QED BY <1>4 DEF Trace

(***************************************************************************)
(* Registers and bits.                                                     *)
(***************************************************************************)

\* The operations on registers stay inside them.
LEMMA Typed ==
    /\ \A a, b \in Register : Xor(a, b) \in Register
    /\ \A a, b \in Octet : Xor(a, b) \in Octet
    /\ \A a \in Register, n \in Nat : ShiftLeft(a, n) \in Register /\ ShiftRight(a, n) \in Register
    /\ \A a : Byte(a) \in Octet
    /\ Polynomial \in Register /\ {} \in Register /\ 0..31 \in Register
BY DEF Xor, ShiftLeft, ShiftRight, Byte, Register, Octet, Polynomial

LEMMA DivideType == \A c \in Register : \A bit : Divide(c, bit) \in Register
<1> SUFFICES ASSUME NEW c \in Register, NEW bit PROVE Divide(c, bit) \in Register
  OBVIOUS
<1> DEFINE taken == IF bit # (31 \in c) THEN Polynomial ELSE {}
<1>1. taken \in Register /\ ShiftLeft(c, 1) \in Register
  BY Typed
<1> HIDE DEF taken
<1>2. Xor(ShiftLeft(c, 1), taken) \in Register
  BY <1>1, Typed
<1> QED BY <1>2, Zenon DEF Divide, taken

\* What becomes of each bit of a register when one bit is divided.
LEMMA DivideBits ==
    ASSUME NEW c \in Register, NEW bit \in BOOLEAN
    PROVE  /\ Divide(c, bit) \in Register
           /\ 0 \in Divide(c, bit) <=> ~(bit <=> 31 \in c)
           /\ \A i \in 1..31 : i \in Divide(c, bit) <=>
                 ~(i - 1 \in c <=> (i \in Polynomial /\ 0 \in Divide(c, bit)))
<1> DEFINE taken == IF bit # (31 \in c) THEN Polynomial ELSE {}
<1>1. Divide(c, bit) = Xor(ShiftLeft(c, 1), taken)
  BY DEF Divide
<1>2. taken \in Register
  BY Typed
<1>3. \A i \in 0..31 : i \in ShiftLeft(c, 1) <=> i - 1 \in c
  BY DEF ShiftLeft, Register
<1>4. 0 \notin ShiftLeft(c, 1)
  BY <1>3 DEF Register
<1>5. \A i : i \in Divide(c, bit) <=> ~(i \in ShiftLeft(c, 1) <=> i \in taken)
  BY <1>1 DEF Xor
<1>6. 0 \in taken <=> ~(bit <=> 31 \in c)
  BY DEF Polynomial
<1>7. \A i : i \in taken <=> i \in Polynomial /\ 0 \in taken
  BY DEF Polynomial
<1> HIDE DEF taken
<1>8. Divide(c, bit) \in Register
  BY <1>1, <1>2, Typed
<1>9. 0 \in Divide(c, bit) <=> 0 \in taken
  BY <1>4, <1>5
<1>10. ASSUME NEW i \in 1..31
       PROVE  i \in Divide(c, bit) <=>
                 ~(i - 1 \in c <=> (i \in Polynomial /\ 0 \in Divide(c, bit)))
  <2>1. i \in ShiftLeft(c, 1) <=> i - 1 \in c
    BY <1>3
  <2> QED BY <1>5, <1>7, <1>9, <2>1
<1> QED BY <1>6, <1>8, <1>9, <1>10

\* The division of a byte goes through nine registers.
LEMMA Divisions ==
    ASSUME NEW c \in Register, NEW byte
    PROVE  /\ Division(c, byte) \in [0..8 -> Register] /\ Division(c, byte)[0] = c
           /\ \A k \in 1..8 :
                 Division(c, byte)[k] = Divide(Division(c, byte)[k - 1], (8 - k) \in byte)
           /\ DivideByte(c, byte) \in Register
<1> DEFINE F == [k \in 1..8 |-> [r \in Register |-> Divide(r, (8 - k) \in byte)]]
<1>1. \A r \in Register, k \in 1..8 : Divide(r, (8 - k) \in byte) \in Register
  BY DivideType
<1>2. F \in [1..8 -> [Register -> Register]]
  BY <1>1
<1>3. PICK g : Trace(g, 8, Register, c, F)
  <2> HIDE DEF F
  <2>1. 8 \in Nat /\ F \in Rounds(8, Register)
    BY <1>2 DEF Rounds
  <2> QED BY <2>1, Loop
<1>4. \A k \in 1..8 : g[k] = Divide(g[k - 1], (8 - k) \in byte)
  <2> SUFFICES ASSUME NEW k \in 1..8 PROVE g[k] = Divide(g[k - 1], (8 - k) \in byte)
    OBVIOUS
  <2>1. g[k - 1] \in Register /\ g[k] = F[k][g[k - 1]]
    BY <1>3 DEF Trace
  <2> QED BY <2>1
<1>5. g = [k \in 0..8 |-> IF k = 0 THEN c ELSE Divide(g[k - 1], (8 - k) \in byte)]
  <2>1. \A k \in 0..8 : k = 0 \/ k \in 1..8
    OBVIOUS
  <2> QED BY <1>3, <1>4, <2>1 DEF Trace
<1> DEFINE d == Division(c, byte)
<1>6. d = [k \in 0..8 |-> IF k = 0 THEN c ELSE Divide(d[k - 1], (8 - k) \in byte)]
  BY <1>5 DEF Division
<1> HIDE DEF d
<1>7. d[0] = c /\ \A k \in 1..8 : d[k] = Divide(d[k - 1], (8 - k) \in byte)
  BY <1>6
<1> DEFINE P == {k \in Nat : k <= 8 => d[k] \in Register}
<1>8. 0 \in P
  BY <1>7
<1>9. ASSUME NEW k \in Nat, k \in P PROVE k + 1 \in P
  <2> SUFFICES ASSUME k + 1 <= 8 PROVE d[k + 1] \in Register
    OBVIOUS
  <2>1. k + 1 \in 1..8 /\ (k + 1) - 1 = k /\ d[k] \in Register
    BY <1>9
  <2>2. d[k + 1] = Divide(d[k], (8 - (k + 1)) \in byte)
    BY <1>7, <2>1
  <2> QED BY <2>1, <2>2, DivideType
<1> HIDE DEF P
<1>10. Nat \subseteq P
  BY <1>8, <1>9, Induction
<1>11. \A k \in 0..8 : d[k] \in Register
  BY <1>10 DEF P
<1>12. d \in [0..8 -> Register]
  BY <1>6, <1>11
<1> QED BY <1>7, <1>12 DEF d, DivideByte

\* A shift moves bits, and drops those that leave the register.
LEMMA Shifts ==
    ASSUME NEW r \in Register, NEW n \in Nat
    PROVE  /\ \A i \in 0..31 : i \in ShiftLeft(r, n) <=> i - n \in r
           /\ \A i \in 0..31 : i \in ShiftRight(r, n) <=> i + n \in r
BY DEF ShiftLeft, ShiftRight, Register

\* Dividing c together with e is dividing e with the bits of c mixed in.
LEMMA DivideMore ==
    ASSUME NEW c \in Register, NEW e \in Register, NEW k \in 1..8,
           NEW d, d = Xor(ShiftLeft(c, k - 1), e),
           NEW bit \in BOOLEAN, NEW mixed \in BOOLEAN,
           mixed <=> ~(bit <=> 32 - k \in c)
    PROVE  Divide(d, bit) = Xor(ShiftLeft(c, k), Divide(e, mixed))
<1> DEFINE v == Divide(d, bit)
           w == Divide(e, mixed)
           less == ShiftLeft(c, k - 1)
           more == ShiftLeft(c, k)
<1>1. k \in Nat /\ k - 1 \in Nat
  OBVIOUS
<1>2. less \in Register /\ more \in Register /\ d \in Register
  BY <1>1, Typed
<1>3. \A i \in 0..31 : (i \in less <=> i - (k - 1) \in c) /\ (i \in more <=> i - k \in c)
  BY <1>1, Shifts
<1>4. \A i : i \in d <=> ~(i \in less <=> i \in e)
  BY DEF Xor
<1>5. /\ v \in Register /\ (0 \in v <=> ~(bit <=> 31 \in d))
      /\ \A i \in 1..31 : i \in v <=> ~(i - 1 \in d <=> (i \in Polynomial /\ 0 \in v))
  BY <1>2, DivideBits
<1>6. /\ w \in Register /\ (0 \in w <=> ~(mixed <=> 31 \in e))
      /\ \A i \in 1..31 : i \in w <=> ~(i - 1 \in e <=> (i \in Polynomial /\ 0 \in w))
  BY DivideBits
<1>7. (31 \in less <=> 32 - k \in c) /\ 0 \notin more
  <2>1. 31 \in 0..31 /\ 0 \in 0..31 /\ 31 - (k - 1) = 32 - k /\ 0 - k \notin 0..31
    OBVIOUS
  <2>2. 0 - k \notin c
    BY <2>1 DEF Register
  <2> QED BY <1>3, <2>1, <2>2
<1> HIDE DEF v, w, less, more
<1>8. 0 \in v <=> 0 \in w
  BY <1>4, <1>5, <1>6, <1>7
<1>9. ASSUME NEW i \in 0..31 PROVE i \in v <=> ~(i \in more <=> i \in w)
  <2>1. CASE i = 0
    BY <1>7, <1>8, <2>1
  <2>2. CASE i # 0
    <3>1. i \in 1..31 /\ i - 1 \in 0..31 /\ (i - 1) - (k - 1) = i - k
      BY <2>2
    <3>2. i - 1 \in less <=> i \in more
      BY <1>3, <3>1
    <3> QED BY <1>4, <1>5, <1>6, <1>8, <3>1, <3>2
  <2> QED BY <2>1, <2>2
<1>10. v = Xor(more, w)
  <2>1. \A i : i \in v => i \in 0..31
    BY <1>5 DEF Register
  <2>2. \A i : i \in more \/ i \in w => i \in 0..31
    BY <1>2, <1>6 DEF Register
  <2> QED BY <1>9, <2>1, <2>2 DEF Xor
<1> QED BY <1>10 DEF v, w, more

(***************************************************************************)
(* The table.                                                              *)
(***************************************************************************)

\* A round of the loop of crc32 divides by the polynomial for one byte.
LEMMA RoundDivides ==
    ASSUME NEW c \in Register, NEW byte \in Octet
    PROVE  Round(c, byte) = DivideByte(c, byte) /\ Round(c, byte) \in Register
<1> DEFINE top == Byte(ShiftRight(c, 24))
           x == Xor(top, byte)
           whole == Division(c, byte)
           part == Division({}, x)
<1>1. top \in Octet /\ x \in Octet
  BY Typed
<1>2. \A j \in 0..7 : j \in top <=> j + 24 \in c
  <2>1. \A j \in 0..31 : j \in ShiftRight(c, 24) <=> j + 24 \in c
    BY Shifts
  <2> QED BY <2>1 DEF Byte
<1>3. \A j : j \in x <=> ~(j \in top <=> j \in byte)
  BY DEF Xor
<1> HIDE DEF top, x
<1>4. /\ whole \in [0..8 -> Register] /\ whole[0] = c
      /\ \A k \in 1..8 : whole[k] = Divide(whole[k - 1], (8 - k) \in byte)
      /\ DivideByte(c, byte) \in Register
  BY Divisions
<1>5. /\ part \in [0..8 -> Register] /\ part[0] = {}
      /\ \A k \in 1..8 : part[k] = Divide(part[k - 1], (8 - k) \in x)
  BY Typed, Divisions
<1> DEFINE P == {k \in Nat : k <= 8 => whole[k] = Xor(ShiftLeft(c, k), part[k])}
<1> HIDE DEF whole, part
<1>6. 0 \in P
  <2>1. ShiftLeft(c, 0) = c
    <3>1. ShiftLeft(c, 0) \in Register /\ \A i \in 0..31 : i \in ShiftLeft(c, 0) <=> i - 0 \in c
      BY Shifts, Typed
    <3>2. \A i \in 0..31 : i - 0 = i
      OBVIOUS
    <3> QED BY <3>1, <3>2 DEF Register
  <2>2. Xor(c, {}) = c
    BY DEF Xor
  <2> QED BY <1>4, <1>5, <2>1, <2>2
<1>7. ASSUME NEW n \in Nat, n \in P PROVE n + 1 \in P
  <2> SUFFICES ASSUME n + 1 <= 8
               PROVE  whole[n + 1] = Xor(ShiftLeft(c, n + 1), part[n + 1])
    OBVIOUS
  <2> DEFINE k == n + 1
             bit == (8 - k) \in byte
             mixed == (8 - k) \in x
  <2>1. k \in 1..8 /\ k - 1 = n /\ 8 - k \in 0..7 /\ (8 - k) + 24 = 32 - k /\ n \in 0..8
    OBVIOUS
  <2>2. whole[n] = Xor(ShiftLeft(c, k - 1), part[n]) /\ part[n] \in Register
    BY <1>5, <1>7, <2>1
  <2>3. mixed <=> ~(bit <=> 32 - k \in c)
    BY <1>2, <1>3, <2>1
  <2>4. whole[k] = Divide(whole[n], bit) /\ part[k] = Divide(part[n], mixed)
    BY <1>4, <1>5, <2>1
  <2>5. bit \in BOOLEAN /\ mixed \in BOOLEAN
    OBVIOUS
  <2> HIDE DEF bit, mixed, k
  <2>6. Divide(whole[n], bit) = Xor(ShiftLeft(c, k), Divide(part[n], mixed))
    BY <2>1, <2>2, <2>3, <2>5, DivideMore
  <2>7. whole[k] = Xor(ShiftLeft(c, k), part[k])
    BY <2>4, <2>6
  <2> QED BY <2>7 DEF k
<1> HIDE DEF P
<1>8. Nat \subseteq P
  BY <1>6, <1>7, Induction
<1>9. whole[8] = Xor(ShiftLeft(c, 8), part[8])
  BY <1>8 DEF P
<1>10. crc_table[x] = part[8]
  BY <1>1, TableAssumption DEF Octet, DivideByte, part
<1>11. Round(c, byte) = Xor(ShiftLeft(c, 8), crc_table[x])
  <2>1. Byte(Xor(ShiftRight(c, 24), byte)) = x
    BY DEF Byte, Xor, Octet, x, top
  <2> QED BY <2>1 DEF Round
<1> QED BY <1>4, <1>9, <1>10, <1>11 DEF DivideByte, whole

(***************************************************************************)
(* The loop of crc32.                                                      *)
(***************************************************************************)

\* The registers of a division and of the loop, for a whole input.
LEMMA RemaindersTrace ==
    ASSUME NEW input \in Seq(Octet)
    PROVE  /\ Remainders(input) \in [0 .. Len(input) -> Register]
           /\ Remainders(input)[0] = 0..31
           /\ \A i \in 1 .. Len(input) :
                 Remainders(input)[i] = DivideByte(Remainders(input)[i - 1], input[i])
<1> DEFINE n == Len(input)
           F == [i \in 1..n |-> [r \in Register |-> DivideByte(r, input[i])]]
           all == Remainders(input)
<1>1. n \in Nat /\ \A i \in 1..n : input[i] \in Octet
  OBVIOUS
<1>2. F \in Rounds(n, Register)
  BY Divisions DEF Rounds
<1>3. 0..31 \in Register
  BY Typed
<1>4. PICK g : Trace(g, n, Register, 0..31, F)
  <2> HIDE DEF F, n
  <2> QED BY <1>1, <1>2, <1>3, Loop
<1> HIDE DEF n
<1>5. \A i \in 1..n : g[i] = DivideByte(g[i - 1], input[i])
  <2> SUFFICES ASSUME NEW i \in 1..n PROVE g[i] = DivideByte(g[i - 1], input[i])
    OBVIOUS
  <2>1. g[i - 1] \in Register /\ g[i] = F[i][g[i - 1]]
    BY <1>1, <1>4 DEF Trace
  <2> QED BY <2>1
<1>6. g = [i \in 0..n |-> IF i = 0 THEN 0..31 ELSE DivideByte(g[i - 1], input[i])]
  <2>1. \A i \in 0..n : i = 0 \/ i \in 1..n
    BY <1>1
  <2> QED BY <1>4, <1>5, <2>1 DEF Trace
<1>7. all = [i \in 0..n |-> IF i = 0 THEN 0..31 ELSE DivideByte(all[i - 1], input[i])]
  BY <1>6 DEF Remainders, n
<1> HIDE DEF all
<1>8. all[0] = 0..31 /\ \A i \in 1..n : all[i] = DivideByte(all[i - 1], input[i])
  <2>1. \A i \in 0..n : all[i] = IF i = 0 THEN 0..31 ELSE DivideByte(all[i - 1], input[i])
    BY <1>7, Zenon
  <2>2. 0 \in 0..n /\ \A i \in 1..n : i \in 0..n /\ i # 0
    BY <1>1
  <2> QED BY <2>1, <2>2
<1> DEFINE P == {k \in Nat : k <= n => all[k] \in Register}
<1>9. 0 \in P
  BY <1>3, <1>8
<1>10. ASSUME NEW k \in Nat, k \in P PROVE k + 1 \in P
  <2> SUFFICES ASSUME k + 1 <= n PROVE all[k + 1] \in Register
    OBVIOUS
  <2>1. k + 1 \in 1..n /\ (k + 1) - 1 = k /\ all[k] \in Register
    BY <1>1, <1>10
  <2>2. all[k + 1] = DivideByte(all[k], input[k + 1])
    BY <1>8, <2>1
  <2> QED BY <2>1, <2>2, Divisions
<1> HIDE DEF P
<1>11. \A k \in 0..n : all[k] \in Register
  <2>1. Nat \subseteq P
    BY <1>9, <1>10, Induction
  <2> QED BY <1>1, <2>1 DEF P
<1>12. all \in [0..n -> Register]
  BY <1>7, <1>11
<1> QED BY <1>8, <1>12 DEF n, all

\* The loop of crc32 goes through the remainders.
LEMMA LoopDivides ==
    ASSUME NEW input \in Seq(Octet)
    PROVE  Registers(input) = Remainders(input)
<1> DEFINE n == Len(input)
           r == Remainders(input)
           all == Registers(input)
<1>1. n \in Nat /\ \A i \in 1..n : input[i] \in Octet
  OBVIOUS
<1>2. /\ r \in [0..n -> Register] /\ r[0] = 0..31
      /\ \A i \in 1..n : r[i] = DivideByte(r[i - 1], input[i])
  BY RemaindersTrace
<1> HIDE DEF r, n
<1>3. \A i \in 1..n : r[i] = Round(r[i - 1], input[i])
  <2> SUFFICES ASSUME NEW i \in 1..n PROVE r[i] = Round(r[i - 1], input[i])
    OBVIOUS
  <2>1. r[i - 1] \in Register
    BY <1>1, <1>2
  <2> QED BY <1>1, <1>2, <2>1, RoundDivides
<1>4. r = [i \in 0..n |-> IF i = 0 THEN 0..31 ELSE Round(r[i - 1], input[i])]
  <2>1. \A i \in 0..n : i = 0 \/ i \in 1..n
    BY <1>1
  <2> QED BY <1>2, <1>3, <2>1
<1>5. all = [i \in 0..n |-> IF i = 0 THEN 0..31 ELSE Round(all[i - 1], input[i])]
  BY <1>4 DEF Registers, n
<1> HIDE DEF all
<1> DEFINE P == {k \in Nat : k <= n => all[k] = r[k]}
<1>6. \A i \in 0..n : all[i] = IF i = 0 THEN 0..31 ELSE Round(all[i - 1], input[i])
  BY <1>5, Zenon
<1>7. 0 \in P
  <2>1. 0 \in 0..n
    BY <1>1
  <2>2. all[0] = 0..31
    BY <1>6, <2>1
  <2> QED BY <1>2, <2>2
<1>8. ASSUME NEW k \in Nat, k \in P PROVE k + 1 \in P
  <2> SUFFICES ASSUME k + 1 <= n PROVE all[k + 1] = r[k + 1]
    OBVIOUS
  <2>1. k + 1 \in 1..n /\ k + 1 \in 0..n /\ (k + 1) - 1 = k /\ all[k] = r[k]
    BY <1>1, <1>8
  <2>2. all[k + 1] = Round(all[k], input[k + 1])
    BY <1>6, <2>1
  <2> QED BY <1>3, <2>1, <2>2
<1> HIDE DEF P
<1>9. \A k \in 0..n : all[k] = r[k]
  <2>1. Nat \subseteq P
    BY <1>7, <1>8, Induction
  <2> QED BY <1>1, <2>1 DEF P
<1>10. all = r
  BY <1>2, <1>5, <1>9
<1> QED BY <1>10 DEF all, r

(* crc32 is the remainder of the division of its input by the polynomial,   *)
(* for an input of any length.                                              *)
THEOREM CrcIsRemainder ==
    ASSUME NEW input \in Seq(Octet)
    PROVE  crc32(input) = Remainder(input) /\ crc32(input) \in Register
<1>1. Len(input) \in 0 .. Len(input)
  OBVIOUS
<1> QED BY <1>1, LoopDivides, RemaindersTrace DEF crc32, Remainder

(***************************************************************************)
(* The same division, one bit at a time.                                   *)
(***************************************************************************)

\* The positions of the bits of a word that are 1, the first byte's highest bit first.
Ones(w) == {p \in 0 .. 8 * Len(w) - 1 : (7 - (p % 8)) \in w[p \div 8 + 1]}

\* The register R[p + 1] follows from R[p] and the bit at p.
Divides(R, B, p) ==
    /\ 0 \in R[p + 1] <=> ~(p \in B <=> 31 \in R[p])
    /\ \A i \in 1..31 : i \in R[p + 1] <=>
          ~(i - 1 \in R[p] <=> (i \in Polynomial /\ 0 \in R[p + 1]))

\* R holds the registers while the first N bits of B are divided.
Traced(R, N, B) ==
    /\ R \in [0..N -> Register]
    /\ R[0] = 0..31
    /\ \A p \in 0 .. N - 1 : Divides(R, B, p)

LEMMA Place ==
    ASSUME NEW p \in Nat
    PROVE  p \div 8 \in Nat /\ (p % 8) \in 0..7 /\ p = 8 * (p \div 8) + (p % 8)
OBVIOUS

LEMMA PlaceOf ==
    ASSUME NEW i \in Nat, NEW k \in 0..7
    PROVE  (8 * i + k) \div 8 = i /\ ((8 * i + k) % 8) = k
OBVIOUS

\* A bit of a word by its byte and its place there.
LEMMA OnesAt ==
    ASSUME NEW w, Len(w) \in Nat, NEW i \in Nat, i < Len(w), NEW k \in 0..7
    PROVE  8 * i + k \in Ones(w) <=> (7 - k) \in w[i + 1]
<1>1. 8 * i + k \in 0 .. 8 * Len(w) - 1
  OBVIOUS
<1> QED BY <1>1, PlaceOf DEF Ones

\* crc32 divides its input bit by bit.
LEMMA Bitwise ==
    ASSUME NEW input \in Seq(Octet)
    PROVE  \E R : /\ Traced(R, 8 * Len(input), Ones(input))
                  /\ R[8 * Len(input)] = crc32(input)
<1> DEFINE n == Len(input)
           N == 8 * n
           B == Ones(input)
           r == Remainders(input)
           within(i) == Division(r[i], input[i + 1])
           R == [p \in 0..N |-> within(p \div 8)[p % 8]]
<1>1. n \in Nat /\ N \in Nat
  OBVIOUS
<1>2. /\ r \in [0..n -> Register] /\ r[0] = 0..31
      /\ \A i \in 1..n : r[i] = DivideByte(r[i - 1], input[i])
  BY RemaindersTrace
<1>3. crc32(input) = r[n]
  BY CrcIsRemainder DEF Remainder
<1> HIDE DEF n, r, B
<1>4. ASSUME NEW i \in 0..n
      PROVE  /\ within(i) \in [0..8 -> Register] /\ within(i)[0] = r[i]
             /\ \A k \in 1..8 : within(i)[k] = Divide(within(i)[k - 1], (8 - k) \in input[i + 1])
             /\ DivideByte(r[i], input[i + 1]) = within(i)[8]
  <2> DEFINE byte == input[i + 1]
  <2>1. r[i] \in Register
    BY <1>2
  <2> HIDE DEF byte
  <2>2. /\ Division(r[i], byte) \in [0..8 -> Register] /\ Division(r[i], byte)[0] = r[i]
        /\ \A k \in 1..8 : Division(r[i], byte)[k]
                              = Divide(Division(r[i], byte)[k - 1], (8 - k) \in byte)
    BY <2>1, Divisions
  <2> QED BY <2>2 DEF DivideByte, byte
<1> HIDE DEF within
<1>5. ASSUME NEW p \in 0..N
      PROVE  /\ p \div 8 \in 0..n /\ (p % 8) \in 0..7 /\ p = 8 * (p \div 8) + (p % 8)
             /\ p < N => p \div 8 < n
  <2>1. p \in Nat /\ p <= 8 * n /\ (p < N => p < 8 * n)
    BY <1>1
  <2> QED BY <1>1, <2>1, Place
<1>6. \A p \in 0..N : R[p] = within(p \div 8)[p % 8]
  OBVIOUS
<1>7. R \in [0..N -> Register]
  <2> SUFFICES ASSUME NEW p \in 0..N PROVE within(p \div 8)[p % 8] \in Register
    OBVIOUS
  <2>1. p \div 8 \in 0..n /\ (p % 8) \in 0..8
    BY <1>5
  <2> QED BY <1>4, <2>1
<1>8. ASSUME NEW i \in 0..n PROVE R[8 * i] = r[i]
  <2>1. 8 * i \in 0..N /\ i \in Nat
    BY <1>1
  <2>2. 8 * i + 0 = 8 * i /\ 0 \in 0..7
    BY <2>1
  <2>3. (8 * i) \div 8 = i /\ ((8 * i) % 8) = 0
    BY <2>1, <2>2, PlaceOf
  <2> QED BY <1>4, <1>6, <2>1, <2>3
<1> HIDE DEF R
<1>9. ASSUME NEW p \in 0 .. N - 1
      PROVE  R[p + 1] = Divide(R[p], p \in B) /\ R[p] \in Register
  <2> DEFINE i == p \div 8
             k == p % 8
  <2>1. /\ p \in 0..N /\ p + 1 \in 0..N /\ p < N
    BY <1>1
  <2>2. i \in 0..n /\ i < n /\ k \in 0..7 /\ p = 8 * i + k
    BY <1>5, <2>1
  <2>3. R[p] = within(i)[k]
    BY <1>6, <2>1
  <2> HIDE DEF i, k
  <2>4. i \in Nat /\ i + 1 \in 0..n /\ i + 1 \in 1..n /\ (i + 1) - 1 = i /\ k + 1 \in 1..8
        /\ (k + 1) - 1 = k /\ 8 - (k + 1) = 7 - k
    BY <1>1, <2>2
  <2>5. within(i)[k + 1] = Divide(within(i)[k], (7 - k) \in input[i + 1])
    <3>1. \A j \in 1..8 : within(i)[j] = Divide(within(i)[j - 1], (8 - j) \in input[i + 1])
      BY <1>4, <2>2
    <3>2. within(i)[k + 1] = Divide(within(i)[(k + 1) - 1], (8 - (k + 1)) \in input[i + 1])
      BY <2>4, <3>1
    <3> QED BY <2>4, <3>2
  <2>6. p \in B <=> (7 - k) \in input[i + 1]
    BY <1>1, <2>2, <2>4, OnesAt DEF B, n
  <2>7. R[p + 1] = within(i)[k + 1]
    <3>1. CASE k = 7
      <4>1. p + 1 = 8 * (i + 1)
        BY <2>2, <2>4, <3>1
      <4>2. R[p + 1] = r[i + 1]
        BY <1>8, <2>4, <4>1
      <4>3. r[i + 1] = DivideByte(r[i], input[i + 1])
        BY <1>2, <2>4
      <4> QED BY <1>4, <2>2, <3>1, <4>2, <4>3
    <3>2. CASE k # 7
      <4>1. p + 1 = 8 * i + (k + 1) /\ k + 1 \in 0..7
        BY <2>2, <2>4, <3>2
      <4>2. (p + 1) \div 8 = i /\ ((p + 1) % 8) = k + 1
        <5>1. (8 * i + (k + 1)) \div 8 = i /\ ((8 * i + (k + 1)) % 8) = k + 1
          BY <2>4, <4>1, PlaceOf
        <5> QED BY <4>1, <5>1
      <4> QED BY <1>6, <2>1, <4>2
    <3> QED BY <3>1, <3>2
  <2>8. R[p] \in Register
    BY <1>7, <2>1
  <2>9. (p \in B) = ((7 - k) \in input[i + 1])
    BY <2>6
  <2> QED BY <2>3, <2>5, <2>7, <2>8, <2>9
<1>10. ASSUME NEW p \in 0 .. N - 1 PROVE Divides(R, B, p)
  <2> DEFINE bit == p \in B
             v == Divide(R[p], bit)
  <2>1. bit \in BOOLEAN /\ R[p] \in Register
    BY <1>9
  <2>2. R[p + 1] = v
    BY <1>9
  <2> HIDE DEF bit
  <2>3. /\ 0 \in v <=> ~(bit <=> 31 \in R[p])
        /\ \A i \in 1..31 : i \in v <=> ~(i - 1 \in R[p] <=> (i \in Polynomial /\ 0 \in v))
    BY <2>1, DivideBits
  <2> HIDE DEF v
  <2> QED BY <2>2, <2>3 DEF Divides, bit
<1>11. R[0] = 0..31 /\ R[N] = r[n]
  <2>1. 0 \in 0..n /\ n \in 0..n /\ 8 * 0 = 0
    BY <1>1
  <2> QED BY <1>2, <1>8, <2>1
<1>12. Traced(R, N, B)
  BY <1>7, <1>10, <1>11 DEF Traced
<1> QED BY <1>3, <1>11, <1>12 DEF n, B

(***************************************************************************)
(* A burst: two inputs that differ only within 32 neighbouring bits.       *)
(***************************************************************************)

\* Equal registers and equal bits lead to equal registers.
LEMMA Ahead ==
    ASSUME NEW R, NEW S, NEW B, NEW D, NEW p,
           R[p + 1] \in Register, S[p + 1] \in Register,
           Divides(R, B, p), Divides(S, D, p), R[p] = S[p], p \in B <=> p \in D
    PROVE  R[p + 1] = S[p + 1]
<1>1. 0 \in R[p + 1] <=> 0 \in S[p + 1]
  BY DEF Divides
<1>2. ASSUME NEW i \in 1..31 PROVE i \in R[p + 1] <=> i \in S[p + 1]
  BY <1>1 DEF Divides
<1>3. \A i \in 0..31 : i = 0 \/ i \in 1..31
  OBVIOUS
<1>4. \A i \in 0..31 : i \in R[p + 1] <=> i \in S[p + 1]
  BY <1>1, <1>2, <1>3
<1> QED BY <1>4 DEF Register

\* The t lowest bits of two registers are equal.
Agree(R, S, p, t) == \A i \in 0 .. t - 1 : i \in R[p] <=> i \in S[p]

\* What the low bits of two registers say of the step before: as the polynomial
\* contains bit 0, that bit tells whether it was taken.
LEMMA Behind ==
    ASSUME NEW R, NEW S, NEW B, NEW D, NEW p,
           Divides(R, B, p), Divides(S, D, p), NEW t \in 0..31, Agree(R, S, p + 1, t + 1)
    PROVE  /\ (p \in B <=> 31 \in R[p]) <=> (p \in D <=> 31 \in S[p])
           /\ Agree(R, S, p, t)
<1>1. \A i \in 0..t : i \in R[p + 1] <=> i \in S[p + 1]
  <2>1. (t + 1) - 1 = t
    OBVIOUS
  <2> QED BY <2>1 DEF Agree
<1>2. 0 \in R[p + 1] <=> 0 \in S[p + 1]
  BY <1>1
<1>3. (p \in B <=> 31 \in R[p]) <=> (p \in D <=> 31 \in S[p])
  BY <1>2 DEF Divides
<1>4. ASSUME NEW i \in 0 .. t - 1 PROVE i \in R[p] <=> i \in S[p]
  <2>1. i + 1 \in 1..31 /\ i + 1 \in 0..t /\ (i + 1) - 1 = i
    OBVIOUS
  <2>2. i + 1 \in R[p + 1] <=> i + 1 \in S[p + 1]
    BY <1>1, <2>1
  <2>3. /\ i + 1 \in R[p + 1] <=> ~(i \in R[p] <=> (i + 1 \in Polynomial /\ 0 \in R[p + 1]))
        /\ i + 1 \in S[p + 1] <=> ~(i \in S[p] <=> (i + 1 \in Polynomial /\ 0 \in S[p + 1]))
    BY <2>1 DEF Divides
  <2> QED BY <1>2, <2>2, <2>3
<1> QED BY <1>3, <1>4 DEF Agree

\* The 32 bits behind the N divided ones are the last register, its highest bit first.
Checked(R, N, B) == \A q \in 0..31 : 31 - q \in R[N] <=> N + q \in B

\* Two divisions have equal registers until their inputs differ,
LEMMA EqualUntil ==
    ASSUME NEW N \in Nat, NEW R, NEW S, NEW B, NEW D, Traced(R, N, B), Traced(S, N, D),
           NEW a \in Nat, \A p \in 0 .. N - 1 : p < a => (p \in B <=> p \in D)
    PROVE  \A p \in 0..N : p <= a => R[p] = S[p]
<1> DEFINE P == {p \in Nat : p <= N /\ p <= a => R[p] = S[p]}
<1>1. 0 \in P
  BY DEF Traced
<1>2. ASSUME NEW p \in Nat, p \in P PROVE p + 1 \in P
  <2> SUFFICES ASSUME p + 1 <= N, p + 1 <= a PROVE R[p + 1] = S[p + 1]
    OBVIOUS
  <2>1. p \in 0 .. N - 1 /\ p < a /\ p + 1 \in 0..N
    OBVIOUS
  <2>2. R[p] = S[p] /\ (p \in B <=> p \in D)
    BY <1>2, <2>1
  <2>3. /\ Divides(R, B, p) /\ Divides(S, D, p)
        /\ R[p + 1] \in Register /\ S[p + 1] \in Register
    BY <2>1 DEF Traced
  <2> QED BY <2>2, <2>3, Ahead
<1> HIDE DEF P
<1>3. Nat \subseteq P
  BY <1>1, <1>2, Induction
<1> QED BY <1>3 DEF P

\* and where they end with equal registers, these were equal before the equal bits.
LEMMA EqualSince ==
    ASSUME NEW N \in Nat, NEW R, NEW S, NEW B, NEW D, Traced(R, N, B), Traced(S, N, D),
           NEW e \in 0..N, \A p \in e .. N - 1 : p \in B <=> p \in D, R[N] = S[N]
    PROVE  R[e] = S[e]
<1> DEFINE P == {k \in Nat : e <= N - k => R[N - k] = S[N - k]}
<1>1. 0 \in P
  OBVIOUS
<1>2. ASSUME NEW k \in Nat, k \in P PROVE k + 1 \in P
  <2> DEFINE p == N - (k + 1)
  <2> SUFFICES ASSUME e <= p PROVE R[p] = S[p]
    OBVIOUS
  <2>1. p \in e .. N - 1 /\ p \in 0 .. N - 1 /\ p + 1 = N - k /\ p \in 0..N
    OBVIOUS
  <2>2. R[p + 1] = S[p + 1]
    BY <1>2, <2>1
  <2> HIDE DEF p
  <2>3. /\ p \in B <=> p \in D
        /\ Divides(R, B, p) /\ Divides(S, D, p) /\ R[p] \in Register /\ S[p] \in Register
    BY <2>1 DEF Traced
  <2>4. /\ (p \in B <=> 31 \in R[p]) <=> (p \in D <=> 31 \in S[p])
        /\ Agree(R, S, p, 31)
    <3>1. 31 \in 0..31 /\ Agree(R, S, p + 1, 31 + 1)
      BY <2>2 DEF Agree
    <3> QED BY <2>3, <3>1, Behind
  <2>5. \A i \in 0..31 : i \in 0 .. 31 - 1 \/ i = 31
    OBVIOUS
  <2>6. \A i \in 0..31 : i \in R[p] <=> i \in S[p]
    BY <2>3, <2>4, <2>5 DEF Agree
  <2> QED BY <2>3, <2>6 DEF Register
<1> HIDE DEF P
<1>3. Nat \subseteq P
  BY <1>1, <1>2, Induction
<1>4. N - e \in Nat /\ N - (N - e) = e
  OBVIOUS
<1>5. N - e \in P
  BY <1>3, <1>4
<1> QED BY <1>4, <1>5 DEF P

\* Equal checksums are equal registers.
LEMMA EqualSeals ==
    ASSUME NEW N \in Nat, NEW R, NEW S, NEW B, NEW D,
           Traced(R, N, B), Checked(R, N, B), Traced(S, N, D), Checked(S, N, D),
           \A p \in N .. N + 31 : p \in B <=> p \in D
    PROVE  R[N] = S[N]
<1>1. ASSUME NEW i \in 0..31 PROVE i \in R[N] <=> i \in S[N]
  <2>1. 31 - i \in 0..31 /\ 31 - (31 - i) = i /\ N + (31 - i) \in N .. N + 31
    OBVIOUS
  <2>2. /\ i \in R[N] <=> N + (31 - i) \in B
        /\ i \in S[N] <=> N + (31 - i) \in D
    BY <2>1 DEF Checked
  <2> QED BY <2>1, <2>2
<1>2. R[N] \in Register /\ S[N] \in Register
  BY DEF Traced
<1> QED BY <1>1, <1>2 DEF Register

\* Two words with their checksums that differ only in a burst are the same.
LEMMA Burst ==
    ASSUME NEW N \in Nat, NEW R, NEW S, NEW B, NEW D,
           Traced(R, N, B), Checked(R, N, B), Traced(S, N, D), Checked(S, N, D),
           NEW a \in Nat, \A p \in 0 .. N + 31 : p \notin a .. a + 31 => (p \in B <=> p \in D)
    PROVE  \A p \in 0 .. N + 31 : p \in B <=> p \in D
<1> DEFINE Same(p) == p \in B <=> p \in D
<1>1. /\ \A p \in 0..N : R[p] \in Register /\ S[p] \in Register
      /\ \A p \in 0 .. N - 1 : Divides(R, B, p) /\ Divides(S, D, p)
      /\ R[0] = S[0]
  BY DEF Traced
<1>2. \A q \in 0..31 : /\ 31 - q \in R[N] <=> N + q \in B
                       /\ 31 - q \in S[N] <=> N + q \in D
  BY DEF Checked
<1>3. ASSUME NEW p \in 0 .. N + 31, p < a \/ p > a + 31 PROVE Same(p)
  <2>1. p \notin a .. a + 31
    BY <1>3
  <2> QED BY <2>1
\* Up to the burst the registers are equal.
<1>4. \A p \in 0..N : p <= a => R[p] = S[p]
  <2>1. \A p \in 0 .. N - 1 : p < a => Same(p)
    BY <1>3
  <2> HIDE DEF Same
  <2> QED BY <2>1, EqualUntil DEF Same
<1>5. CASE a >= N
  <2>1. R[N] = S[N]
    BY <1>4, <1>5
  <2> SUFFICES ASSUME NEW p \in 0 .. N + 31 PROVE Same(p)
    OBVIOUS
  <2>2. CASE p < N
    BY <1>3, <1>5, <2>2
  <2>3. CASE p >= N
    <3>1. p - N \in 0..31 /\ N + (p - N) = p
      BY <2>3
    <3>2. 31 - (p - N) \in R[N] <=> 31 - (p - N) \in S[N]
      BY <2>1
    <3> QED BY <1>2, <3>1, <3>2
  <2> QED BY <2>2, <2>3
<1>6. CASE a < N
  \* e is the end of the part of the burst that is divided.
  <2> DEFINE e == IF N <= a + 32 THEN N ELSE a + 32
  <2>1. e \in 0..N /\ a < e /\ e <= a + 32 /\ e \in Nat
    BY <1>6
  <2>2. Agree(R, S, e, e - a)
    <3>1. CASE N <= a + 32
      <4> SUFFICES ASSUME NEW i \in 0 .. (N - a) - 1 PROVE i \in R[N] <=> i \in S[N]
        BY <3>1 DEF Agree
      <4>1. 31 - i \in 0..31 /\ 31 - (31 - i) = i /\ N + (31 - i) \in 0 .. N + 31
            /\ N + (31 - i) > a + 31
        BY <1>6, <3>1
      <4>2. Same(N + (31 - i))
        BY <1>3, <4>1
      <4> QED BY <1>2, <4>1, <4>2
    <3>2. CASE N > a + 32
      <4>1. e = a + 32
        BY <3>2
      <4>2. /\ \A p \in e .. N - 1 : p \in B <=> p \in D
            /\ \A p \in N .. N + 31 : p \in B <=> p \in D
        BY <1>3, <2>1, <3>2, <4>1
      <4> HIDE DEF e
      <4>3. R[N] = S[N]
        BY <4>2, EqualSeals
      <4>4. R[e] = S[e]
        BY <2>1, <4>2, <4>3, EqualSince
      <4> QED BY <4>4 DEF Agree
    <3> QED BY <3>1, <3>2
  <2> HIDE DEF e
  \* From there back to its begin one bit less of the registers is known to agree.
  <2>3. \A k \in Nat : k <= e - a => Agree(R, S, e - k, (e - k) - a)
    <3> DEFINE P == {k \in Nat : k <= e - a => Agree(R, S, e - k, (e - k) - a)}
    <3>1. 0 \in P
      <4>1. e - 0 = e
        BY <2>1
      <4> QED BY <2>2, <4>1
    <3>2. ASSUME NEW k \in Nat, k \in P PROVE k + 1 \in P
      <4> DEFINE p == e - (k + 1)
                 t == p - a
      <4> SUFFICES ASSUME k + 1 <= e - a PROVE Agree(R, S, p, t)
        OBVIOUS
      <4>1. /\ p \in 0 .. N - 1 /\ p + 1 = e - k /\ k <= e - a
            /\ t \in 0..31 /\ (e - k) - a = t + 1
        BY <2>1
      <4>2. Agree(R, S, p + 1, t + 1)
        BY <3>2, <4>1
      <4> HIDE DEF p, t
      <4>3. Divides(R, B, p) /\ Divides(S, D, p)
        BY <1>1, <4>1
      <4> QED BY <4>1, <4>2, <4>3, Behind
    <3> HIDE DEF P
    <3>3. Nat \subseteq P
      BY <3>1, <3>2, Induction
    <3> QED BY <3>3 DEF P
  <2>4. ASSUME NEW p \in a .. e - 1
        PROVE  (p \in B <=> 31 \in R[p]) <=> (p \in D <=> 31 \in S[p])
    <3> DEFINE t == p - a
    <3>1. /\ e - (p + 1) \in Nat /\ e - (p + 1) <= e - a /\ e - (e - (p + 1)) = p + 1
          /\ t \in 0..31 /\ (p + 1) - a = t + 1 /\ p \in 0 .. N - 1
      BY <2>1
    <3> HIDE DEF t
    <3>2. Agree(R, S, p + 1, t + 1)
      BY <2>3, <3>1
    <3>3. Divides(R, B, p) /\ Divides(S, D, p)
      BY <1>1, <3>1
    <3> QED BY <3>1, <3>2, <3>3, Behind
  \* So the same polynomials were taken, and from equal registers the bits are equal.
  <2>5. \A k \in Nat : a + k <= e => R[a + k] = S[a + k]
    <3> DEFINE P == {k \in Nat : a + k <= e => R[a + k] = S[a + k]}
    <3>1. 0 \in P
      <4>1. a \in 0..N /\ a + 0 = a
        BY <2>1
      <4> QED BY <1>4, <4>1
    <3>2. ASSUME NEW k \in Nat, k \in P PROVE k + 1 \in P
      <4> DEFINE p == a + k
      <4> SUFFICES ASSUME a + (k + 1) <= e PROVE R[a + (k + 1)] = S[a + (k + 1)]
        OBVIOUS
      <4>1. p \in a .. e - 1 /\ p \in 0 .. N - 1 /\ p + 1 \in 0..N /\ p + 1 = a + (k + 1) /\ p <= e
        BY <2>1
      <4>2. R[p] = S[p]
        BY <3>2, <4>1
      <4> HIDE DEF p
      <4>3. Same(p)
        BY <2>4, <4>1, <4>2
      <4>4. Divides(R, B, p) /\ Divides(S, D, p)
            /\ R[p + 1] \in Register /\ S[p + 1] \in Register
        BY <1>1, <4>1
      <4>5. R[p + 1] = S[p + 1]
        BY <4>2, <4>3, <4>4, Ahead
      <4> QED BY <4>1, <4>5
    <3> HIDE DEF P
    <3>3. Nat \subseteq P
      BY <3>1, <3>2, Induction
    <3> QED BY <3>3 DEF P
  <2>6. ASSUME NEW p \in a..e PROVE R[p] = S[p]
    <3>1. p - a \in Nat /\ a + (p - a) = p /\ p <= e
      BY <2>1
    <3> QED BY <2>5, <3>1
  <2> SUFFICES ASSUME NEW p \in 0 .. N + 31 PROVE Same(p)
    OBVIOUS
  <2>7. CASE p < a
    BY <1>3, <2>7
  <2>8. CASE a <= p /\ p < e
    <3>1. p \in a .. e - 1 /\ p \in a..e
      BY <2>1, <2>8
    <3> QED BY <2>4, <2>6, <3>1
  <2>9. CASE e <= p /\ p > a + 31
    BY <1>3, <2>9
  <2>10. CASE e <= p /\ p <= a + 31
    <3>1. e = N /\ p - N \in 0..31 /\ N + (p - N) = p /\ e \in a..e
      BY <2>1, <2>10 DEF e
    <3>2. R[N] = S[N]
      BY <2>6, <3>1
    <3> QED BY <1>2, <3>1, <3>2
  <2>11. p \in Nat /\ a \in Nat /\ e \in Nat
    BY <2>1
  <2> QED BY <2>7, <2>8, <2>9, <2>10, <2>11
<1> QED BY <1>5, <1>6

(***************************************************************************)
(* Two bits.                                                               *)
(***************************************************************************)

\* The registers that a single 1 leaves.
LEMMA Trails ==
    /\ Trail \in [0 .. Reach -> Register]
    /\ Trail[0] = Polynomial
    /\ \A k \in 1 .. Reach : Trail[k] = Divide(Trail[k - 1], FALSE)
<1> DEFINE F == [k \in 1 .. Reach |-> [r \in Register |-> Divide(r, FALSE)]]
<1>1. Reach \in Nat /\ Polynomial \in Register
  BY DamageAssumption, Typed
<1>2. F \in Rounds(Reach, Register)
  BY DivideType DEF Rounds
<1>3. PICK g : Trace(g, Reach, Register, Polynomial, F)
  <2> HIDE DEF F
  <2> QED BY <1>1, <1>2, Loop
<1>4. ASSUME NEW k \in 1 .. Reach PROVE g[k] = Divide(g[k - 1], FALSE) /\ g[k] \in Register
  <2>1. g[k - 1] \in Register /\ g[k] = F[k][g[k - 1]]
    <3> HIDE DEF F
    <3>1. k - 1 \in 0 .. Reach
      BY <1>1
    <3> QED BY <1>3, <3>1 DEF Trace
  <2> QED BY <2>1, DivideType
<1>5. g = [k \in 0 .. Reach |-> IF k = 0 THEN Polynomial ELSE Divide(g[k - 1], FALSE)]
  <2>1. \A k \in 0 .. Reach : k = 0 \/ k \in 1 .. Reach
    BY <1>1
  <2> QED BY <1>3, <1>4, <2>1 DEF Trace
<1>6. Trail = [k \in 0 .. Reach |-> IF k = 0 THEN Polynomial ELSE Divide(Trail[k - 1], FALSE)]
  BY <1>5 DEF Trail
<1>7. \A k \in 0 .. Reach : Trail[k] = IF k = 0 THEN Polynomial ELSE Divide(Trail[k - 1], FALSE)
  BY <1>6, Zenon
<1>8. Trail[0] = Polynomial /\ \A k \in 1 .. Reach : Trail[k] = Divide(Trail[k - 1], FALSE)
  <2>1. 0 \in 0 .. Reach /\ \A k \in 1 .. Reach : k \in 0 .. Reach /\ k # 0
    BY <1>1
  <2> QED BY <1>7, <2>1
<1> DEFINE P == {k \in Nat : k <= Reach => Trail[k] \in Register}
<1>9. 0 \in P
  BY <1>1, <1>8
<1>10. ASSUME NEW k \in Nat, k \in P PROVE k + 1 \in P
  <2> SUFFICES ASSUME k + 1 <= Reach PROVE Trail[k + 1] \in Register
    OBVIOUS
  <2>1. k + 1 \in 1 .. Reach /\ (k + 1) - 1 = k /\ Trail[k] \in Register
    BY <1>1, <1>10
  <2>2. Trail[k + 1] = Divide(Trail[k], FALSE)
    BY <1>8, <2>1
  <2> QED BY <2>1, <2>2, DivideType
<1> HIDE DEF P
<1>11. \A k \in 0 .. Reach : Trail[k] \in Register
  <2>1. Nat \subseteq P
    BY <1>9, <1>10, Induction
  <2> QED BY <1>1, <2>1 DEF P
<1>12. Trail \in [0 .. Reach -> Register]
  BY <1>6, <1>11
<1> QED BY <1>8, <1>12

\* The difference of two registers is divided by the difference of the bits.
LEMMA Differences ==
    ASSUME NEW R, NEW S, NEW B, NEW D, NEW p,
           Divides(R, B, p), Divides(S, D, p), R[p] \in Register, S[p] \in Register,
           R[p + 1] \in Register, S[p + 1] \in Register,
           NEW other \in BOOLEAN, other <=> ~(p \in B <=> p \in D)
    PROVE  Xor(R[p + 1], S[p + 1]) = Divide(Xor(R[p], S[p]), other)
<1> DEFINE x == Xor(R[p], S[p])
           y == Xor(R[p + 1], S[p + 1])
           v == Divide(x, other)
<1>1. x \in Register /\ y \in Register
  BY Typed
<1>2. /\ \A i : i \in x <=> ~(i \in R[p] <=> i \in S[p])
      /\ \A i : i \in y <=> ~(i \in R[p + 1] <=> i \in S[p + 1])
  BY DEF Xor
<1> HIDE DEF x, y
<1>3. /\ v \in Register /\ (0 \in v <=> ~(other <=> 31 \in x))
      /\ \A i \in 1..31 : i \in v <=> ~(i - 1 \in x <=> (i \in Polynomial /\ 0 \in v))
  BY <1>1, DivideBits
<1> HIDE DEF v
<1>4. 0 \in y <=> 0 \in v
  BY <1>2, <1>3 DEF Divides
<1>5. ASSUME NEW i \in 1..31 PROVE i \in y <=> i \in v
  <2>1. /\ i \in R[p + 1] <=> ~(i - 1 \in R[p] <=> (i \in Polynomial /\ 0 \in R[p + 1]))
        /\ i \in S[p + 1] <=> ~(i - 1 \in S[p] <=> (i \in Polynomial /\ 0 \in S[p + 1]))
    BY DEF Divides
  <2>2. 0 \in y <=> ~(0 \in R[p + 1] <=> 0 \in S[p + 1])
    BY <1>2
  <2> QED BY <1>2, <1>3, <1>4, <2>1, <2>2
<1>6. \A i \in 0..31 : i = 0 \/ i \in 1..31
  OBVIOUS
<1>7. \A i \in 0..31 : i \in y <=> i \in v
  BY <1>4, <1>5, <1>6
<1>8. y = v
  BY <1>1, <1>3, <1>7 DEF Register
<1> QED BY <1>8 DEF x, y, v

\* A second 1 is undone by {31} only, and zeros move a single bit up to there.
LEMMA Undone ==
    /\ \A x \in Register : Divide(x, TRUE) = {} => x = {31}
    /\ \A t \in 0..30 : Divide({t}, FALSE) = {t + 1}
    /\ Divide({}, TRUE) = Polynomial
<1>1. ASSUME NEW x \in Register, Divide(x, TRUE) = {} PROVE x = {31}
  <2> DEFINE v == Divide(x, TRUE)
  <2>1. /\ 0 \in v <=> ~(TRUE <=> 31 \in x)
        /\ \A i \in 1..31 : i \in v <=> ~(i - 1 \in x <=> (i \in Polynomial /\ 0 \in v))
    BY DivideBits
  <2>2. v = {}
    BY <1>1
  <2> HIDE DEF v
  <2>3. 31 \in x
    BY <2>1, <2>2
  <2>4. ASSUME NEW j \in 0..30 PROVE j \notin x
    <3>1. j + 1 \in 1..31 /\ (j + 1) - 1 = j
      OBVIOUS
    <3> QED BY <2>1, <2>2, <3>1
  <2>5. \A j \in 0..31 : j \in 0..30 \/ j = 31
    OBVIOUS
  <2> QED BY <2>3, <2>4, <2>5 DEF Register
<1>2. ASSUME NEW t \in 0..30 PROVE Divide({t}, FALSE) = {t + 1}
  <2> DEFINE v == Divide({t}, FALSE)
  <2>1. {t} \in Register
    BY DEF Register
  <2>2. /\ v \in Register /\ (0 \in v <=> ~(FALSE <=> 31 \in {t}))
        /\ \A i \in 1..31 : i \in v <=> ~(i - 1 \in {t} <=> (i \in Polynomial /\ 0 \in v))
    BY <2>1, DivideBits
  <2> HIDE DEF v
  <2>3. 0 \notin v /\ \A i \in 1..31 : i \in v <=> i = t + 1
    BY <2>2
  <2>4. \A i \in 0..31 : i \in v <=> i = t + 1
    BY <2>3
  <2>5. t + 1 \in 0..31
    OBVIOUS
  <2>6. v = {t + 1}
    BY <2>2, <2>4, <2>5 DEF Register
  <2> QED BY <2>6 DEF v
<1>3. Divide({}, TRUE) = Polynomial
  <2>1. ShiftLeft({}, 1) = {}
    BY DEF ShiftLeft
  <2>2. Divide({}, TRUE) = Xor(ShiftLeft({}, 1), Polynomial)
    BY DEF Divide
  <2> QED BY <2>1, <2>2 DEF Xor
<1> QED BY <1>1, <1>2, <1>3

\* The words B and D of N + 32 bits differ in the bits of flips.
Differ(B, D, N, flips) ==
    \A p \in 0 .. N + 31 : (p \in B <=> p \in D) <=> p \notin flips

\* Two words with their checksums do not differ in just two bits that near.
LEMMA Pair ==
    ASSUME NEW N \in Nat, NEW R, NEW S, NEW B, NEW D,
           Traced(R, N, B), Checked(R, N, B), Traced(S, N, D), Checked(S, N, D),
           NEW i \in 0 .. N + 31, NEW j \in 0 .. N + 31, i < j, j - i <= Reach,
           Differ(B, D, N, {i, j})
    PROVE  FALSE
<1> DEFINE x(p) == Xor(R[p], S[p])
<1>1. \A p \in 0 .. N + 31 : (p \in B <=> p \in D) <=> p # i /\ p # j
  BY DEF Differ
<1>2. Reach \in Nat /\ \A k \in 0 .. Reach - 1 : Trail[k] # {31}
  BY DamageAssumption
<1>3. /\ \A p \in 0..N : R[p] \in Register /\ S[p] \in Register
      /\ \A p \in 0 .. N - 1 : Divides(R, B, p) /\ Divides(S, D, p)
  BY DEF Traced
<1>4. \A p \in 0..N : p <= i => R[p] = S[p]
  <2>1. i \in Nat /\ \A p \in 0 .. N - 1 : p < i => (p \in B <=> p \in D)
    BY <1>1
  <2> QED BY <2>1, EqualUntil
<1>5. \A q \in 0..31 : 31 - q \in x(N) <=> N + q = i \/ N + q = j
  <2> SUFFICES ASSUME NEW q \in 0..31 PROVE 31 - q \in x(N) <=> N + q = i \/ N + q = j
    OBVIOUS
  <2>1. /\ 31 - q \in R[N] <=> N + q \in B
        /\ 31 - q \in S[N] <=> N + q \in D
    BY DEF Checked
  <2>2. N + q \in 0 .. N + 31
    OBVIOUS
  <2> QED BY <1>1, <2>1, <2>2 DEF Xor
<1>6. i < N
  <2> SUFFICES ASSUME i >= N PROVE FALSE
    OBVIOUS
  <2>1. i - N \in 0..31 /\ N + (i - N) = i /\ N \in 0..N
    OBVIOUS
  <2>2. R[N] = S[N]
    BY <1>4, <2>1
  <2>3. 31 - (i - N) \in x(N)
    BY <1>5, <2>1
  <2> QED BY <2>2, <2>3 DEF Xor
<1>7. ASSUME NEW p \in 0 .. N - 1, NEW other \in BOOLEAN, other <=> (p = i \/ p = j)
      PROVE  x(p + 1) = Divide(x(p), other)
  <2>1. p \in 0..N /\ p + 1 \in 0..N /\ p \in 0 .. N + 31
    OBVIOUS
  <2>2. other <=> ~(p \in B <=> p \in D)
    BY <1>1, <1>7, <2>1
  <2> QED BY <1>3, <2>1, <2>2, Differences
<1>8. \A p \in 0..N : x(p) \in Register
  BY <1>3, Typed
<1>9. x(i) = {}
  <2>1. i \in 0..N /\ R[i] = S[i]
    BY <1>4, <1>6
  <2> QED BY <2>1 DEF Xor
<1> DEFINE P == {k \in Nat : i + 1 + k <= N /\ i + 1 + k <= j => x(i + 1 + k) = Trail[k]}
<1>10. 0 \in P
  <2>1. i \in 0 .. N - 1 /\ TRUE \in BOOLEAN /\ i + 1 + 0 = i + 1
    BY <1>6
  <2>2. x(i + 1) = Divide(x(i), TRUE)
    BY <1>7, <2>1
  <2> HIDE DEF x
  <2>3. x(i + 1) = Trail[0]
    BY <1>9, <2>2, Undone, Trails
  <2> QED BY <2>1, <2>3
<1>11. ASSUME NEW k \in Nat, k \in P PROVE k + 1 \in P
  <2> SUFFICES ASSUME i + 1 + (k + 1) <= N, i + 1 + (k + 1) <= j
               PROVE  x(i + 1 + (k + 1)) = Trail[k + 1]
    OBVIOUS
  <2> DEFINE p == i + 1 + k
  <2>1. /\ p \in 0 .. N - 1 /\ p # i /\ p # j /\ p + 1 = i + 1 + (k + 1)
        /\ p <= N /\ p <= j /\ k + 1 \in 1 .. Reach /\ (k + 1) - 1 = k
    BY <1>2
  <2>2. x(p) = Trail[k]
    BY <1>11, <2>1
  <2> HIDE DEF p
  <2>3. x(p + 1) = Divide(x(p), FALSE)
    BY <1>7, <2>1
  <2> HIDE DEF x
  <2>4. Trail[k + 1] = Divide(Trail[k], FALSE)
    BY <2>1, Trails
  <2> QED BY <2>1, <2>2, <2>3, <2>4
<1> HIDE DEF P
<1>12. ASSUME NEW p \in i + 1 .. N, p <= j PROVE x(p) = Trail[p - (i + 1)]
  <2>1. p - (i + 1) \in Nat /\ i + 1 + (p - (i + 1)) = p /\ p <= N
    OBVIOUS
  <2>2. p - (i + 1) \in P
    BY <1>10, <1>11, <2>1, Induction
  <2> HIDE DEF x
  <2> QED BY <1>12, <2>1, <2>2 DEF P
\* Both bits are divided: the second one would have to undo the first.
<1>13. CASE j < N
  <2>1. x(j + 1) = {}
    <3>1. /\ j + 1 \in 0..N /\ \A p \in j + 1 .. N - 1 : p \in B <=> p \in D
          /\ \A p \in N .. N + 31 : p \in B <=> p \in D
      BY <1>1, <1>13
    <3>2. R[N] = S[N]
      BY <3>1, EqualSeals
    <3>3. R[j + 1] = S[j + 1]
      BY <3>1, <3>2, EqualSince
    <3> QED BY <3>3 DEF Xor
  <2>2. j \in 0 .. N - 1 /\ TRUE \in BOOLEAN /\ j \in 0..N /\ j \in i + 1 .. N
        /\ j - (i + 1) \in 0 .. Reach - 1
    BY <1>2, <1>13
  <2>3. x(j + 1) = Divide(x(j), TRUE)
    BY <1>7, <2>2
  <2>4. x(j) = Trail[j - (i + 1)]
    BY <1>12, <2>2
  <2> HIDE DEF x
  <2>5. x(j) \in Register
    BY <1>8, <2>2
  <2> QED BY <1>2, <2>1, <2>2, <2>3, <2>4, <2>5, Undone
\* The second bit is in the checksum: zeros would move what it met up to {31}.
<1>14. CASE j >= N
  <2> DEFINE q == j - N
             m == N - (i + 1)
  <2>1. q \in 0..31 /\ N + q = j /\ m \in Nat /\ m + q \in 0 .. Reach - 1 /\ N \in i + 1 .. N /\ N <= j
    BY <1>2, <1>6, <1>14
  <2>2. x(N) = Trail[m]
    BY <1>12, <2>1
  <2>3. x(N) = {31 - q}
    <3>1. \A t \in 0..31 : t \in x(N) <=> t = 31 - q
      <4> SUFFICES ASSUME NEW t \in 0..31 PROVE t \in x(N) <=> t = 31 - q
        OBVIOUS
      <4>1. 31 - t \in 0..31 /\ 31 - (31 - t) = t /\ (N + (31 - t) = j <=> t = 31 - q)
            /\ N + (31 - t) # i
        BY <1>6, <2>1
      <4> HIDE DEF x, q
      <4> QED BY <1>5, <4>1
    <3>2. x(N) \in Register /\ 31 - q \in 0..31
      BY <1>8, <2>1
    <3> HIDE DEF x, q
    <3> QED BY <3>1, <3>2 DEF Register
  <2> HIDE DEF x, q, m
  <2> DEFINE Q == {k \in Nat : k <= q => Trail[m + k] = {31 - q + k}}
  <2>4. 0 \in Q
    <3>1. m + 0 = m /\ 31 - q + 0 = 31 - q
      BY <2>1
    <3> QED BY <2>2, <2>3, <3>1
  <2>5. ASSUME NEW k \in Nat, k \in Q PROVE k + 1 \in Q
    <3> SUFFICES ASSUME k + 1 <= q PROVE Trail[m + (k + 1)] = {31 - q + (k + 1)}
      OBVIOUS
    <3>1. /\ 31 - q + k \in 0..30 /\ 31 - q + (k + 1) = (31 - q + k) + 1
          /\ m + (k + 1) \in 1 .. Reach /\ (m + (k + 1)) - 1 = m + k /\ k <= q
      BY <1>2, <2>1
    <3>2. Trail[m + k] = {31 - q + k}
      BY <2>5, <3>1
    <3>3. Trail[m + (k + 1)] = Divide(Trail[m + k], FALSE)
      BY <3>1, Trails
    <3> QED BY <3>1, <3>2, <3>3, Undone
  <2> HIDE DEF Q
  <2>6. q \in Q
    BY <2>1, <2>4, <2>5, Induction
  <2>7. Trail[m + q] = {31 - q + q} /\ 31 - q + q = 31
    BY <2>1, <2>6 DEF Q
  <2> QED BY <1>2, <2>1, <2>7
<1> QED BY <1>13, <1>14

(***************************************************************************)
(* Blocks with their checksum.                                             *)
(***************************************************************************)

\* What validate_crc asks of a block.
Sealed(w) ==
    LET n == Len(w) - 4 IN CrcBytes(crc32(SubSeq(w, 1, n))) = SubSeq(w, n + 1, n + 4)

\* A block that validate_crc accepts is what Burst is about.
LEMMA SealedBits ==
    ASSUME NEW w \in Seq(Octet), Len(w) >= 4, Sealed(w)
    PROVE  \E R : /\ Traced(R, 8 * (Len(w) - 4), Ones(w))
                  /\ Checked(R, 8 * (Len(w) - 4), Ones(w))
<1> DEFINE n == Len(w) - 4
           N == 8 * n
           input == SubSeq(w, 1, n)
           crc == crc32(input)
<1>1. n \in Nat /\ Len(w) = n + 4 /\ N \in Nat /\ N + 31 = 8 * Len(w) - 1 /\ Len(w) \in Nat
  OBVIOUS
<1>2. /\ input \in Seq(Octet) /\ Len(input) = n
      /\ \A i \in 1..n : input[i] = w[i]
  BY <1>1
<1>3. \A i \in 1..4 : CrcBytes(crc)[i] = w[n + i]
  <2>1. CrcBytes(crc) = SubSeq(w, n + 1, n + 4)
    BY DEF Sealed
  <2>2. \A i \in 1..4 : SubSeq(w, n + 1, n + 4)[i] = w[n + i]
    BY <1>1
  <2> QED BY <2>1, <2>2
<1>4. crc \in Register
  BY <1>2, CrcIsRemainder
<1> HIDE DEF input, crc, n
<1>5. PICK R : Traced(R, N, Ones(input)) /\ R[N] = crc
  BY <1>2, Bitwise DEF crc
<1>6. ASSUME NEW p \in 0 .. N - 1 PROVE p \in Ones(input) <=> p \in Ones(w)
  <2> DEFINE i == p \div 8
             k == p % 8
  <2>1. i \in Nat /\ k \in 0..7 /\ p = 8 * i + k
    BY <1>1, Place
  <2>2. i < n /\ i < Len(w) /\ i + 1 \in 1..n /\ 7 - (7 - k) = k
    BY <1>1, <2>1
  <2> HIDE DEF i, k
  <2>3. input[i + 1] = w[i + 1]
    BY <1>2, <2>2
  <2>4. p \in Ones(input) <=> (7 - k) \in input[i + 1]
    BY <1>1, <1>2, <2>1, <2>2, OnesAt
  <2>5. p \in Ones(w) <=> (7 - k) \in w[i + 1]
    BY <1>1, <2>1, <2>2, OnesAt
  <2> QED BY <2>3, <2>4, <2>5
<1>7. Traced(R, N, Ones(w))
  BY <1>5, <1>6 DEF Traced, Divides
<1>8. Checked(R, N, Ones(w))
  <2> SUFFICES ASSUME NEW q \in 0..31 PROVE 31 - q \in R[N] <=> N + q \in Ones(w)
    BY DEF Checked
  <2> DEFINE j == q \div 8
             k == q % 8
  <2>1. j \in 0..3 /\ k \in 0..7 /\ q = 8 * j + k
    BY Place
  <2> HIDE DEF j, k
  <2>2. /\ j + 1 \in 1..4 /\ 32 - 8 * (j + 1) \in Nat /\ 7 - k \in 0..31 /\ 7 - k \in 0..7
        /\ (7 - k) + (32 - 8 * (j + 1)) = 31 - q
    BY <2>1
  <2>3. w[n + (j + 1)] = Byte(ShiftRight(crc, 32 - 8 * (j + 1)))
    <3>1. CrcBytes(crc)[j + 1] = Byte(ShiftRight(crc, 32 - 8 * (j + 1)))
      BY <2>2 DEF CrcBytes
    <3> QED BY <1>3, <2>2, <3>1
  <2>4. 7 - k \in w[n + (j + 1)] <=> 31 - q \in crc
    <3>1. 7 - k \in ShiftRight(crc, 32 - 8 * (j + 1)) <=> (7 - k) + (32 - 8 * (j + 1)) \in crc
      BY <1>4, <2>2, Shifts
    <3> QED BY <2>2, <2>3, <3>1 DEF Byte
  <2>5. n + j \in Nat /\ n + j < Len(w) /\ 8 * (n + j) + k = N + q /\ (n + j) + 1 = n + (j + 1)
    BY <1>1, <2>1
  <2>6. 8 * (n + j) + k \in Ones(w) <=> (7 - k) \in w[(n + j) + 1]
    BY <1>1, <2>1, <2>5, OnesAt
  <2> QED BY <1>5, <2>4, <2>5, <2>6
<1> QED BY <1>7, <1>8 DEF n

\* The block as pack_crc leaves it, and after the way to the server.
Block(p) == LET samples == [k \in DOMAIN p |-> Bits(p[k], 8)] IN samples \o CrcBytes(crc32(samples))
Flip(w, flips) ==
    [k \in DOMAIN w |-> Xor(w[k], {7 - (p % 8) : p \in {q \in flips : q \div 8 = k - 1}})]

LEMMA BlockIsSealed ==
    ASSUME NEW p \in Payloads
    PROVE  /\ Block(p) \in Seq(Octet) /\ Len(Block(p)) = Len(p) + 4 /\ Len(p) \in Nat
           /\ SubSeq(Block(p), 1, Len(p)) \in Seq(Octet)
           /\ Sealed(Block(p))
<1> DEFINE n == Len(p)
           samples == [k \in DOMAIN p |-> Bits(p[k], 8)]
           seal == CrcBytes(crc32(samples))
           w == samples \o seal
<1>1. p \in Seq(0..255) /\ n \in Nat /\ DOMAIN p = 1..n
  BY CrcAssumption
<1>2. samples \in Seq(Octet) /\ Len(samples) = n
  <2>1. \A m : Bits(m, 8) \in Octet
    BY DEF Bits, Octet
  <2>2. samples \in [1..n -> Octet]
    BY <1>1, <2>1
  <2> QED BY <1>1, <2>2
<1>3. seal \in Seq(Octet) /\ Len(seal) = 4
  <2> HIDE DEF samples
  <2>1. seal = [k \in 1..4 |-> Byte(ShiftRight(crc32(samples), 32 - 8 * k))]
    BY DEF CrcBytes
  <2>2. seal \in [1..4 -> Octet]
    BY <2>1, Typed
  <2> HIDE DEF seal
  <2>3. \A m \in Nat : \A s \in [1..m -> Octet] : s \in Seq(Octet) /\ Len(s) = m
    OBVIOUS
  <2>4. 4 \in Nat
    OBVIOUS
  <2> QED BY <2>2, <2>3, <2>4, Zenon
<1>4. Block(p) = w
  BY DEF Block
<1> HIDE DEF samples, seal
<1>5. /\ w \in Seq(Octet) /\ Len(w) = n + 4
      /\ \A i \in 1 .. n + 4 : w[i] = IF i <= n THEN samples[i] ELSE seal[i - n]
  <2>1. /\ samples \o seal \in Seq(Octet) /\ Len(samples \o seal) = Len(samples) + Len(seal)
        /\ \A i \in 1 .. Len(samples) + Len(seal) :
              (samples \o seal)[i] = IF i <= Len(samples) THEN samples[i] ELSE seal[i - Len(samples)]
    <3>1. samples \in Seq(Octet) /\ seal \in Seq(Octet)
      BY <1>2, <1>3
    <3> QED BY <3>1, ConcatProperties
  <2> QED BY <1>2, <1>3, <2>1
<1> HIDE DEF w, n
<1>6. SubSeq(w, 1, n) = samples
  <2>1. SubSeq(w, 1, n) \in Seq(Octet) /\ Len(SubSeq(w, 1, n)) = n
        /\ \A i \in 1..n : SubSeq(w, 1, n)[i] = samples[i]
    BY <1>1, <1>5
  <2> QED BY <1>2, <2>1, SeqEqual
<1>7. SubSeq(w, n + 1, n + 4) = seal
  <2>1. SubSeq(w, n + 1, n + 4) \in Seq(Octet) /\ Len(SubSeq(w, n + 1, n + 4)) = 4
        /\ \A i \in 1..4 : SubSeq(w, n + 1, n + 4)[i] = seal[i]
    BY <1>1, <1>5
  <2> QED BY <1>3, <2>1, SeqEqual
<1>8. Sealed(w)
  <2>1. Len(w) - 4 = n
    BY <1>1, <1>5
  <2> QED BY <1>6, <1>7, <2>1 DEF Sealed, seal
<1> QED BY <1>1, <1>2, <1>4, <1>5, <1>6, <1>8 DEF n

\* A flipped bit is the other one, and the rest of the block stays.
LEMMA Flipped ==
    ASSUME NEW w \in Seq(Octet), NEW flips \in SUBSET (0 .. 8 * Len(w) - 1)
    PROVE  /\ Flip(w, flips) \in Seq(Octet) /\ Len(Flip(w, flips)) = Len(w)
           /\ \A p \in 0 .. 8 * Len(w) - 1 :
                 p \in Ones(Flip(w, flips)) <=> ~(p \in Ones(w) <=> p \in flips)
           /\ flips = {} => Flip(w, flips) = w
<1> DEFINE n == Len(w)
           turned(i) == {7 - (p % 8) : p \in {q \in flips : q \div 8 = i - 1}}
           v == Flip(w, flips)
<1>1. n \in Nat /\ DOMAIN w = 1..n /\ \A i \in 1..n : w[i] \in Octet
  OBVIOUS
<1>2. v = [i \in 1..n |-> Xor(w[i], turned(i))]
  BY <1>1 DEF Flip
<1>3. ASSUME NEW i \in Nat, i < n, NEW k \in 0..7
      PROVE  7 - k \in turned(i + 1) <=> 8 * i + k \in flips
  <2>1. ASSUME 8 * i + k \in flips PROVE 7 - k \in turned(i + 1)
    <3>1. (8 * i + k) \div 8 = (i + 1) - 1 /\ 7 - ((8 * i + k) % 8) = 7 - k
      BY PlaceOf
    <3> QED BY <2>1, <3>1
  <2>2. ASSUME 7 - k \in turned(i + 1) PROVE 8 * i + k \in flips
    <3>1. PICK p \in flips : p \div 8 = (i + 1) - 1 /\ 7 - (p % 8) = 7 - k
      BY <2>2
    <3>2. p \in Nat
      BY <1>1
    <3>3. (p % 8) \in 0..7 /\ p = 8 * (p \div 8) + (p % 8) /\ p \div 8 \in Nat
      BY <3>2, Place
    <3>4. p \div 8 = i /\ (p % 8) = k
      BY <3>1, <3>3
    <3> QED BY <3>3, <3>4
  <2> QED BY <2>1, <2>2
<1>4. \A i \in 1..n : turned(i) \in Octet
  <2> SUFFICES ASSUME NEW p \in flips PROVE 7 - (p % 8) \in 0..7
    BY DEF Octet
  <2>1. p \in Nat
    BY <1>1
  <2>2. (p % 8) \in 0..7
    BY <2>1, Place
  <2> QED BY <2>2
<1> HIDE DEF turned, n
<1>5. v \in Seq(Octet) /\ Len(v) = n /\ \A i \in 1..n : v[i] = Xor(w[i], turned(i))
  <2> HIDE DEF v
  <2>1. v \in [1..n -> Octet]
    BY <1>1, <1>2, <1>4, Typed
  <2> QED BY <1>1, <1>2, <2>1
<1> HIDE DEF v
<1>6. ASSUME NEW p \in 0 .. 8 * n - 1
      PROVE  p \in Ones(v) <=> ~(p \in Ones(w) <=> p \in flips)
  <2> DEFINE i == p \div 8
             k == p % 8
  <2>1. i \in Nat /\ k \in 0..7 /\ p = 8 * i + k
    BY <1>1, Place
  <2>2. i < n /\ i + 1 \in 1..n
    BY <1>1, <2>1
  <2> HIDE DEF i, k
  <2>3. p \in Ones(v) <=> (7 - k) \in v[i + 1]
    BY <1>1, <1>5, <2>1, <2>2, OnesAt
  <2>4. p \in Ones(w) <=> (7 - k) \in w[i + 1]
    BY <1>1, <2>1, <2>2, OnesAt DEF n
  <2>5. (7 - k) \in turned(i + 1) <=> p \in flips
    BY <1>3, <2>1, <2>2
  <2>6. (7 - k) \in v[i + 1] <=> ~((7 - k) \in w[i + 1] <=> (7 - k) \in turned(i + 1))
    BY <1>5, <2>2 DEF Xor
  <2> QED BY <2>3, <2>4, <2>5, <2>6
<1>7. ASSUME flips = {} PROVE v = w
  <2>1. ASSUME NEW i \in 1..n PROVE v[i] = w[i]
    <3>1. turned(i) = {}
      BY <1>7 DEF turned
    <3> QED BY <1>5, <3>1 DEF Xor
  <2> QED BY <1>5, <2>1, SeqEqual DEF n
<1> QED BY <1>5, <1>6, <1>7 DEF v, n

(***************************************************************************)
(* The behaviours.                                                         *)
(***************************************************************************)

\* The first bit of a burst.
LEMMA BurstStarts ==
    ASSUME NEW flips \in SUBSET Nat, flips # {}, InBurst(flips)
    PROVE  \E a \in Nat : flips \subseteq a .. a + 31
<1> DEFINE less == OpToRel(<, Nat)
<1>1. IsWellFoundedOn(less, Nat)
  BY NatLessThanWellFounded
<1>2. \A x, y \in Nat : <<x, y>> \in less <=> x < y
  BY DEF OpToRel
<1> HIDE DEF less
<1>3. PICK a \in flips : \A y \in flips : ~(<<y, a>> \in less)
  BY <1>1, WFMin
<1>4. \A y \in flips : y \in Nat
  OBVIOUS
<1>5. ASSUME NEW y \in flips PROVE y \in a .. a + 31
  <2>1. ~(y < a)
    BY <1>2, <1>3, <1>4
  <2>2. y - a < 32
    BY DEF InBurst
  <2> QED BY <1>4, <2>1, <2>2
<1>6. flips \subseteq a .. a + 31 /\ a \in Nat
  BY <1>4, <1>5
<1> QED BY <1>6

\* A block with one of the damages is refused, and one that is not damaged accepted.
LEMMA DamageIsRefused ==
    ASSUME NEW w \in Seq(Octet), Len(w) >= 4, Sealed(w),
           NEW flips \in SUBSET (0 .. 8 * Len(w) - 1), InBurst(flips) \/ TwoBits(flips)
    PROVE  Sealed(Flip(w, flips)) <=> flips = {}
<1> DEFINE v == Flip(w, flips)
           N == 8 * (Len(w) - 4)
           B == Ones(w)
           D == Ones(v)
<1>1. /\ v \in Seq(Octet) /\ Len(v) = Len(w) /\ (flips = {} => v = w)
      /\ \A p \in 0 .. 8 * Len(w) - 1 : p \in D <=> ~(p \in B <=> p \in flips)
  BY Flipped
<1>2. N \in Nat /\ N + 31 = 8 * Len(w) - 1 /\ flips \in SUBSET Nat
  OBVIOUS
<1>3. ASSUME Sealed(v), flips # {} PROVE FALSE
  <2>1. PICK R : Traced(R, N, B) /\ Checked(R, N, B)
    BY SealedBits
  <2>2. PICK S : Traced(S, N, D) /\ Checked(S, N, D)
    <3> HIDE DEF v
    <3>1. Len(v) - 4 = Len(w) - 4 /\ Len(v) >= 4
      BY <1>1
    <3>2. \E S : Traced(S, 8 * (Len(v) - 4), D) /\ Checked(S, 8 * (Len(v) - 4), D)
      BY <1>1, <1>3, <3>1, SealedBits
    <3> QED BY <3>1, <3>2
  <2> HIDE DEF v, N, B, D
  <2>3. \A p \in 0 .. N + 31 : (p \in B <=> p \in D) <=> p \notin flips
    BY <1>1, <1>2
  <2>4. N \in Nat
    BY <1>2
  <2>5. CASE InBurst(flips)
    <3>1. PICK a \in Nat : flips \subseteq a .. a + 31
      BY <1>2, <1>3, <2>5, BurstStarts
    <3>2. \A p \in 0 .. N + 31 : p \notin a .. a + 31 => (p \in B <=> p \in D)
      BY <2>3, <3>1
    <3>3. \A p \in 0 .. N + 31 : p \in B <=> p \in D
      BY <2>1, <2>2, <2>4, <3>2, Burst
    <3>4. PICK p \in flips : TRUE
      BY <1>3
    <3>5. p \in 0 .. N + 31
      BY <1>2, <3>4
    <3> QED BY <2>3, <3>3, <3>4, <3>5
  <2>6. CASE TwoBits(flips)
    <3>1. flips \subseteq 0 .. N + 31
      BY <1>2
    <3>2. PICK i \in 0 .. N + 31, j \in 0 .. N + 31 : i < j /\ j - i <= Reach /\ flips = {i, j}
      BY <2>6, <3>1 DEF TwoBits
    <3>3. Differ(B, D, N, {i, j})
      BY <2>3, <3>2 DEF Differ
    <3>4. i < j /\ j - i <= Reach
      BY <3>2
    <3> QED BY <2>1, <2>2, <2>4, <3>3, <3>4, Pair
  <2> QED BY <2>5, <2>6
<1> QED BY <1>1, <1>3

(* The inductive invariant: at every step the block is the packed one with  *)
(* the damage that has been done, and the verdict is that on this block.    *)
IInv ==
    /\ step \in {"pack", "send", "validate", "done"}
    /\ payload \in Payloads
    /\ step = "send" => cache = Block(payload)
    /\ step \in {"validate", "done"} =>
          /\ flipped \in Noise
          /\ flipped \subseteq 0 .. 8 * Len(Block(payload)) - 1
          /\ cache = Flip(Block(payload), flipped)
    /\ step = "done" => (valid <=> Sealed(cache))

LEMMA IInvStep == IInv /\ [Next]_vars => IInv'
<1> SUFFICES ASSUME IInv, [Next]_vars PROVE IInv'
  OBVIOUS
<1>1. CASE pack_crc
  <2>1. step' = "send" /\ cache' = Block(payload) /\ payload' = payload
    BY <1>1 DEF pack_crc, Block
  <2> QED BY <2>1 DEF IInv
<1>2. CASE Damage
  <2>1. step = "send" /\ step' = "validate" /\ payload' = payload /\ cache = Block(payload)
    BY <1>2 DEF Damage, IInv
  <2>2. flipped' \in Noise /\ \A p \in flipped' : p < 8 * Len(cache)
    BY <1>2 DEF Damage
  <2>3. cache' = Flip(cache, flipped')
    BY <1>2 DEF Damage, Flip
  <2>4. flipped' \subseteq 0 .. 8 * Len(cache) - 1
    <3>1. Len(cache) \in Nat
      BY <2>1, BlockIsSealed DEF IInv
    <3>2. flipped' \subseteq Nat
      BY <2>2, CrcAssumption
    <3> QED BY <2>2, <3>1, <3>2
  <2> QED BY <2>1, <2>2, <2>3, <2>4 DEF IInv
<1>3. CASE validate_crc
  <2>1. step = "validate" /\ step' = "done" /\ UNCHANGED <<payload, cache, flipped>>
    BY <1>3 DEF validate_crc
  <2>2. valid' <=> Sealed(cache)
    BY <1>3 DEF validate_crc, Sealed
  <2>3. Sealed(cache') <=> Sealed(cache)
    BY <2>1
  <2> QED BY <2>1, <2>2, <2>3 DEF IInv
<1>4. CASE UNCHANGED vars
  BY <1>4 DEF vars, IInv
<1> QED BY <1>1, <1>2, <1>3, <1>4 DEF Next

LEMMA IInvAlways == Spec => []IInv
<1>1. Init => IInv
  BY DEF Init, IInv
<1> QED BY <1>1, IInvStep, PTL DEF Spec

(* ChecksumIsRemainder: the table and the loop of crc32 compute the         *)
(* remainder of the division, for blocks of every length and content.       *)
THEOREM ChecksumDivides == Spec => []ChecksumIsRemainder
<1>1. IInv => ChecksumIsRemainder
  <2> SUFFICES ASSUME IInv, step = "send"
               PROVE  crc32(SubSeq(cache, 1, Len(cache) - 4))
                         = Remainder(SubSeq(cache, 1, Len(cache) - 4))
    BY DEF ChecksumIsRemainder
  <2>1. SubSeq(cache, 1, Len(cache) - 4) \in Seq(Octet)
    <3>1. /\ SubSeq(Block(payload), 1, Len(payload)) \in Seq(Octet)
          /\ Len(Block(payload)) - 4 = Len(payload)
      BY BlockIsSealed DEF IInv
    <3>2. cache = Block(payload)
      BY DEF IInv
    <3> QED BY <3>1, <3>2
  <2> QED BY <2>1, CrcIsRemainder
<1> QED BY <1>1, IInvAlways, PTL

(* DamageIsDetected: validate_crc accepts a block that arrives as it was    *)
(* packed, and refuses one in which any bits within 32 neighbouring ones,   *)
(* or two bits up to Reach apart, were flipped, in the samples, in the      *)
(* checksum or across both, for blocks of every length.                     *)
THEOREM DamageDetection == Spec => []DamageIsDetected
<1>1. IInv => DamageIsDetected
  <2> SUFFICES ASSUME IInv, step = "done" PROVE valid <=> flipped = {}
    BY DEF DamageIsDetected
  <2> DEFINE w == Block(payload)
  <2>1. w \in Seq(Octet) /\ Len(w) >= 4 /\ Sealed(w)
    BY BlockIsSealed DEF IInv
  <2>2. flipped \in SUBSET (0 .. 8 * Len(w) - 1) /\ (valid <=> Sealed(Flip(w, flipped)))
    BY DEF IInv
  <2>3. InBurst(flipped) \/ TwoBits(flipped)
    BY DamageAssumption DEF IInv
  <2> HIDE DEF w
  <2> QED BY <2>1, <2>2, <2>3, DamageIsRefused
<1> QED BY <1>1, IInvAlways, PTL
=============================================================================
