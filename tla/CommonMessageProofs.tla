------------------------- MODULE CommonMessageProofs -------------------------
(***************************************************************************)
(* Proofs about CommonMessage, for every size of a byte, every limit and   *)
(* every set of messages that clients may send.                            *)
(*                                                                         *)
(* None of the properties is inductive: each speaks of the moment when a   *)
(* message has been parsed.  The invariant below says, stage by stage,     *)
(* what has arrived in input_buffer_ (Arrived) and what the loop has       *)
(* established about the positions behind it (Walked).                     *)
(***************************************************************************)
EXTENDS CommonMessage, TLAPS, WellFoundedInduction

\* The head has been accepted and the first n bytes are in the buffer.
Holds(a, n) == \A i \in 0 .. n - 1 : a[i] = wire[i + 1]
Arrived ==
    /\ pc \in {"body", "loop", "parsed"} =>
          /\ message_body_length = Announced(wire) /\ Fits(message_body_length)
          /\ Holds(input_buffer, MESSAGE_HEAD_LENGTH)
    /\ pc \in {"loop", "parsed"} => Holds(input_buffer, Len(wire))
    /\ pc = "parsed" => Holds(message_data, Len(wire)) /\ byte_count = Len(wire)

\* The recorded positions chain the parameters of the buffer a.
Chain(a) ==
    /\ parameter_positions[1] = MESSAGE_HEAD_LENGTH
    /\ parameter_positions[Len(parameter_positions)] = byte_count
    /\ \A k \in 1 .. Len(parameter_positions) - 1 :
          /\ parameter_positions[k] + PARAMETER_HEAD_LENGTH <= byte_count
          /\ parameter_positions[k + 1] =
                parameter_positions[k] + PARAMETER_HEAD_LENGTH
                    + ParameterLength(a, parameter_positions[k])
Walked ==
    /\ pc = "loop" => /\ byte_count <= Len(wire)
                      /\ byte_count >= MESSAGE_HEAD_LENGTH
                      /\ Len(parameter_positions) >= 1
                      /\ Chain(input_buffer)
    /\ pc = "parsed" => Len(parameter_positions) >= 2 /\ Chain(message_data)

IInv == TypeOK /\ Arrived /\ Walked

\* What the assumption on Wire says of one accepted message.
LEMMA WireLength ==
    ASSUME NEW w \in Wire
    PROVE  /\ w \in Seq(Byte) /\ Len(w) \in Nat /\ Len(w) >= 5
           /\ Announced(w) \in Nat
           /\ Fits(Announced(w)) =>
                 Len(w) = 5 + Announced(w) /\ Len(w) < MAX_MESSAGE_LENGTH
           /\ \A i \in 1..Len(w) : w[i] \in Byte
<1>1. w \in Seq(Byte) /\ Len(w) \in Nat /\ Len(w) >= 5
  BY CommonMessageAssumption DEF MESSAGE_HEAD_LENGTH
<1>2. \A i \in 1..Len(w) : w[i] \in Byte
  BY <1>1
<1>3. w[4] \in Nat /\ w[5] \in Nat
  BY <1>1, <1>2, CommonMessageAssumption DEF Byte
<1>4. Announced(w) \in Nat
  BY <1>3, CommonMessageAssumption DEF Announced
<1>5. Fits(Announced(w)) => Len(w) = 5 + Announced(w)
  BY CommonMessageAssumption DEF MESSAGE_HEAD_LENGTH
<1>6. Fits(Announced(w)) => Len(w) < MAX_MESSAGE_LENGTH
  BY <1>1, <1>4, <1>5, CommonMessageAssumption DEF Fits, MESSAGE_HEAD_LENGTH
<1> QED BY <1>1, <1>2, <1>4, <1>5, <1>6

\* Two bytes of a buffer are a number.
LEMMA TwoBytes ==
    ASSUME NEW a, NEW i, a[i] \in Byte, a[i + 1] \in Byte
    PROVE  U16(a, i) \in Nat
<1>1. a[i] \in Nat /\ a[i + 1] \in Nat /\ Base \in Nat
  BY CommonMessageAssumption DEF Byte
<1> QED BY <1>1 DEF U16

\* What Overlay leaves in a buffer of bytes.
LEMMA OverlayType ==
    ASSUME NEW n \in Nat, NEW a \in [0..n - 1 -> Byte], NEW w \in Seq(Byte),
           NEW from \in Nat, NEW to \in Nat, to <= Len(w)
    PROVE  /\ Overlay(a, w, from, to) \in [0..n - 1 -> Byte]
           /\ \A i \in 0..n - 1 : Overlay(a, w, from, to)[i] =
                 IF from <= i /\ i < to THEN w[i + 1] ELSE a[i]
<1>1. DOMAIN a = 0..n - 1
  OBVIOUS
<1>2. \A i \in 0..n - 1 : from <= i /\ i < to => w[i + 1] \in Byte
  <2> SUFFICES ASSUME NEW i \in 0..n - 1, from <= i, i < to
               PROVE  w[i + 1] \in Byte
    OBVIOUS
  <2>1. i + 1 \in 1..Len(w)
    OBVIOUS
  <2> QED BY <2>1
<1> QED BY <1>1, <1>2 DEF Overlay

LEMMA InitInvariant == Init => IInv
<1> SUFFICES ASSUME Init PROVE IInv
  OBVIOUS
<1>1. 0 \in Byte
  BY CommonMessageAssumption DEF Byte
<1>2. TypeOK
  BY <1>1, CommonMessageAssumption DEF Init, TypeOK, Stages, Input, Memory
<1> QED BY <1>2 DEF Init, IInv, Arrived, Walked

\* The head of a message takes its place in the buffer.
LEMMA ReadHeadInvariant == IInv /\ ReadHead => IInv'
<1> SUFFICES ASSUME IInv, ReadHead PROVE IInv'
  OBVIOUS
<1> USE DEF MESSAGE_HEAD_LENGTH
<1>1. /\ wire \in Wire /\ wire' = wire /\ wire \in Seq(Byte) /\ Len(wire) >= 5
      /\ Len(wire) \in Nat
  BY WireLength DEF IInv, TypeOK, ReadHead
<1>2. input_buffer \in [0..InputSize - 1 -> Byte] /\ InputSize \in Nat /\ InputSize > 5
  BY CommonMessageAssumption DEF IInv, TypeOK, Input, PARAMETER_HEAD_LENGTH
<1>3. input_buffer' = Overlay(input_buffer, wire, 0, 5)
  BY DEF ReadHead
<1>4. /\ input_buffer' \in [0..InputSize - 1 -> Byte]
      /\ \A i \in 0..InputSize - 1 : input_buffer'[i] =
            IF 0 <= i /\ i < 5 THEN wire[i + 1] ELSE input_buffer[i]
  BY <1>1, <1>2, <1>3, OverlayType
<1>5. /\ input_buffer'[1] = wire[2] /\ input_buffer'[2] = wire[3]
      /\ input_buffer'[3] = wire[4] /\ input_buffer'[4] = wire[5]
      /\ \A i \in 0..4 : input_buffer'[i] = wire[i + 1]
  BY <1>2, <1>4
<1>6. /\ message_type' = U16(input_buffer', 1)
      /\ message_body_length' = U16(input_buffer', 3)
      /\ pc' = IF Fits(message_body_length') THEN "body" ELSE "closed"
  BY DEF ReadHead, parse_message_head
<1>7. message_body_length' = Announced(wire)
  BY <1>5, <1>6 DEF U16, Announced
<1>8. message_type' \in Nat /\ message_body_length' \in Nat
  <2>1. /\ input_buffer'[1] \in Byte /\ input_buffer'[1 + 1] \in Byte
        /\ input_buffer'[3] \in Byte /\ input_buffer'[3 + 1] \in Byte
    BY <1>2, <1>4
  <2>2. U16(input_buffer', 1) \in Nat /\ U16(input_buffer', 3) \in Nat
    BY <2>1, TwoBytes
  <2> QED BY <2>2, <1>6
<1>9. pc' \in {"body", "closed"} /\ (pc' = "body" => Fits(message_body_length'))
  BY <1>6
<1>10. TypeOK'
  BY <1>1, <1>4, <1>8, <1>9 DEF IInv, TypeOK, ReadHead, Stages, Input
<1>11. Arrived'
  BY <1>1, <1>5, <1>7, <1>9 DEF Arrived, Holds
<1>12. Walked'
  BY <1>9 DEF Walked
<1> QED BY <1>10, <1>11, <1>12 DEF IInv

\* The body takes its place behind the head, which stays as it was.
LEMMA ReadBodyInvariant == IInv /\ ReadBody => IInv'
<1> SUFFICES ASSUME IInv, ReadBody PROVE IInv'
  OBVIOUS
<1> USE DEF MESSAGE_HEAD_LENGTH
<1>1. /\ wire \in Wire /\ wire' = wire /\ pc = "body" /\ pc' = "loop"
      /\ message_body_length = Announced(wire) /\ Fits(Announced(wire))
  BY DEF IInv, TypeOK, Arrived, ReadBody
<1>2. /\ wire \in Seq(Byte) /\ Len(wire) \in Nat /\ Len(wire) >= 5
      /\ Announced(wire) \in Nat
      /\ Len(wire) = 5 + Announced(wire) /\ Len(wire) < MAX_MESSAGE_LENGTH
  BY <1>1, WireLength
<1>3. /\ input_buffer \in [0..InputSize - 1 -> Byte] /\ InputSize \in Nat
      /\ Len(wire) < InputSize
  BY <1>2, CommonMessageAssumption DEF IInv, TypeOK, Input, PARAMETER_HEAD_LENGTH
<1>4. input_buffer' = Overlay(input_buffer, wire, 5, Len(wire))
  BY <1>1, <1>2 DEF ReadBody
<1>5. /\ input_buffer' \in [0..InputSize - 1 -> Byte]
      /\ \A i \in 0..InputSize - 1 : input_buffer'[i] =
            IF 5 <= i /\ i < Len(wire) THEN wire[i + 1] ELSE input_buffer[i]
  <2>1. /\ 5 \in Nat /\ Len(wire) \in Nat /\ Len(wire) <= Len(wire)
        /\ wire \in Seq(Byte) /\ InputSize \in Nat
        /\ input_buffer \in [0..InputSize - 1 -> Byte]
    BY <1>2, <1>3
  <2>2. /\ Overlay(input_buffer, wire, 5, Len(wire)) \in [0..InputSize - 1 -> Byte]
        /\ \A i \in 0..InputSize - 1 : Overlay(input_buffer, wire, 5, Len(wire))[i] =
              IF 5 <= i /\ i < Len(wire) THEN wire[i + 1] ELSE input_buffer[i]
    BY <2>1, OverlayType, SMTT(30)
  <2> QED BY <2>2, <1>4
<1>6. \A i \in 0..4 : input_buffer[i] = wire[i + 1]
  BY <1>1 DEF IInv, Arrived, Holds
<1>7. \A i \in 0..Len(wire) - 1 : input_buffer'[i] = wire[i + 1]
  BY <1>2, <1>3, <1>5, <1>6
<1>8. /\ input_buffer'[3] = wire[4] /\ input_buffer'[4] = wire[5]
      /\ \A i \in 0..4 : input_buffer'[i] = wire[i + 1]
  BY <1>2, <1>7
<1>9. message_type' = U16(input_buffer', 1) /\ message_body_length' = U16(input_buffer', 3)
  BY DEF ReadBody
<1>10. message_body_length' = Announced(wire)
  BY <1>8, <1>9 DEF U16, Announced
<1>11. message_type' \in Nat
  <2>1. input_buffer'[1] \in Byte /\ input_buffer'[1 + 1] \in Byte
    BY <1>2, <1>3, <1>5
  <2> QED BY <2>1, <1>9, TwoBytes
<1>12. byte_count' = 5 /\ parameter_positions' = <<5>>
  BY DEF ReadBody
<1>13. TypeOK'
  BY <1>1, <1>2, <1>5, <1>10, <1>11, <1>12 DEF IInv, TypeOK, ReadBody, Stages, Input
<1>14. Arrived'
  BY <1>1, <1>7, <1>8, <1>10 DEF Arrived, Holds
<1>15. Walked'
  <2>1. Len(parameter_positions') = 1 /\ parameter_positions'[1] = 5
    BY <1>12
  <2> QED BY <1>1, <1>2, <1>12, <2>1 DEF Walked, Chain
<1> QED BY <1>13, <1>14, <1>15 DEF IInv

(* A round of the loop appends one position, and if it was the last one the *)
(* message is copied as far as that position.                               *)
LEMMA ReadParameterInvariant == IInv /\ ReadParameter => IInv'
<1> SUFFICES ASSUME IInv, ReadParameter PROVE IInv'
  OBVIOUS
<1> USE DEF MESSAGE_HEAD_LENGTH, PARAMETER_HEAD_LENGTH
<1> DEFINE here == byte_count
           n == Len(parameter_positions)
           more == ParameterLength(input_buffer, here)
<1>1. /\ wire \in Wire /\ wire' = wire /\ pc = "loop" /\ input_buffer' = input_buffer
      /\ message_body_length' = message_body_length /\ message_type' = message_type
      /\ message_body_length = Announced(wire) /\ Fits(Announced(wire))
  BY DEF IInv, TypeOK, Arrived, ReadParameter
<1>2. /\ wire \in Seq(Byte) /\ Len(wire) \in Nat /\ Len(wire) >= 5
      /\ Announced(wire) \in Nat
      /\ Len(wire) = 5 + Announced(wire) /\ Len(wire) < MAX_MESSAGE_LENGTH
  BY <1>1, WireLength
<1>3. /\ input_buffer \in [0..InputSize - 1 -> Byte] /\ InputSize \in Nat
      /\ InputSize >= MAX_MESSAGE_LENGTH + 4 /\ MAX_MESSAGE_LENGTH \in Nat
  BY CommonMessageAssumption DEF IInv, TypeOK, Input
<1>4. /\ here \in Nat /\ here <= Len(wire) /\ here >= 5
      /\ parameter_positions \in Seq(Nat) /\ n \in Nat /\ n >= 1
      /\ Chain(input_buffer)
  BY <1>1 DEF IInv, TypeOK, Walked
<1>5. more \in Nat
  <2>1. input_buffer[here + 2] \in Byte /\ input_buffer[here + 2 + 1] \in Byte
    BY <1>2, <1>3, <1>4
  <2>2. here + 2 \in Nat
    BY <1>4
  <2> QED BY <2>1, <2>2, TwoBytes DEF ParameterLength
<1>6. /\ byte_count' = here + more + 4 /\ byte_count' \in Nat /\ byte_count' >= here + 4
      /\ parameter_positions' = Append(parameter_positions, byte_count')
  BY <1>4, <1>5 DEF ReadParameter, unpack_parameter
<1>7. /\ parameter_positions' \in Seq(Nat) /\ Len(parameter_positions') = n + 1
      /\ parameter_positions'[n + 1] = byte_count'
      /\ \A k \in 1..n : parameter_positions'[k] = parameter_positions[k]
  BY <1>4, <1>6
<1>8. Chain(input_buffer)'
  <2>1. /\ parameter_positions[1] = 5 /\ parameter_positions[n] = here
        /\ \A k \in 1..n - 1 :
              /\ parameter_positions[k] + 4 <= here
              /\ parameter_positions[k + 1] = parameter_positions[k] + 4
                    + ParameterLength(input_buffer, parameter_positions[k])
    BY <1>4 DEF Chain
  <2>2. \A k \in 1..n : parameter_positions[k] \in Nat
    BY <1>4
  <2>3. \A k \in 1..n :
           /\ parameter_positions'[k] + 4 <= byte_count'
           /\ parameter_positions'[k + 1] = parameter_positions'[k] + 4
                 + ParameterLength(input_buffer, parameter_positions'[k])
    <3> SUFFICES ASSUME NEW k \in 1..n
                 PROVE  /\ parameter_positions'[k] + 4 <= byte_count'
                        /\ parameter_positions'[k + 1] = parameter_positions'[k] + 4
                              + ParameterLength(input_buffer, parameter_positions'[k])
      OBVIOUS
    <3>1. CASE k = n
      <4>1. parameter_positions'[k] = here /\ parameter_positions'[k + 1] = byte_count'
        BY <2>1, <1>4, <1>7, <3>1
      <4> QED BY <4>1, <1>4, <1>5, <1>6
    <3>2. CASE k # n
      <4>1. k \in 1..n - 1 /\ k + 1 \in 1..n
        BY <1>4, <3>2
      <4>2. /\ parameter_positions'[k] = parameter_positions[k]
            /\ parameter_positions'[k + 1] = parameter_positions[k + 1]
        BY <4>1, <1>7
      <4>3. parameter_positions[k] + 4 <= here
        BY <4>1, <2>1
      <4>4. parameter_positions[k] + 4 <= byte_count'
        BY <4>3, <2>2, <1>4, <1>6
      <4> QED BY <4>1, <4>2, <4>4, <2>1
    <3> QED BY <3>1, <3>2
  <2>4. parameter_positions'[1] = 5
    BY <1>4, <1>7, <2>1
  <2> QED BY <1>1, <1>4, <1>7, <2>3, <2>4 DEF Chain
<1>9. message_body_length \in Nat /\ Holds(input_buffer, Len(wire))
  BY <1>1, <1>2 DEF IInv, Arrived
<1>10. parse_message
  BY DEF ReadParameter
<1>11. CASE message_body_length > byte_count' - 5 /\ pc' = "loop" /\ UNCHANGED message_data
  <2>1. byte_count' <= Len(wire)
    BY <1>1, <1>2, <1>6, <1>11
  <2>2. TypeOK'
    BY <1>1, <1>6, <1>7, <1>11 DEF IInv, TypeOK, Stages
  <2>3. Arrived'
    BY <1>1, <1>11 DEF IInv, Arrived, Holds
  <2>4. Walked'
    BY <1>1, <1>4, <1>6, <1>7, <1>8, <1>11, <2>1 DEF Walked
  <2> QED BY <2>2, <2>3, <2>4 DEF IInv
<1>12. CASE message_body_length < byte_count' - 5 /\ pc' = "closed" /\ UNCHANGED message_data
  <2>1. TypeOK'
    BY <1>1, <1>6, <1>7, <1>12 DEF IInv, TypeOK, Stages
  <2>2. Arrived' /\ Walked'
    BY <1>12 DEF Arrived, Walked
  <2> QED BY <2>1, <2>2 DEF IInv
<1>13. CASE /\ message_body_length = byte_count' - 5 /\ pc' = "parsed"
            /\ message_data' = memcpy(message_data, input_buffer, byte_count')
  <2> DEFINE end == byte_count'
             top == MAX_MESSAGE_LENGTH + 4 + MAX_PARAMETER_LENGTH + 1
             copied == [i \in 1..end |-> input_buffer[i - 1]]
  <2>1. end = Len(wire) /\ end \in Nat /\ end < MAX_MESSAGE_LENGTH
    BY <1>1, <1>2, <1>6, <1>13
  <2>2. top \in Nat /\ message_data \in [0..top - 1 -> Byte] /\ end < top
    BY <2>1, CommonMessageAssumption DEF IInv, TypeOK, Memory
  <2>3. copied \in Seq(Byte) /\ Len(copied) = end /\ \A i \in 1..end : copied[i] = input_buffer[i - 1]
    <3>1. \A i \in 1..end : input_buffer[i - 1] \in Byte
      BY <2>1, <1>3
    <3> QED BY <2>1, <3>1
  <2>4. message_data' = Overlay(message_data, copied, 0, end)
    BY <1>13 DEF memcpy
  <2>5. /\ message_data' \in [0..top - 1 -> Byte]
        /\ \A i \in 0..top - 1 : message_data'[i] =
              IF 0 <= i /\ i < end THEN copied[i + 1] ELSE message_data[i]
    <3> HIDE DEF top, copied, end
    <3> QED BY <2>1, <2>2, <2>3, <2>4, OverlayType
  <2>6. \A i \in 0..end - 1 : message_data'[i] = input_buffer[i]
    <3> SUFFICES ASSUME NEW i \in 0..end - 1
                 PROVE  message_data'[i] = input_buffer[i]
      OBVIOUS
    <3>1. message_data'[i] = copied[i + 1]
      BY <2>1, <2>2, <2>5
    <3>2. copied[i + 1] = input_buffer[i]
      BY <2>1, <2>3
    <3> QED BY <3>1, <3>2
  <2>7. TypeOK'
    <3>1. Memory = 0..top - 1
      BY <2>2, CommonMessageAssumption DEF Memory
    <3>2. message_data' \in [Memory -> Byte]
      BY <2>5, <3>1
    <3> QED BY <1>1, <1>6, <1>7, <1>13, <3>2 DEF IInv, TypeOK, Stages
  <2>8. Arrived'
    <3>1. \A i \in 0..Len(wire) - 1 : message_data'[i] = wire[i + 1]
      BY <1>9, <2>1, <2>6 DEF Holds
    <3> QED BY <1>1, <1>13, <2>1, <3>1 DEF IInv, Arrived, Holds
  <2>9. Chain(message_data)'
    <3>1. /\ parameter_positions'[1] = 5 /\ parameter_positions'[n + 1] = end
          /\ \A k \in 1..n :
                /\ parameter_positions'[k] + 4 <= end
                /\ parameter_positions'[k + 1] = parameter_positions'[k] + 4
                      + ParameterLength(input_buffer, parameter_positions'[k])
      BY <1>1, <1>4, <1>7, <1>8 DEF Chain
    <3>2. \A k \in 1..n : ParameterLength(message_data', parameter_positions'[k])
                             = ParameterLength(input_buffer, parameter_positions'[k])
      <4> SUFFICES ASSUME NEW k \in 1..n
                   PROVE  ParameterLength(message_data', parameter_positions'[k])
                             = ParameterLength(input_buffer, parameter_positions'[k])
        OBVIOUS
      <4>1. parameter_positions'[k] \in Nat
        <5>1. k \in 1..n + 1
          BY <1>4
        <5> QED BY <5>1, <1>7
      <4>3. parameter_positions'[k] + 4 <= end
        BY <3>1
      <4>2. /\ parameter_positions'[k] + 2 \in 0..end - 1
            /\ parameter_positions'[k] + 2 + 1 \in 0..end - 1
        BY <4>1, <4>3, <2>1
      <4> QED BY <4>2, <2>6 DEF ParameterLength, U16
    <3> QED BY <1>4, <1>7, <3>1, <3>2 DEF Chain
  <2>10. Walked'
    BY <1>4, <1>7, <1>13, <2>9 DEF Walked
  <2> QED BY <2>7, <2>8, <2>10 DEF IInv
<1> QED BY <1>10, <1>11, <1>12, <1>13 DEF parse_message

LEMMA NextMessageInvariant == IInv /\ NextMessage => IInv'
BY DEF IInv, TypeOK, Arrived, Walked, NextMessage, Stages

LEMMA StutterInvariant == IInv /\ UNCHANGED vars => IInv'
BY DEF IInv, TypeOK, Arrived, Holds, Walked, Chain, vars

THEOREM Invariance == Spec => []IInv
<1>1. Init => IInv
  BY InitInvariant
<1>2. IInv /\ [Next]_vars => IInv'
  BY ReadHeadInvariant, ReadBodyInvariant, ReadParameterInvariant,
     NextMessageInvariant, StutterInvariant DEF Next
<1> QED BY <1>1, <1>2, PTL DEF Spec
-----------------------------------------------------------------------------
\* The variables of CommonMessage have their types, for every set of messages.
THEOREM MessageTypeCorrect == Spec => []TypeOK
<1>1. IInv => TypeOK
  BY DEF IInv
<1> QED BY <1>1, Invariance, PTL

\* parse_message never leaves its two buffers.
THEOREM InBounds == Spec => []ParseInBounds
<1>1. IInv => ParseInBounds
  <2> SUFFICES ASSUME IInv PROVE ParseInBounds
    OBVIOUS
  <2>1. wire \in Wire /\ byte_count \in Nat
    BY DEF IInv, TypeOK
  <2>2. pc \in {"loop", "parsed"} => Len(wire) < MAX_MESSAGE_LENGTH /\ Len(wire) \in Nat
    BY <2>1, WireLength DEF IInv, Arrived
  <2>3. pc = "loop" => byte_count <= Len(wire)
    BY DEF IInv, Walked
  <2>4. pc = "parsed" => byte_count = Len(wire)
    BY DEF IInv, Arrived
  <2> QED BY <2>1, <2>2, <2>3, <2>4, CommonMessageAssumption DEF ParseInBounds, PARAMETER_HEAD_LENGTH
<1> QED BY <1>1, Invariance, PTL

\* The positions of an accepted message tile it, whatever its bytes are.
THEOREM Tiling == Spec => []PositionsTile
<1>1. IInv => PositionsTile
  <2> SUFFICES ASSUME IInv, pc = "parsed" PROVE PositionsTile
    BY DEF PositionsTile
  <2>1. Len(parameter_positions) >= 2 /\ Chain(message_data) /\ byte_count = Len(wire)
    BY DEF IInv, Arrived, Walked
  <2> QED BY <2>1 DEF PositionsTile, Chain
<1> QED BY <1>1, Invariance, PTL

\* A set of numbers has a least one.
LEMMA Least ==
    ASSUME NEW T, T \subseteq Nat, T # {}
    PROVE  \E k \in T : \A j \in T : k <= j
<1>1. PICK k \in T : \A j \in T : <<j, k>> \notin OpToRel(<, Nat)
  BY NatLessThanWellFounded, WFMin, Zenon
<1>2. \A j \in T : ~(j < k)
  BY <1>1 DEF OpToRel
<1> QED BY <1>2

\* A lookup that finds something finds it at a recorded position that says so.
LEMMA LookupMatches ==
    ASSUME TypeOK, NEW type, get_parameter_value(type) # 0
    PROVE  \E k \in 1..Len(parameter_positions) :
              /\ ParameterType(message_data, parameter_positions[k]) = type
              /\ get_parameter_value(type) = parameter_positions[k] + PARAMETER_HEAD_LENGTH
<1>1. Matches(type) # {} /\ get_parameter_value(type) =
                              parameter_positions[First(type)] + PARAMETER_HEAD_LENGTH
  BY DEF get_parameter_value
<1>2. DOMAIN parameter_positions = 1..Len(parameter_positions)
  BY DEF TypeOK
<1>3. Matches(type) \subseteq Nat
  BY <1>2 DEF Matches, TypeOK
<1>4. \E k \in Matches(type) : \A j \in Matches(type) : k <= j
  BY <1>1, <1>3, Least
<1>5. First(type) \in Matches(type)
  BY <1>4 DEF First
<1> QED BY <1>1, <1>2, <1>5 DEF Matches

\* No message of the past shows through an accepted one; a lookup finds what was sent,
\* or what stands behind its end.
THEOREM WireIsRead == Spec => []ReadsTheWire
<1>1. IInv => ReadsTheWire
  <2> SUFFICES ASSUME IInv, pc = "parsed" PROVE ReadsTheWire
    BY DEF ReadsTheWire
  <2>1. wire \in Wire /\ Holds(message_data, Len(wire)) /\ TypeOK
    BY DEF IInv, TypeOK, Arrived
  <2>2. Len(wire) \in Nat
    BY <2>1, WireLength
  <2>3. ASSUME NEW i \in 1..Len(wire) PROVE message_data[i - 1] = wire[i]
    <3>1. i - 1 \in 0..Len(wire) - 1 /\ (i - 1) + 1 = i
      BY <2>2
    <3> QED BY <2>1, <3>1 DEF Holds
  <2>4. ASSUME NEW type \in 0 .. Base * Base - 1, get_parameter_value(type) # 0,
               get_parameter_value(type) # Len(wire) + PARAMETER_HEAD_LENGTH
        PROVE  HeadAt(wire, get_parameter_value(type) - PARAMETER_HEAD_LENGTH, type)
    <3>1. PICK k \in 1..Len(parameter_positions) :
             /\ ParameterType(message_data, parameter_positions[k]) = type
             /\ get_parameter_value(type) = parameter_positions[k] + PARAMETER_HEAD_LENGTH
      BY <2>1, <2>4, LookupMatches
    <3> DEFINE at == parameter_positions[k]
    <3>2. /\ at \in Nat
          /\ k # Len(parameter_positions) => at + PARAMETER_HEAD_LENGTH <= Len(wire)
          /\ k = Len(parameter_positions) => at = Len(wire)
      BY <2>1 DEF IInv, TypeOK, Arrived, Walked, Chain
    <3>3. U16(message_data, at) = type /\ get_parameter_value(type) = at + 4
      BY <3>1 DEF ParameterType, PARAMETER_HEAD_LENGTH
    <3> HIDE DEF at
    <3>4. at + 4 <= Len(wire)
      BY <2>4, <3>2, <3>3 DEF PARAMETER_HEAD_LENGTH
    <3>5. message_data[at] = wire[at + 1] /\ message_data[at + 1] = wire[at + 2]
      <4>1. at \in 0..Len(wire) - 1 /\ at + 1 \in 0..Len(wire) - 1 /\ (at + 1) + 1 = at + 2
        BY <2>2, <3>2, <3>4
      <4> QED BY <2>1, <4>1 DEF Holds
    <3>6. (at + 4) - 4 = at
      BY <3>2
    <3> QED BY <3>3, <3>4, <3>5, <3>6 DEF HeadAt, U16, PARAMETER_HEAD_LENGTH
  <2> QED BY <2>3, <2>4 DEF ReadsTheWire
<1> QED BY <1>1, Invariance, PTL
=============================================================================
