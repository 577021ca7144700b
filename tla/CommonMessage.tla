---------------------------- MODULE CommonMessage ----------------------------
(***************************************************************************)
(* class CommonMessage (src/protocol.h, src/protocol.cpp): how the object  *)
(* info_ of a session takes a message apart, byte by byte, and what its    *)
(* lookups then find.  One object parses all the messages of a session     *)
(* after one another, so that bytes of earlier messages stay in            *)
(* input_buffer_ and in message_data_ behind a shorter one.                *)
(*                                                                         *)
(* A byte has Base values and an unsigned short is two bytes: 256 in the   *)
(* code, fewer in the runs, with the limits of the code scaled alike.      *)
(* Buffers are functions on 0..n-1, indexed as in the code; a message on   *)
(* the wire is a sequence.  The loop of parse_message is one action per    *)
(* round.  The protocol version is stored and never looked at: left out.   *)
(***************************************************************************)
EXTENDS Integers, Sequences

CONSTANTS
    Base,                   \* values of a byte
    MAX_MESSAGE_LENGTH,
    MAX_PARAMETER_LENGTH,
    InputSize,              \* sizeof(input_buffer_) of the session
    Wire,                   \* what clients may send, cut where the server cuts it
    Garbage                 \* what the object's memory may hold at the start

MESSAGE_HEAD_LENGTH == 5
PARAMETER_HEAD_LENGTH == 4

Byte == 0 .. Base - 1
U16(a, i) == a[i] * Base + a[i + 1]
U32(a, i) == U16(a, i) * Base * Base + U16(a, i + 2)

\* The length in the head of a message on the wire, and whether it is accepted.
Announced(w) == w[4] * Base + w[5]
Fits(length) == length < MAX_MESSAGE_LENGTH - MESSAGE_HEAD_LENGTH

ASSUME CommonMessageAssumption ==
    /\ Base \in Nat \ {0}
    /\ MAX_MESSAGE_LENGTH \in Nat /\ MAX_MESSAGE_LENGTH > MESSAGE_HEAD_LENGTH
    /\ MAX_PARAMETER_LENGTH \in Nat
    /\ InputSize \in Nat /\ InputSize >= MAX_MESSAGE_LENGTH + PARAMETER_HEAD_LENGTH
    /\ Wire \subseteq Seq(Byte)
    /\ \A w \in Wire : /\ Len(w) >= MESSAGE_HEAD_LENGTH
                       /\ Fits(Announced(w)) => Len(w) = MESSAGE_HEAD_LENGTH + Announced(w)
    /\ Garbage \subseteq Byte

VARIABLES
    pc,                     \* where the session is with the current message
    wire,                   \* the current message
    input_buffer,           \* input_buffer_ of the session
    message_type, message_body_length, message_data, parameter_positions,
    byte_count              \* the local variable of parse_message

vars == <<pc, wire, input_buffer, message_type, message_body_length, message_data,
          parameter_positions, byte_count>>

\* "ready": a header is being read; "body": a body; "parsed": a handler runs.
Stages == {"ready", "body", "loop", "parsed", "closed"}

Input == 0 .. InputSize - 1

(* message_data_, and the memory behind it that a lookup can reach from the *)
(* last position it may have: a head and a content.                         *)
Memory == 0 .. MAX_MESSAGE_LENGTH + PARAMETER_HEAD_LENGTH + MAX_PARAMETER_LENGTH

Init ==
    /\ pc = "ready" /\ wire \in Wire
    /\ input_buffer = [i \in Input |-> 0]
    /\ message_type = 0 /\ message_body_length = 0
    /\ \E g \in Garbage : message_data = [i \in Memory |-> g]
    /\ parameter_positions = << >>
    /\ byte_count = 0
-----------------------------------------------------------------------------
\* The bytes of w in from..to-1 take their places in the buffer a.
Overlay(a, w, from, to) ==
    [i \in DOMAIN a |-> IF from <= i /\ i < to THEN w[i + 1] ELSE a[i]]

\* Mutant: the limit of a message is applied to its body.
parse_message_head_loose ==
    /\ message_type' = U16(input_buffer', 1)
    /\ message_body_length' = U16(input_buffer', 3)
    /\ pc' = IF message_body_length' <= MAX_MESSAGE_LENGTH THEN "body" ELSE "closed"

parse_message_head ==
    /\ message_type' = U16(input_buffer', 1)
    /\ message_body_length' = U16(input_buffer', 3)
    /\ pc' = IF Fits(message_body_length') THEN "body" ELSE "closed"

\* handle_read_header
ReadHead ==
    /\ pc = "ready"
    /\ input_buffer' = Overlay(input_buffer, wire, 0, MESSAGE_HEAD_LENGTH)
    /\ parse_message_head
    /\ UNCHANGED <<wire, message_data, parameter_positions, byte_count>>

(* handle_read_body, and parse_message up to its loop: it reads the head    *)
(* once more, which is unchanged and still fits.                            *)
ReadBody ==
    /\ pc = "body"
    /\ input_buffer' = Overlay(input_buffer, wire, MESSAGE_HEAD_LENGTH,
                               MESSAGE_HEAD_LENGTH + message_body_length)
    /\ message_type' = U16(input_buffer', 1)
    /\ message_body_length' = U16(input_buffer', 3)
    /\ byte_count' = MESSAGE_HEAD_LENGTH
    /\ parameter_positions' = <<MESSAGE_HEAD_LENGTH>>
    /\ pc' = "loop"
    /\ UNCHANGED <<wire, message_data>>

\* The type and the length of the parameter at p.
ParameterType(a, p) == U16(a, p)
ParameterLength(a, p) == U16(a, p + 2)

\* Mutant: the length is a signed number.
unpack_parameter_signed(a, p) ==
    PARAMETER_HEAD_LENGTH + IF 2 * ParameterLength(a, p) < Base * Base
        THEN ParameterLength(a, p) ELSE ParameterLength(a, p) - Base * Base

\* Mutant: the length of a parameter is taken to include its head.
unpack_parameter_inclusive(a, p) ==
    IF ParameterLength(a, p) < PARAMETER_HEAD_LENGTH THEN PARAMETER_HEAD_LENGTH
    ELSE ParameterLength(a, p)

\* The number of bytes from p to the next parameter.
unpack_parameter(a, p) == ParameterLength(a, p) + PARAMETER_HEAD_LENGTH

\* Mutant: only the body is copied.
memcpy_short(a, b, n) == Overlay(a, [i \in 1..n |-> b[i - 1]], 0, n - MESSAGE_HEAD_LENGTH)

\* memcpy(a, b, n)
memcpy(a, b, n) == Overlay(a, [i \in 1..n |-> b[i - 1]], 0, n)

\* Mutant: a last parameter that sticks out is accepted.
parse_message_lax ==
    LET n == byte_count' - MESSAGE_HEAD_LENGTH IN
    \/ message_body_length > n /\ pc' = "loop" /\ UNCHANGED message_data
    \/ /\ message_body_length <= n /\ pc' = "parsed"
       /\ message_data' = memcpy(message_data, input_buffer, byte_count')

\* The rest of parse_message after a round of its loop.
parse_message ==
    LET n == byte_count' - MESSAGE_HEAD_LENGTH IN
    \/ message_body_length > n /\ pc' = "loop" /\ UNCHANGED message_data
    \/ message_body_length < n /\ pc' = "closed" /\ UNCHANGED message_data
    \/ /\ message_body_length = n /\ pc' = "parsed"
       /\ message_data' = memcpy(message_data, input_buffer, byte_count')

ReadParameter ==
    /\ pc = "loop"
    /\ byte_count' = byte_count + unpack_parameter(input_buffer, byte_count)
    /\ parameter_positions' = Append(parameter_positions, byte_count')
    /\ parse_message
    /\ UNCHANGED <<wire, input_buffer, message_type, message_body_length>>

\* The handler of the message is through, and the client sends another one.
NextMessage ==
    /\ pc = "parsed"
    /\ pc' = "ready" /\ wire' \in Wire
    /\ UNCHANGED <<input_buffer, message_type, message_body_length, message_data,
                   parameter_positions, byte_count>>

Next == ReadHead \/ ReadBody \/ ReadParameter \/ NextMessage

Spec == Init /\ [][Next]_vars
-----------------------------------------------------------------------------
(***************************************************************************)
(* The lookups.  They go through all of parameter_positions, the last of   *)
(* which is the end of the message and not a parameter.                    *)
(***************************************************************************)
Matches(type) ==
    {k \in DOMAIN parameter_positions :
        ParameterType(message_data, parameter_positions[k]) = type}
First(type) == CHOOSE k \in Matches(type) : \A j \in Matches(type) : k <= j

\* Where the value of the parameter is read, or 0 when there is none.
get_parameter_value(type) ==
    IF Matches(type) = {} THEN 0
    ELSE parameter_positions[First(type)] + PARAMETER_HEAD_LENGTH

\* Mutant: a parameter that is too long does not end the search.
get_parameter_content_patient(type) == get_parameter_value(type)

\* A parameter that is too long ends the search, whatever its type.
get_parameter_content(type) ==
    IF \E k \in 1..Len(parameter_positions) :
            /\ ParameterLength(message_data, parameter_positions[k]) > MAX_PARAMETER_LENGTH
            /\ Matches(type) # {} => k <= First(type)
    THEN 0 ELSE get_parameter_value(type)
-----------------------------------------------------------------------------
(***************************************************************************)
(* Properties.                                                             *)
(***************************************************************************)

\* The variables of CommonMessage and of the session's buffer have their types.
TypeOK ==
    /\ pc \in Stages
    /\ wire \in Wire
    /\ input_buffer \in [Input -> Byte]
    /\ message_type \in Nat
    /\ message_body_length \in Nat
    /\ message_data \in [Memory -> Byte]
    /\ parameter_positions \in Seq(Nat)
    /\ byte_count \in Nat

(* parse_message reads inside input_buffer_ and copies inside               *)
(* message_data_, although it only compares lengths after it has used them. *)
ParseInBounds ==
    /\ pc = "loop" => byte_count + PARAMETER_HEAD_LENGTH <= InputSize
    /\ pc = "parsed" => byte_count < MAX_MESSAGE_LENGTH

(* The recorded positions of an accepted message chain its parameters from  *)
(* the end of the head to the end of the message without a gap.             *)
PositionsTile ==
    pc = "parsed" =>
        LET n == Len(parameter_positions) IN
        /\ n >= 2
        /\ parameter_positions[1] = MESSAGE_HEAD_LENGTH
        /\ parameter_positions[n] = Len(wire)
        /\ \A k \in 1 .. n - 1 : parameter_positions[k + 1] =
              parameter_positions[k] + PARAMETER_HEAD_LENGTH
                  + ParameterLength(message_data, parameter_positions[k])

\* There is the head of a parameter of that type at w's byte number at.
HeadAt(w, at, type) ==
    at + PARAMETER_HEAD_LENGTH <= Len(w) /\ w[at + 1] * Base + w[at + 2] = type

(* The message is what the client sent, whatever longer messages came       *)
(* before it on the same session.  A lookup finds a parameter that was      *)
(* sent, or nothing; only what stands behind the end of the message, which  *)
(* is recorded as the position of one more parameter, may be found instead. *)
ReadsTheWire ==
    pc = "parsed" =>
        /\ \A i \in 1..Len(wire) : message_data[i - 1] = wire[i]
        /\ \A type \in 0 .. Base * Base - 1 :
              LET at == get_parameter_value(type) IN
              \/ at = 0
              \/ HeadAt(wire, at - PARAMETER_HEAD_LENGTH, type)
              \/ at = Len(wire) + PARAMETER_HEAD_LENGTH
=============================================================================
