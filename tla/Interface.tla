------------------------------ MODULE Interface ------------------------------
(***************************************************************************)
(* The two ends of the protocol together: the functions of                 *)
(* src/interface.cpp with which a client (and the server) packages a       *)
(* message, and the getters of class Interface with which the server       *)
(* looks at it after CommonMessage has parsed it.                          *)
(***************************************************************************)
EXTENDS CommonMessage

CONSTANT Requests   \* what is packaged with the functions of interface.cpp

\* src/interface_constants.h
MESSAGE_CHANNEL_SETUP == 16
MESSAGE_CHANNEL_TEST == 17
MESSAGE_CHANNEL_STATUS == 18
MESSAGE_CHANNEL_CLOSE == 19
MESSAGE_CHANNEL_ERROR == 20
MESSAGE_PCM_DATA_SEND_REQUEST == 32
MESSAGE_PCM_DATA_SEND_RESPONSE == 33
PARAMETER_CHANNEL_ID == 1
PARAMETER_BLOCK_ID == 2
PARAMETER_BLOCK_DATA == 3
PARAMETER_CRC == 4
PARAMETER_ERROR_CODE == 5
PROTOCOL_VERSION == 1

\* A value in network byte order.
Width16 == Base * Base
Bytes16(n) == <<(n \div Base) % Base, n % Base>>

\* Mutant: the halves of an int in the order of the machine.
Bytes32_swapped(n) == Bytes16(n) \o Bytes16(n \div Width16)

Bytes32(n) == Bytes16(n \div Width16) \o Bytes16(n)

\* The buffer a message is packaged in: all that an unsigned short can index.
Output == 0 .. Width16 - 1
Put(buffer, at, bytes) ==
    [i \in Output |-> LET k == (i - at) % Width16 IN
                      IF k < Len(bytes) THEN bytes[k + 1] ELSE buffer[i]]

package_message_head(type) ==
    Put([i \in Output |-> 0], 0, <<PROTOCOL_VERSION>> \o Bytes16(type) \o <<0, 0>>)

(* package_message_parameter_template: the bytes of a parameter's value.    *)
Width(p) == CASE p.type \in {PARAMETER_CHANNEL_ID, PARAMETER_ERROR_CODE} -> 2
              [] p.type \in {PARAMETER_BLOCK_ID, PARAMETER_CRC} -> 4
              [] p.type = PARAMETER_BLOCK_DATA -> Len(p.value)
package_message_parameter_template(p) ==
    Bytes16(p.type) \o Bytes16(Width(p)) \o
        CASE p.type \in {PARAMETER_CHANNEL_ID, PARAMETER_ERROR_CODE} -> Bytes16(p.value)
          [] p.type \in {PARAMETER_BLOCK_ID, PARAMETER_CRC} -> Bytes32(p.value)
          [] p.type = PARAMETER_BLOCK_DATA -> p.value

\* Mutant: the length in the head leaves the heads of the parameters out.
package_message_parameter_content_bare(buffer, p) ==
    LET length == (U16(buffer, 3) + MESSAGE_HEAD_LENGTH) % Width16
        bytes == package_message_parameter_template(p) IN
    Put(Put(buffer, length, bytes), 3, Bytes16(U16(buffer, 3) + Width(p)))

\* The parameter is appended, and the length in the head is brought up to date.
package_message_parameter_content(buffer, p) ==
    LET length == (U16(buffer, 3) + MESSAGE_HEAD_LENGTH) % Width16
        bytes == package_message_parameter_template(p) IN
    Put(Put(buffer, length, bytes), 3,
        Bytes16((length + Len(bytes) - MESSAGE_HEAD_LENGTH) % Width16))

(* The overloads of package_message_common that interface.cpp calls, with   *)
(* one, two and four parameters: the buffer each of them leaves.            *)
package_message_1(type, p) ==
    package_message_parameter_content(package_message_head(type), p[1])
package_message_2(type, p) ==
    package_message_parameter_content(package_message_1(type, p), p[2])
package_message_4(type, p) ==
    package_message_parameter_content(
        package_message_parameter_content(package_message_2(type, p), p[3]), p[4])

\* The bytes that the caller sends: as many as the return value says.
package_message_common(r) ==
    LET p == r.parameters
        buffer == CASE Len(p) = 1 -> package_message_1(r.type, p)
                    [] Len(p) = 2 -> package_message_2(r.type, p)
                    [] Len(p) = 4 -> package_message_4(r.type, p)
    IN  [i \in 1 .. MESSAGE_HEAD_LENGTH + U16(buffer, 3) |-> buffer[i - 1]]

(***************************************************************************)
(* The messages of interface.cpp, as lists of parameters.                  *)
(***************************************************************************)
Parameter(type, value) == [type |-> type, value |-> value]
ChannelId(id) == Parameter(PARAMETER_CHANNEL_ID, id)
BlockId(id) == Parameter(PARAMETER_BLOCK_ID, id)
Request(type, parameters) == [type |-> type, parameters |-> parameters]

\* channel_setup, channel_test, channel_status and channel_close
channel_message(type, id) == Request(type, <<ChannelId(id)>>)

channel_error(id, code) ==
    Request(MESSAGE_CHANNEL_ERROR,
            <<ChannelId(id), Parameter(PARAMETER_ERROR_CODE, code)>>)

pcm_data_send_request(id, block_id, data, crc) ==
    Request(MESSAGE_PCM_DATA_SEND_REQUEST,
            <<ChannelId(id), BlockId(block_id), Parameter(PARAMETER_BLOCK_DATA, data),
              Parameter(PARAMETER_CRC, crc)>>)

pcm_data_send_response(id, block_id) ==
    Request(MESSAGE_PCM_DATA_SEND_RESPONSE, <<ChannelId(id), BlockId(block_id)>>)

\* The lists of parameters that these functions package, by their types.
Signatures ==
    { <<PARAMETER_CHANNEL_ID>>,
      <<PARAMETER_CHANNEL_ID, PARAMETER_ERROR_CODE>>,
      <<PARAMETER_CHANNEL_ID, PARAMETER_BLOCK_ID>>,
      <<PARAMETER_CHANNEL_ID, PARAMETER_BLOCK_ID, PARAMETER_BLOCK_DATA, PARAMETER_CRC>> }

(* The values that a parameter can have.  A block leaves room for the 31    *)
(* bytes around it in what an unsigned short can count: MAX_DATA_BLOCK_SIZE *)
(* is 16384 of 65536.                                                       *)
InRange(p) ==
    /\ p.type \in {PARAMETER_CHANNEL_ID, PARAMETER_ERROR_CODE} =>
          p.value \in 0 .. Width16 - 1
    /\ p.type \in {PARAMETER_BLOCK_ID, PARAMETER_CRC} =>
          p.value \in 0 .. Width16 * Width16 - 1
    /\ p.type = PARAMETER_BLOCK_DATA =>
          p.value \in Seq(Byte) /\ Len(p.value) + 31 <= Width16

ASSUME InterfaceAssumption ==
    /\ Base > 5
    /\ MAX_PARAMETER_LENGTH >= 4
    /\ \A r \in Requests :
          /\ r.type \in 0 .. Width16 - 1
          /\ \E types \in Signatures :
                /\ Len(r.parameters) = Len(types)
                /\ types = [k \in DOMAIN r.parameters |-> r.parameters[k].type]
          /\ \A k \in DOMAIN r.parameters : InRange(r.parameters[k])
-----------------------------------------------------------------------------
(***************************************************************************)
(* The getters, as <<result, value>>.                                      *)
(***************************************************************************)
NotFound == <<FALSE, 0>>

\* unpack_parameterT reads as many bytes as its type has, whatever the length says.
ShortAt(at) == IF at = 0 THEN NotFound ELSE <<TRUE, U16(message_data, at)>>
IntAt(at) == IF at = 0 THEN NotFound ELSE <<TRUE, U32(message_data, at)>>

get_channel_id == ShortAt(get_parameter_value(PARAMETER_CHANNEL_ID))
get_block_id == IntAt(get_parameter_value(PARAMETER_BLOCK_ID))
get_crc == IntAt(get_parameter_value(PARAMETER_CRC))
get_error_code == ShortAt(get_parameter_value(PARAMETER_ERROR_CODE))
get_block_data ==
    LET at == get_parameter_content(PARAMETER_BLOCK_DATA)
        size == ParameterLength(message_data, at - PARAMETER_HEAD_LENGTH)
    IN  IF at = 0 THEN NotFound
        ELSE <<TRUE, [i \in 1..size |-> message_data[at + i - 1]]>>

Got(type) ==
    CASE type = PARAMETER_CHANNEL_ID -> get_channel_id
      [] type = PARAMETER_BLOCK_ID -> get_block_id
      [] type = PARAMETER_BLOCK_DATA -> get_block_data
      [] type = PARAMETER_CRC -> get_crc
      [] type = PARAMETER_ERROR_CODE -> get_error_code
-----------------------------------------------------------------------------
(* What one side packages the other side reads back, every parameter with   *)
(* its value, whatever has been parsed before; only a block above           *)
(* MAX_PARAMETER_LENGTH is not found.                                       *)
RoundTrip ==
    pc = "parsed" => \A r \in Requests :
        package_message_common(r) = wire =>
            /\ message_type = r.type
            /\ \A k \in DOMAIN r.parameters :
                  LET p == r.parameters[k] IN
                  Got(p.type) = IF Width(p) > MAX_PARAMETER_LENGTH THEN NotFound
                                ELSE <<TRUE, p.value>>

(* A packaged message is refused only when it is too long as a whole.       *)
PackagedIsAccepted ==
    pc = "closed" => \A r \in Requests :
        package_message_common(r) = wire => ~Fits(Announced(wire))
=============================================================================
