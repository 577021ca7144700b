----------------------------- MODULE MCInterface -----------------------------
(***************************************************************************)
(* Messages for the runs of CommonMessage and Interface.                   *)
(***************************************************************************)
EXTENDS Interface

Data(n) == [i \in 1..n |-> (3 * i) % Base]

\* Blocks of no bytes, of as many as are found, of one more, and one too long.
MCRequests ==
    { channel_message(MESSAGE_CHANNEL_SETUP, 161), channel_error(2, 3), pcm_data_send_response(2, 772) }
    \cup { pcm_data_send_request(1, 4660, Data(n), 64222) : n \in {0, 16, 17, 33} }

\* A message head and its body: len is what the head announces.
Raw(len, body) == <<1>> \o Bytes16(MESSAGE_CHANNEL_SETUP) \o Bytes16(len) \o body
ParameterHead(type, len) == Bytes16(type) \o Bytes16(len)

(* No parameter at all, one that ends before the message does or far behind *)
(* it, one that is too long in front of a short one, the same one twice.    *)
MCMalformed ==
    { Raw(0, << >>), Raw(5, ParameterHead(1, 0) \o <<7>>), Raw(4, ParameterHead(1, 250)),
      Raw(28, ParameterHead(9, 20) \o Data(20) \o ParameterHead(1, 0)),
      Raw(12, ParameterHead(1, 2) \o <<5, 6>> \o ParameterHead(1, 2) \o <<8, 9>>) }

MCWire == {package_message_common(r) : r \in MCRequests} \cup MCMalformed
MCGarbage == {0, 3}
=============================================================================
