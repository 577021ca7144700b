------------------------------- MODULE Session -------------------------------
(***************************************************************************)
(* class server_session (src/Server.cpp): one TCP connection of one        *)
(* client, served by asynchronous reads and writes whose handlers all run  *)
(* on the single thread that calls io_service::run (src/AudioServer.cpp).  *)
(*                                                                         *)
(* A handler is one action: handlers of one io_service thread never        *)
(* overlap.  A session object lives exactly as long as some pending        *)
(* operation holds the shared_from_this() bound to its handler; a handler  *)
(* that returns without starting an operation destroys the session, and    *)
(* the destructor of socket_ closes the connection.                        *)
(*                                                                         *)
(* Data abstractions.  The byte stream of a client is cut where the server *)
(* cuts it: a header, then as many bytes as the header announces.  A       *)
(* message is a record of what the handlers ask of it (CONSTANT Messages). *)
(* `leftover' is what a parameter lookup finds at the end position that    *)
(* parse_message records behind the last parameter: bytes of message_data_ *)
(* left by earlier messages, or never written.  CommonMessage.tla models   *)
(* that at the level of bytes; here every content is possible, because the *)
(* array starts uninitialized and a client may send any bytes before.      *)
(* The audio pipeline is reduced to the outcomes of one block.             *)
(***************************************************************************)
EXTENDS Naturals, Sequences

CONSTANTS
    Clients,        \* the clients, each with one connection
    ChannelIds,     \* values of PARAMETER_CHANNEL_ID
    Messages,       \* the messages clients may send
    Leftovers,      \* what may stand behind the last parameter
    MaxMessages,    \* bound: messages one client sends
    FifoAllocated   \* whether the audio_fifo the constructor gets is allocated

\* interface_constants.h; "OTHER" is every type without a case in the switch.
MessageTypes == {"CHANNEL_SETUP", "CHANNEL_TEST", "CHANNEL_STATUS",
                 "CHANNEL_CLOSE", "CHANNEL_ERROR", "PCM_DATA_SEND_REQUEST",
                 "OTHER"}
ScalarParameters == {"CHANNEL_ID", "BLOCK_ID", "CRC"}

(* What PARAMETER_BLOCK_DATA holds: nothing; more than MAX_PARAMETER_LENGTH  *)
(* bytes; fewer than the 4 bytes of a checksum; a wrong checksum in its last *)
(* 4 bytes; a right one but not one whole stereo sample; or samples.         *)
BlockData == {"none", "too_long", "short", "bad_crc", "empty", "samples"}

(* fits: the header announces a body that parse_message_head accepts.      *)
(* tiles: the parameters fill the body exactly, as parse_message requires. *)
(* has: the scalar parameters present; id: the value of CHANNEL_ID.        *)
Message == [type: MessageTypes, fits: BOOLEAN, tiles: BOOLEAN,
            has: SUBSET ScalarParameters, id: ChannelIds, data: BlockData]
Leftover == [has: SUBSET ScalarParameters, id: ChannelIds, data: BlockData]

ASSUME SessionAssumption ==
    /\ 0 \in ChannelIds
    /\ Messages \subseteq Message
    /\ Leftovers \subseteq Leftover
    /\ MaxMessages \in Nat
    /\ FifoAllocated \in BOOLEAN

VARIABLES
    process,        \* the server process: "up" or "crashed"
    client,         \* client end: "absent", "connected" or "gone"
    sent,           \* messages of which the client has sent at least the header
    partial,        \* the body of the last one is still to be sent
    socket,         \* server end: see SocketStates
    ops,            \* asynchronous operations pending on socket_
    taken,          \* how many headers the server has read
    handled,        \* how many bodies the server has read
    channel_id,     \* channel_id_
    output_buffer,  \* the message in output_buffer_
    replies         \* messages written completely to the client

environment == <<client, sent, partial>>
vars == <<process, client, sent, partial, socket, ops, taken, handled,
          channel_id, output_buffer, replies>>

(* "none": not accepted yet; "closed": do_close; "released": the last       *)
(* reference to the session was dropped; "reset": the process died.         *)
SocketStates == {"none", "open", "closed", "released", "reset"}
Operations == {"read_header", "read_body", "write"}
ErrorCodes == {"NONE", "NO_PAYLOAD", "CRC_INVALID", "UNKNOWN_MESSAGE_TYPE",
               "UNKNOWN_ERROR"}

\* `to' is a ghost: the number of the message that the reply answers.
Reply == [type: {"CHANNEL_STATUS", "CHANNEL_ERROR", "PCM_DATA_SEND_RESPONSE"},
          error: ErrorCodes, channel: ChannelIds, to: Nat]
BlankReply == [type |-> "CHANNEL_STATUS", error |-> "NONE", channel |-> 0, to |-> 0]

Init ==
    /\ process = "up"
    /\ client = [c \in Clients |-> "absent"]
    /\ sent = [c \in Clients |-> << >>]
    /\ partial = [c \in Clients |-> FALSE]
    /\ socket = [c \in Clients |-> "none"]
    /\ ops = [c \in Clients |-> {}]
    /\ taken = [c \in Clients |-> 0]
    /\ handled = [c \in Clients |-> 0]
    /\ channel_id = [c \in Clients |-> 0]
    /\ output_buffer = [c \in Clients |-> BlankReply]
    /\ replies = [c \in Clients |-> << >>]
-----------------------------------------------------------------------------
(***************************************************************************)
(* The clients and TCP: a reliable ordered stream that can break.          *)
(***************************************************************************)

\* The kernel completes the connection; the server may accept it later.
Connect(c) ==
    /\ process = "up" /\ client[c] = "absent"
    /\ client' = [client EXCEPT ![c] = "connected"]
    /\ UNCHANGED <<process, sent, partial, socket, ops, taken, handled,
                   channel_id, output_buffer, replies>>

SendHead(c, m) ==
    /\ client[c] = "connected" /\ socket[c] \in {"none", "open"}
    /\ ~partial[c] /\ Len(sent[c]) < MaxMessages
    /\ sent' = [sent EXCEPT ![c] = Append(@, m)]
    /\ partial' = [partial EXCEPT ![c] = TRUE]
    /\ UNCHANGED <<process, client, socket, ops, taken, handled,
                   channel_id, output_buffer, replies>>

SendBody(c) ==
    /\ client[c] = "connected" /\ partial[c]
    /\ partial' = [partial EXCEPT ![c] = FALSE]
    /\ UNCHANGED <<process, client, sent, socket, ops, taken, handled,
                   channel_id, output_buffer, replies>>

\* The client closes its end, or the connection breaks.
Leave(c) ==
    /\ client[c] = "connected"
    /\ client' = [client EXCEPT ![c] = "gone"]
    /\ UNCHANGED <<process, sent, partial, socket, ops, taken, handled,
                   channel_id, output_buffer, replies>>

HeaderArrived(c) == taken[c] < Len(sent[c])

\* Mutant: the body read also counts the bytes of the header.
BodyArrived_overlong(c) == taken[c] < Len(sent[c])
BodyArrived(c) == taken[c] < Len(sent[c]) \/ ~partial[c]
-----------------------------------------------------------------------------
(***************************************************************************)
(* Building blocks of the handlers.                                        *)
(***************************************************************************)

\* The handler of `done' starts the operation `next'.
Arm(c, done, next) ==
    /\ ops' = [ops EXCEPT ![c] = (@ \ {done}) \cup {next}]
    /\ UNCHANGED <<process, socket>>

\* The session ends: its operations are cancelled, its socket is closed.
End(c, how) ==
    /\ ops' = [ops EXCEPT ![c] = {}]
    /\ socket' = [socket EXCEPT ![c] = how]
    /\ UNCHANGED process

do_close(c) == End(c, "closed")

\* The handler returns and nothing refers to the session any more.
Release(c) == End(c, "released")

\* Mutant: a write that does not wait for its completion to read on.
send_data_reading(c, done, reply) ==
    /\ ops' = [ops EXCEPT ![c] = (@ \ {done}) \cup {"write", "read_header"}]
    /\ UNCHANGED <<process, socket>>
    /\ output_buffer' = [output_buffer EXCEPT ![c] = reply]

send_data(c, done, reply) ==
    /\ Arm(c, done, "write")
    /\ output_buffer' = [output_buffer EXCEPT ![c] = reply]

\* Every session of the process dies with it.
Crash ==
    /\ process' = "crashed"
    /\ ops' = [d \in Clients |-> {}]
    /\ socket' = [d \in Clients |-> IF socket[d] = "open" THEN "reset" ELSE socket[d]]

\* interface::channel_status / channel_error / pcm_data_send_response, sent
\* while message number handled[c] + 1 is being handled.
ReplyTo(c, type, error) ==
    [type |-> type, error |-> error, channel |-> channel_id'[c], to |-> handled[c] + 1]

\* A lookup tries the parameters of the message first, then the leftover.
Seen(m, l) ==
    [m EXCEPT !.has = @ \cup l.has,
              !.id = IF "CHANNEL_ID" \in m.has THEN @ ELSE l.id,
              !.data = IF @ # "none" THEN @ ELSE l.data]
-----------------------------------------------------------------------------
(***************************************************************************)
(* The process_* functions: m is the message as the lookups see it.        *)
(***************************************************************************)

\* Mutant: the id is stored in the byte order of the network.
process_channel_setup_unswapped(c, m) ==
    /\ channel_id' = [channel_id EXCEPT ![c] = 256 * m.id]
    /\ send_data(c, "read_body", ReplyTo(c, "CHANNEL_STATUS", "NONE"))

\* Mutant: the status is packaged before the id is looked up.
process_channel_setup_stale(c, m) ==
    /\ "CHANNEL_ID" \in m.has
    /\ channel_id' = [channel_id EXCEPT ![c] = m.id]
    /\ send_data(c, "read_body",
                 [ReplyTo(c, "CHANNEL_STATUS", "NONE") EXCEPT !.channel = channel_id[c]])

process_channel_setup(c, m) ==
    \/ /\ "CHANNEL_ID" \notin m.has
       /\ Release(c)
       /\ UNCHANGED <<channel_id, output_buffer>>
    \/ /\ "CHANNEL_ID" \in m.has
       /\ channel_id' = [channel_id EXCEPT ![c] = m.id]
       /\ send_data(c, "read_body", ReplyTo(c, "CHANNEL_STATUS", "NONE"))

\* Mutant: a test is taken in silently, as a status is.
process_channel_test_silent(c) ==
    /\ Arm(c, "read_body", "read_header")
    /\ UNCHANGED <<channel_id, output_buffer>>

process_channel_test(c) ==
    /\ UNCHANGED channel_id
    /\ send_data(c, "read_body", ReplyTo(c, "CHANNEL_STATUS", "NONE"))

process_channel_status(c) ==
    /\ Arm(c, "read_body", "read_header")
    /\ UNCHANGED <<channel_id, output_buffer>>

\* process_channel_close and process_channel_error
process_channel_end(c) ==
    /\ do_close(c)
    /\ UNCHANGED <<channel_id, output_buffer>>

process_default(c) ==
    /\ UNCHANGED channel_id
    /\ send_data(c, "read_body", ReplyTo(c, "CHANNEL_ERROR", "UNKNOWN_MESSAGE_TYPE"))

(***************************************************************************)
(* What can become of a block: an error code to answer with, "NONE" when   *)
(* it is answered with a response, or "crash".                             *)
(*  - "short": validate_crc reads in front of pcm_data, so either verdict; *)
(*    a block taken as valid has nb_samples <= 0 and av_samples_alloc      *)
(*    rejects it, as it does for "empty".                                  *)
(*  - "samples": convert_samples gets the address of pcm_data as an array  *)
(*    of pointers, so swr_convert follows the block's own bytes as an      *)
(*    address: it may crash, fail or go on; a FIFO that was never          *)
(*    allocated is then dereferenced by av_audio_fifo_size.                *)
(***************************************************************************)
\* Mutant: the verdict of validate_crc is not looked at.
BlockOutcomes_unchecked(data) ==
    CASE data \in {"none", "too_long"} -> {"NO_PAYLOAD"}
      [] data \in {"short", "empty"} -> {"UNKNOWN_ERROR"}
      [] data \in {"bad_crc", "samples"} -> {"UNKNOWN_ERROR", "NONE"}

BlockOutcomes(data) ==
    CASE data \in {"none", "too_long"} -> {"NO_PAYLOAD"}
      [] data = "bad_crc" -> {"CRC_INVALID"}
      [] data = "short" -> {"CRC_INVALID", "UNKNOWN_ERROR"}
      [] data = "empty" -> {"UNKNOWN_ERROR"}
      [] data = "samples" -> {"UNKNOWN_ERROR", "crash"}
                             \cup (IF FifoAllocated THEN {"NONE"} ELSE {})

\* The first of the three lookups that SUCCEEDS makes the handler return.
ReturnsEarly(m) == m.has # {}

\* The handler of a block ends with `outcome'.
Conclude(c, outcome) ==
    \/ /\ outcome = "crash"
       /\ Crash
       /\ UNCHANGED output_buffer
    \/ /\ outcome = "NONE"
       /\ send_data(c, "read_body", ReplyTo(c, "PCM_DATA_SEND_RESPONSE", "NONE"))
    \/ /\ outcome \in ErrorCodes \ {"NONE"}
       /\ send_data(c, "read_body", ReplyTo(c, "CHANNEL_ERROR", outcome))

process_pcm_data_send_request(c, m) ==
    /\ channel_id' = IF "CHANNEL_ID" \in m.has
                     THEN [channel_id EXCEPT ![c] = m.id] ELSE channel_id
    /\ \/ /\ ReturnsEarly(m)
          /\ Release(c)
          /\ UNCHANGED output_buffer
       \/ /\ ~ReturnsEarly(m)
          /\ \E outcome \in BlockOutcomes(m.data) : Conclude(c, outcome)

\* The switch of handle_read_body.
Dispatch(c, m) ==
    \/ m.type = "CHANNEL_SETUP" /\ process_channel_setup(c, m)
    \/ m.type = "CHANNEL_TEST" /\ process_channel_test(c)
    \/ m.type = "CHANNEL_STATUS" /\ process_channel_status(c)
    \/ m.type \in {"CHANNEL_CLOSE", "CHANNEL_ERROR"} /\ process_channel_end(c)
    \/ m.type = "PCM_DATA_SEND_REQUEST" /\ process_pcm_data_send_request(c, m)
    \/ m.type = "OTHER" /\ process_default(c)
-----------------------------------------------------------------------------
(***************************************************************************)
(* The completion handlers.                                                *)
(***************************************************************************)

\* Server::handle_accept calls start() on the session of a new connection.
start(c) ==
    /\ process = "up" /\ client[c] # "absent" /\ socket[c] = "none"
    /\ socket' = [socket EXCEPT ![c] = "open"]
    /\ ops' = [ops EXCEPT ![c] = @ \cup {"read_header"}]
    /\ UNCHANGED <<process, environment, taken, handled, channel_id,
                   output_buffer, replies>>

handle_read_header(c) ==
    /\ "read_header" \in ops[c] /\ HeaderArrived(c)
    /\ taken' = [taken EXCEPT ![c] = @ + 1]
    /\ LET m == sent[c][taken[c] + 1] IN
          \/ m.fits /\ Arm(c, "read_header", "read_body")
          \/ ~m.fits /\ do_close(c)
    /\ UNCHANGED <<environment, handled, channel_id, output_buffer, replies>>

\* Mutant: a message whose parameters do not tile its body is handled as well.
handle_read_body_lax(c) ==
    /\ "read_body" \in ops[c] /\ BodyArrived(c)
    /\ \E l \in Leftovers : Dispatch(c, Seen(sent[c][taken[c]], l))
    /\ handled' = [handled EXCEPT ![c] = @ + 1]
    /\ UNCHANGED <<environment, taken, replies>>

\* handle_read_body when one of `left' stands behind the message.
HandleBody(c, left) ==
    /\ "read_body" \in ops[c] /\ BodyArrived(c)
    /\ LET m == sent[c][taken[c]] IN
          \/ /\ ~m.tiles
             /\ do_close(c)
             /\ UNCHANGED <<channel_id, output_buffer>>
          \/ /\ m.tiles
             /\ \E l \in left : Dispatch(c, Seen(m, l))
    /\ handled' = [handled EXCEPT ![c] = @ + 1]
    /\ UNCHANGED <<environment, taken, replies>>

handle_read_body(c) == HandleBody(c, Leftovers)

handle_write(c) ==
    /\ "write" \in ops[c]
    /\ replies' = [replies EXCEPT ![c] = Append(@, output_buffer[c])]
    /\ Arm(c, "write", "read_header")
    /\ UNCHANGED <<environment, taken, handled, channel_id, output_buffer>>

\* Mutant: a failed operation is tried again.
handle_error_retry(c) ==
    /\ client[c] = "gone"
    /\ \E op \in ops[c] : Arm(c, op, op)
    /\ UNCHANGED <<environment, taken, handled, channel_id, output_buffer, replies>>

(* The error branch of the three handlers: end of stream, or a reset that   *)
(* also discards what has arrived.                                          *)
handle_error(c) ==
    /\ ops[c] # {} /\ client[c] = "gone"
    /\ do_close(c)
    /\ UNCHANGED <<environment, taken, handled, channel_id, output_buffer, replies>>

Serve(c) ==
    \/ start(c)
    \/ handle_read_header(c)
    \/ handle_read_body(c)
    \/ handle_write(c)
    \/ handle_error(c)

Environment(c) ==
    \/ Connect(c)
    \/ \E m \in Messages : SendHead(c, m)
    \/ SendBody(c)
    \/ Leave(c)

Next == \E c \in Clients : Serve(c) \/ Environment(c)

Spec == Init /\ [][Next]_vars

(* io_service runs every handler that is ready; clients promise nothing.    *)
FairSpec == Spec /\ \A c \in Clients : WF_vars(Serve(c))
-----------------------------------------------------------------------------
(***************************************************************************)
(* Properties.                                                             *)
(***************************************************************************)

\* Every variable of server_session and of its environment has its type.
TypeOK ==
    /\ process \in {"up", "crashed"}
    /\ client \in [Clients -> {"absent", "connected", "gone"}]
    /\ sent \in [Clients -> Seq(Messages)]
    /\ partial \in [Clients -> BOOLEAN]
    /\ socket \in [Clients -> SocketStates]
    /\ ops \in [Clients -> SUBSET Operations]
    /\ taken \in [Clients -> Nat]
    /\ handled \in [Clients -> Nat]
    /\ channel_id \in [Clients -> ChannelIds]
    /\ output_buffer \in [Clients -> Reply]
    /\ replies \in [Clients -> Seq(Reply)]

(* An open connection has exactly one pending operation, so that no handler *)
(* touches a buffer that another operation uses and no session is alive     *)
(* with nothing to wake it; any other connection has none.                  *)
HalfDuplex ==
    \A c \in Clients :
        IF socket[c] = "open" THEN \E op \in Operations : ops[c] = {op}
        ELSE ops[c] = {}

(* The replies a client receives answer its messages in the order in which *)
(* it sent them, and no message is answered twice.                         *)
RepliesInOrder ==
    \A c \in Clients : \A i, j \in 1..Len(replies[c]) :
        i < j => replies[c][i].to < replies[c][j].to

(* Handling goes on to the next message only when the one before has been  *)
(* answered completely; only CHANNEL_STATUS is answered with silence.       *)
NothingSkipped ==
    \A c \in Clients : \A k \in 1..handled[c] :
        \/ sent[c][k].type = "CHANNEL_STATUS"
        \/ \E i \in 1..Len(replies[c]) : replies[c][i].to = k
        \/ k = handled[c] /\ ("write" \in ops[c] \/ socket[c] # "open")

\* What the message m deserves as an answer.
Fits(m, r) ==
    /\ r.type = "CHANNEL_STATUS" <=> m.type \in {"CHANNEL_SETUP", "CHANNEL_TEST"}
    /\ r.error = "UNKNOWN_MESSAGE_TYPE" <=> m.type = "OTHER"
    /\ m.type \notin {"CHANNEL_STATUS", "CHANNEL_CLOSE", "CHANNEL_ERROR"}
    /\ r.type = "PCM_DATA_SEND_RESPONSE"
         => m.type = "PCM_DATA_SEND_REQUEST" /\ m.data \in {"none", "samples"}
    /\ r.error = "NO_PAYLOAD" => m.data \in {"none", "too_long"}

(* A reply, when it reaches the client, is of the kind its message asks     *)
(* for: in particular a block with a wrong checksum is never acknowledged,  *)
(* and one that is there is never reported missing.                         *)
RepliesFit ==
    \A c \in Clients : \A i \in 1..Len(replies[c]) :
        LET r == replies[c][i] IN
            r.to \in 1..handled[c] /\ Fits(sent[c][r.to], r)

InStepAt(c) ==
    /\ handled[c] <= taken[c] /\ taken[c] <= Len(sent[c])
    /\ socket[c] = "none" => taken[c] = 0
    /\ "read_body" \in ops[c] => taken[c] = handled[c] + 1
    /\ "read_header" \in ops[c] \/ "write" \in ops[c] => taken[c] = handled[c]
    /\ "write" \in ops[c] => output_buffer[c].to = handled[c] /\ handled[c] > 0
    /\ \A i \in 1..Len(replies[c]) :
          /\ 1 <= replies[c][i].to /\ replies[c][i].to <= handled[c]
          /\ "write" \in ops[c] => replies[c][i].to < handled[c]

(* Reading keeps pace with sending: bodies follow their headers one by one, *)
(* and the reply being written answers the message handled last, later than *)
(* every reply already written.                                             *)
InStep == \A c \in Clients : InStepAt(c)

\* Message k of client c is the last setup among its first n messages.
LastSetup(c, k, n) ==
    /\ sent[c][k].type = "CHANNEL_SETUP"
    /\ \A j \in k + 1 .. n : sent[c][j].type # "CHANNEL_SETUP"

(* Every reply names the channel of the last setup before it, although the  *)
(* handlers for PCM data write channel_id_ too.                             *)
ChannelOfLastSetup ==
    \A c \in Clients : \A i \in 1..Len(replies[c]) :
        LET r == replies[c][i] IN
        \A k \in 1..r.to :
            LastSetup(c, k, r.to) /\ "CHANNEL_ID" \in sent[c][k].has
                => r.channel = sent[c][k].id

(* A block request with all its parameters and valid samples, as            *)
(* interface::pcm_data_send_request builds it, does not cost the client its *)
(* session (README.md, line 4: "Then receive PCM data, use ffmpeg, encode   *)
(* to AAC or MP3").  The inverted lookups of process_pcm_data_send_request  *)
(* break it.                                                                *)
WellFormedBlock(m) ==
    /\ m.type = "PCM_DATA_SEND_REQUEST" /\ m.fits /\ m.tiles
    /\ ScalarParameters \subseteq m.has /\ m.data = "samples"
BlocksAreReceived ==
    \A c \in Clients :
        socket[c] = "released" => ~WellFormedBlock(sent[c][handled[c]])

(* While async_write sends output_buffer_ no handler changes it.            *)
OutputBufferStable ==
    [][\A c \in Clients : "write" \in ops[c] /\ "write" \in ops'[c]
            => output_buffer'[c] = output_buffer[c]]_vars

\* The session of c is over, or can no longer begin.
Over(c) == socket[c] \notin {"none", "open"} \/ process = "crashed"

(* When a client has gone, its session is given up.                         *)
GoneIsNoticed ==
    \A c \in Clients : client[c] = "gone" ~> Over(c)
-----------------------------------------------------------------------------
(***************************************************************************)
(* Session implements Exchange.                                            *)
(***************************************************************************)

\* Messages and replies as Exchange sees them.
Question(m) ==
    CASE ~m.fits \/ ~m.tiles -> "garbage"
      [] m.type \in {"CHANNEL_SETUP", "CHANNEL_TEST"} -> "test"
      [] m.type = "CHANNEL_STATUS" -> "report"
      [] m.type = "PCM_DATA_SEND_REQUEST" -> "block"
      [] m.type \in {"CHANNEL_CLOSE", "CHANNEL_ERROR"} -> "farewell"
      [] OTHER -> "unknown"
Answer(r) ==
    [to |-> r.to,
     kind |-> CASE r.type = "CHANNEL_STATUS" -> "status"
                [] r.type = "PCM_DATA_SEND_RESPONSE" -> "response"
                [] r.error = "UNKNOWN_MESSAGE_TYPE" -> "unknown"
                [] OTHER -> "refusal"]

\* How many messages of c are complete.
Complete(c) == Len(sent[c]) - (IF partial[c] THEN 1 ELSE 0)

Asked == [c \in Clients |-> [k \in 1..Complete(c) |-> Question(sent[c][k])]]
Answered == [c \in Clients |-> [i \in 1..Len(replies[c]) |-> Answer(replies[c][i])]]
Ended == [c \in Clients |-> Over(c)]

Contract == INSTANCE Exchange WITH
    MaxQuestions <- MaxMessages, asked <- Asked, answered <- Answered, over <- Ended

(* Whatever the handlers do in between, the client sees an Exchange: its    *)
(* questions answered in order, only reports passed over, nothing answered  *)
(* behind a message that was malformed or closed the channel.               *)
ImplementsExchange == Contract!Spec

(* Every question that wants an answer gets it, or the session ends, even   *)
(* when another client stalls.                                              *)
AnswersComeInTime == Contract!Live
=============================================================================
