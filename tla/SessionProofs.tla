---------------------------- MODULE SessionProofs ----------------------------
(***************************************************************************)
(* Proofs about Session, for every set of clients and of messages.         *)
(***************************************************************************)
EXTENDS Session, TLAPS

USE SessionAssumption

(***************************************************************************)
(* The four ways in which the handling of a message m can end, and the     *)
(* lemmas that there is no fifth.  The theorems use nothing else about the *)
(* process_* functions.                                                    *)
(***************************************************************************)
Others(c) ==
    /\ channel_id' \in [Clients -> ChannelIds]
    /\ \A d \in Clients \ {c} : channel_id'[d] = channel_id[d]

\* Only a setup changes the channel of a session that goes on.
Keeps(c, m) ==
    /\ m.type = "CHANNEL_SETUP" /\ "CHANNEL_ID" \in m.has => channel_id'[c] = m.id
    /\ m.type # "CHANNEL_SETUP" => channel_id'[c] = channel_id[c]

Ends(c) == \E how \in {"closed", "released"} : End(c, how) /\ UNCHANGED output_buffer
Dies == Crash /\ UNCHANGED output_buffer
Listens(c, m) ==
    /\ m.type = "CHANNEL_STATUS"
    /\ Keeps(c, m)
    /\ Arm(c, "read_body", "read_header")
    /\ UNCHANGED output_buffer
Answers(c, m, r) ==
    /\ r.to = handled[c] + 1 /\ r.channel = channel_id'[c]
    /\ Fits(m, r)
    /\ Keeps(c, m)
    /\ send_data(c, "read_body", r)

Result(c, m) ==
    \/ Ends(c)
    \/ Dies
    \/ Listens(c, m)
    \/ \E r \in Reply : Answers(c, m, r)

\* A reply built by a handler has its type.
LEMMA ReplyType ==
    ASSUME TypeOK, NEW c \in Clients, channel_id' \in [Clients -> ChannelIds],
           NEW type \in {"CHANNEL_STATUS", "CHANNEL_ERROR", "PCM_DATA_SEND_RESPONSE"},
           NEW error \in ErrorCodes
    PROVE  /\ ReplyTo(c, type, error) \in Reply
           /\ ReplyTo(c, type, error).to = handled[c] + 1
           /\ ReplyTo(c, type, error).channel = channel_id'[c]
           /\ ReplyTo(c, type, error).type = type
           /\ ReplyTo(c, type, error).error = error
BY DEF ReplyTo, Reply, TypeOK

\* The outcome of a block agrees with its data.
LEMMA OutcomeFits ==
    ASSUME NEW m \in Message, NEW outcome \in BlockOutcomes(m.data)
    PROVE  /\ outcome # "UNKNOWN_MESSAGE_TYPE"
           /\ outcome = "NONE" => m.data = "samples"
           /\ outcome = "NO_PAYLOAD" => m.data \in {"none", "too_long"}
<1>1. m.data \in BlockData
  BY DEF Message
<1>. QED
  BY <1>1 DEF BlockOutcomes, BlockData

\* Every case of the switch ends in one of the four ways.
LEMMA DispatchEnds ==
    ASSUME TypeOK, NEW c \in Clients, NEW m \in Message, Dispatch(c, m)
    PROVE  Others(c) /\ Result(c, m)
<1>0. m.id \in ChannelIds /\ {"NONE", "UNKNOWN_MESSAGE_TYPE"} \subseteq ErrorCodes
  BY DEF Message, ErrorCodes
<1>1. ASSUME UNCHANGED channel_id PROVE Others(c) /\ channel_id'[c] = channel_id[c]
  BY <1>1 DEF TypeOK, Others
<1>2. ASSUME channel_id' = [channel_id EXCEPT ![c] = m.id]
      PROVE  Others(c) /\ channel_id'[c] = m.id
  BY <1>0, <1>2 DEF TypeOK, Others
<1>3. ASSUME Others(c), Keeps(c, m),
             NEW type \in {"CHANNEL_STATUS", "CHANNEL_ERROR", "PCM_DATA_SEND_RESPONSE"},
             NEW error \in ErrorCodes,
             Fits(m, ReplyTo(c, type, error)),
             send_data(c, "read_body", ReplyTo(c, type, error))
      PROVE  Result(c, m)
  BY <1>3, ReplyType DEF Answers, Result, Others
<1>4. ASSUME Release(c) /\ UNCHANGED output_buffer PROVE Result(c, m)
  BY <1>4 DEF Release, Ends, Result
<1>5. ASSUME m.type = "CHANNEL_SETUP", process_channel_setup(c, m)
      PROVE  Others(c) /\ Result(c, m)
  <2>1. CASE Release(c) /\ UNCHANGED <<channel_id, output_buffer>>
    BY <1>1, <1>4, <2>1
  <2>2. CASE /\ channel_id' = [channel_id EXCEPT ![c] = m.id]
             /\ send_data(c, "read_body", ReplyTo(c, "CHANNEL_STATUS", "NONE"))
    <3>1. Others(c) /\ Keeps(c, m)
      BY <1>2, <1>5, <2>2 DEF Keeps
    <3>2. Fits(m, ReplyTo(c, "CHANNEL_STATUS", "NONE"))
      BY <1>5 DEF Fits, ReplyTo
    <3>. QED
      BY <1>0, <1>3, <2>2, <3>1, <3>2
  <2>. QED
    BY <1>5, <2>1, <2>2 DEF process_channel_setup
<1>6. ASSUME m.type = "CHANNEL_TEST", process_channel_test(c)
      PROVE  Others(c) /\ Result(c, m)
  <2>1. Others(c) /\ Keeps(c, m)
    BY <1>1, <1>6 DEF process_channel_test, Keeps
  <2>2. Fits(m, ReplyTo(c, "CHANNEL_STATUS", "NONE"))
    BY <1>6 DEF Fits, ReplyTo
  <2>. QED
    BY <1>0, <1>3, <1>6, <2>1, <2>2 DEF process_channel_test
<1>7. ASSUME m.type = "CHANNEL_STATUS", process_channel_status(c)
      PROVE  Others(c) /\ Result(c, m)
  BY <1>1, <1>7 DEF process_channel_status, Listens, Keeps, Result
<1>8. ASSUME process_channel_end(c) PROVE Others(c) /\ Result(c, m)
  BY <1>1, <1>8 DEF process_channel_end, Ends, do_close, Result
<1>9. ASSUME m.type = "OTHER", process_default(c) PROVE Others(c) /\ Result(c, m)
  <2>1. Others(c) /\ Keeps(c, m)
    BY <1>1, <1>9 DEF process_default, Keeps
  <2>2. Fits(m, ReplyTo(c, "CHANNEL_ERROR", "UNKNOWN_MESSAGE_TYPE"))
    BY <1>9 DEF Fits, ReplyTo
  <2>. QED
    BY <1>0, <1>3, <1>9, <2>1, <2>2 DEF process_default
<1>10. ASSUME m.type = "PCM_DATA_SEND_REQUEST", process_pcm_data_send_request(c, m)
       PROVE  Others(c) /\ Result(c, m)
  <2>1. Others(c)
    BY <1>1, <1>2, <1>10 DEF process_pcm_data_send_request
  <2>2. CASE Release(c) /\ UNCHANGED output_buffer
    BY <1>4, <2>1, <2>2
  <2>3. CASE ~ReturnsEarly(m)
    <3>1. Keeps(c, m)
      BY <1>10, <2>3 DEF process_pcm_data_send_request, ReturnsEarly, Keeps
    <3>2. PICK outcome \in BlockOutcomes(m.data) :
             \/ Dies
             \/ /\ outcome = "NONE"
                /\ send_data(c, "read_body", ReplyTo(c, "PCM_DATA_SEND_RESPONSE", "NONE"))
             \/ /\ outcome \in ErrorCodes \ {"NONE"}
                /\ send_data(c, "read_body", ReplyTo(c, "CHANNEL_ERROR", outcome))
      BY <1>10, <2>2, <2>3 DEF process_pcm_data_send_request, Conclude, Dies, ReturnsEarly
    <3>3. ASSUME NEW type \in {"CHANNEL_ERROR", "PCM_DATA_SEND_RESPONSE"},
                 type = "PCM_DATA_SEND_RESPONSE" <=> outcome = "NONE"
          PROVE  Fits(m, ReplyTo(c, type, outcome))
      BY <1>10, <3>3, OutcomeFits DEF Fits, ReplyTo
    <3>. QED
      BY <1>0, <1>3, <2>1, <3>1, <3>2, <3>3 DEF Result
  <2>. QED
    BY <1>10, <2>2, <2>3 DEF process_pcm_data_send_request
<1>. QED
  BY <1>5, <1>6, <1>7, <1>8, <1>9, <1>10 DEF Dispatch

\* What the lookups find agrees with what the client sent.
LEMMA SeenFits ==
    ASSUME NEW m \in Message, NEW l \in Leftover
    PROVE  /\ Seen(m, l) \in Message
           /\ Seen(m, l).type = m.type
           /\ m.has \subseteq Seen(m, l).has
           /\ "CHANNEL_ID" \in m.has => Seen(m, l).id = m.id
           /\ \A r : Fits(Seen(m, l), r) => Fits(m, r)
<1>1. Seen(m, l) \in Message
  BY DEF Seen, Message, Leftover
<1>2. /\ Seen(m, l).type = m.type
      /\ m.has \subseteq Seen(m, l).has
      /\ "CHANNEL_ID" \in m.has => Seen(m, l).id = m.id
      /\ m.data = Seen(m, l).data \/ m.data = "none"
  BY DEF Seen, Message, Leftover
<1>. QED
  BY <1>1, <1>2 DEF Fits

-----------------------------------------------------------------------------
(***************************************************************************)
(* Types, one operation per connection, and reading in step are inductive  *)
(* together: the handler of a body reads sent[c][taken[c]], which exists   *)
(* only because headers and bodies alternate.                              *)
(***************************************************************************)
Base == TypeOK /\ HalfDuplex /\ InStep

\* handle_read_body: the message exists, and it ends in one of the four ways.
LEMMA BodyEnds ==
    ASSUME Base, NEW c \in Clients, handle_read_body(c)
    PROVE  /\ ops[c] = {"read_body"} /\ socket[c] = "open"
           /\ taken[c] = handled[c] + 1 /\ taken[c] \in 1..Len(sent[c])
           /\ sent[c][taken[c]] \in Message
           /\ Others(c) /\ Result(c, sent[c][taken[c]])
           /\ handled' = [handled EXCEPT ![c] = @ + 1]
           /\ UNCHANGED <<client, sent, partial, taken, replies>>
<1> DEFINE m == sent[c][taken[c]]
<1>1. ops[c] = {"read_body"} /\ socket[c] = "open"
  BY DEF Base, HalfDuplex, handle_read_body, HandleBody, Operations
<1>2. taken[c] = handled[c] + 1 /\ taken[c] \in 1..Len(sent[c])
  BY <1>1 DEF Base, InStep, InStepAt, TypeOK
<1>3. m \in Message
  BY <1>2 DEF Base, TypeOK
<1>4. ASSUME do_close(c), UNCHANGED <<channel_id, output_buffer>>
      PROVE  Others(c) /\ Result(c, m)
  BY <1>4 DEF Base, TypeOK, Others, Result, Ends, do_close
<1>5. ASSUME NEW l \in Leftovers, Dispatch(c, Seen(m, l))
      PROVE  Others(c) /\ Result(c, m)
  <2>1. l \in Leftover
    OBVIOUS
  <2>2. Others(c) /\ Result(c, Seen(m, l))
    BY <1>3, <1>5, <2>1, SeenFits, DispatchEnds DEF Base
  <2>3. Keeps(c, Seen(m, l)) => Keeps(c, m)
    BY <1>3, <2>1, SeenFits DEF Keeps
  <2>4. Listens(c, Seen(m, l)) => Listens(c, m)
    BY <1>3, <2>1, <2>3, SeenFits DEF Listens
  <2>5. \A r \in Reply : Answers(c, Seen(m, l), r) => Answers(c, m, r)
    BY <1>3, <2>1, <2>3, SeenFits DEF Answers
  <2>. QED
    BY <2>2, <2>4, <2>5 DEF Result
<1>. QED
  BY <1>1, <1>2, <1>3, <1>4, <1>5 DEF handle_read_body, HandleBody, environment

LEMMA RepliesTyped ==
    ASSUME TypeOK, NEW c \in Clients
    PROVE  \A i \in 1..Len(replies[c]) : replies[c][i] \in Reply /\ replies[c][i].to \in Nat
<1>1. replies[c] \in Seq(Reply)
  BY DEF TypeOK
<1>2. \A i \in 1..Len(replies[c]) : replies[c][i] \in Reply
  BY <1>1
<1>. QED
  BY <1>2 DEF Reply

LEMMA BaseInit == Init => Base
<1> SUFFICES ASSUME Init PROVE Base
  OBVIOUS
<1>1. TypeOK
  BY DEF Init, TypeOK, SocketStates, BlankReply, Reply, ErrorCodes
<1>2. HalfDuplex /\ InStep
  BY DEF Init, HalfDuplex, InStep, InStepAt
<1>. QED
  BY <1>1, <1>2 DEF Base

LEMMA BaseStep == Base /\ [Next]_vars => Base'
<1> SUFFICES ASSUME Base, [Next]_vars PROVE Base'
  OBVIOUS
<1> USE DEF Base
<1>1. ASSUME NEW c \in Clients, Connect(c) PROVE Base'
  BY <1>1 DEF Connect, TypeOK, HalfDuplex, InStep, InStepAt
<1>2. ASSUME NEW c \in Clients, NEW m \in Messages, SendHead(c, m) PROVE Base'
  BY <1>2 DEF SendHead, TypeOK, HalfDuplex, InStep, InStepAt
<1>3. ASSUME NEW c \in Clients, SendBody(c) PROVE Base'
  BY <1>3 DEF SendBody, TypeOK, HalfDuplex, InStep, InStepAt
<1>4. ASSUME NEW c \in Clients, Leave(c) PROVE Base'
  BY <1>4 DEF Leave, TypeOK, HalfDuplex, InStep, InStepAt
<1>5. ASSUME NEW c \in Clients, start(c) PROVE Base'
  <2>1. TypeOK'
    BY <1>5 DEF start, environment, TypeOK, SocketStates, Operations
  <2>2. HalfDuplex'
    BY <1>5 DEF start, TypeOK, HalfDuplex, Operations
  <2>3. InStep'
    BY <1>5 DEF start, environment, TypeOK, HalfDuplex, InStep, InStepAt
  <2>. QED
    BY <2>1, <2>2, <2>3
<1>6. ASSUME NEW c \in Clients, handle_read_header(c) PROVE Base'
  <2>1. ops[c] = {"read_header"} /\ socket[c] = "open"
    BY <1>6 DEF handle_read_header, HalfDuplex, Operations
  <2>2. /\ UNCHANGED process
        /\ \/ ops' = [ops EXCEPT ![c] = {"read_body"}] /\ UNCHANGED socket
           \/ ops' = [ops EXCEPT ![c] = {}] /\ socket' = [socket EXCEPT ![c] = "closed"]
    <3>1. Arm(c, "read_header", "read_body")
            => /\ ops' = [ops EXCEPT ![c] = {"read_body"}]
               /\ UNCHANGED <<process, socket>>
      BY <2>1 DEF Arm
    <3>. QED
      BY <1>6, <3>1 DEF handle_read_header, do_close, End
  <2>3. /\ taken' = [taken EXCEPT ![c] = handled[c] + 1] /\ taken[c] = handled[c]
        /\ taken[c] < Len(sent[c])
        /\ UNCHANGED <<client, sent, partial, handled, channel_id, output_buffer, replies>>
    BY <1>6, <2>1 DEF handle_read_header, HeaderArrived, InStep, InStepAt, environment
  <2>4. TypeOK'
    <3>1. ops' \in [Clients -> SUBSET Operations] /\ socket' \in [Clients -> SocketStates]
      <4>1. {} \in SUBSET Operations /\ {"read_body"} \in SUBSET Operations
        BY DEF Operations
      <4>2. "closed" \in SocketStates
        BY DEF SocketStates
      <4>. QED
        BY <2>2, <4>1, <4>2 DEF TypeOK
    <3>2. taken' \in [Clients -> Nat]
      BY <2>3 DEF TypeOK
    <3>. QED
      BY <2>2, <2>3, <3>1, <3>2 DEF TypeOK
  <2>5. HalfDuplex'
    BY <2>1, <2>2 DEF TypeOK, HalfDuplex, Operations
  <2>6. InStep'
    BY <1>6, <2>1, <2>2, <2>3 DEF handle_read_header, environment, TypeOK, InStep, InStepAt
  <2>. QED
    BY <2>4, <2>5, <2>6
<1>7. ASSUME NEW c \in Clients, handle_read_body(c) PROVE Base'
  <2> DEFINE m == sent[c][taken[c]]
  <2>1. /\ ops[c] = {"read_body"} /\ socket[c] = "open"
        /\ taken[c] = handled[c] + 1 /\ taken[c] \in 1..Len(sent[c])
        /\ Others(c) /\ Result(c, m)
        /\ handled' = [handled EXCEPT ![c] = @ + 1]
        /\ UNCHANGED <<client, sent, partial, taken, replies>>
    BY <1>7, BodyEnds
  <2>2. CASE Ends(c)
    <3>1. TypeOK'
      BY <2>1, <2>2 DEF Others, Ends, End, TypeOK, SocketStates
    <3>2. HalfDuplex'
      BY <2>1, <2>2 DEF Ends, End, TypeOK, HalfDuplex
    <3>3. InStep'
      <4> SUFFICES ASSUME NEW d \in Clients PROVE InStepAt(d)'
        BY DEF InStep
      <4>1. InStepAt(d) /\ \A i \in 1..Len(replies[d]) : replies[d][i].to \in Nat
        BY RepliesTyped DEF InStep, Reply
      <4>. QED
        <5>1. CASE d = c
          BY <2>1, <2>2, <4>1, <5>1 DEF Ends, End, TypeOK, InStepAt
        <5>2. CASE d # c
          BY <2>1, <2>2, <4>1, <5>2 DEF Ends, End, TypeOK, InStepAt
        <5>. QED
          BY <5>1, <5>2
    <3>. QED
      BY <3>1, <3>2, <3>3
  <2>3. CASE Dies
    <3>1. TypeOK'
      BY <2>1, <2>3 DEF Others, Dies, Crash, TypeOK, SocketStates
    <3>2. HalfDuplex'
      BY <2>1, <2>3 DEF Dies, Crash, TypeOK, HalfDuplex
    <3>3. InStep'
      <4> SUFFICES ASSUME NEW d \in Clients PROVE InStepAt(d)'
        BY DEF InStep
      <4>1. InStepAt(d) /\ \A i \in 1..Len(replies[d]) : replies[d][i].to \in Nat
        BY RepliesTyped DEF InStep, Reply
      <4>. QED
        <5>1. CASE d = c
          BY <2>1, <2>3, <4>1, <5>1 DEF Dies, Crash, TypeOK, InStepAt
        <5>2. CASE d # c
          BY <2>1, <2>3, <4>1, <5>2 DEF Dies, Crash, TypeOK, InStepAt
        <5>. QED
          BY <5>1, <5>2
    <3>. QED
      BY <3>1, <3>2, <3>3
  <2>4. CASE Listens(c, m)
    <3>1. ops' = [ops EXCEPT ![c] = {"read_header"}]
          /\ UNCHANGED <<process, socket, output_buffer>>
      BY <2>1, <2>4 DEF Listens, Arm
    <3>2. TypeOK'
      BY <2>1, <3>1 DEF Others, TypeOK, Operations
    <3>3. HalfDuplex'
      BY <2>1, <3>1 DEF TypeOK, HalfDuplex, Operations
    <3>4. InStep'
      <4> SUFFICES ASSUME NEW d \in Clients PROVE InStepAt(d)'
        BY DEF InStep
      <4>1. InStepAt(d) /\ \A i \in 1..Len(replies[d]) : replies[d][i].to \in Nat
        BY RepliesTyped DEF InStep, Reply
      <4>. QED
        <5>1. CASE d = c
          BY <2>1, <3>1, <4>1, <5>1 DEF TypeOK, InStepAt
        <5>2. CASE d # c
          BY <2>1, <3>1, <4>1, <5>2 DEF TypeOK, InStepAt
        <5>. QED
          BY <5>1, <5>2
    <3>. QED
      BY <3>2, <3>3, <3>4
  <2>5. ASSUME NEW r \in Reply, Answers(c, m, r) PROVE Base'
    <3>1. /\ ops' = [ops EXCEPT ![c] = {"write"}]
          /\ UNCHANGED <<process, socket>>
          /\ output_buffer' = [output_buffer EXCEPT ![c] = r]
          /\ r.to = handled[c] + 1
      BY <2>1, <2>5 DEF Answers, send_data, Arm
    <3>2. TypeOK'
      BY <2>1, <3>1 DEF Others, TypeOK, Operations
    <3>3. HalfDuplex'
      BY <2>1, <3>1 DEF TypeOK, HalfDuplex, Operations
    <3>4. InStep'
      <4> SUFFICES ASSUME NEW d \in Clients PROVE InStepAt(d)'
        BY DEF InStep
      <4>1. InStepAt(d) /\ \A i \in 1..Len(replies[d]) : replies[d][i].to \in Nat
        BY RepliesTyped DEF InStep, Reply
      <4>. QED
        <5>1. CASE d = c
          BY <2>1, <3>1, <4>1, <5>1 DEF TypeOK, InStepAt
        <5>2. CASE d # c
          BY <2>1, <3>1, <4>1, <5>2 DEF TypeOK, InStepAt
        <5>. QED
          BY <5>1, <5>2
    <3>. QED
      BY <3>2, <3>3, <3>4
  <2>. QED
    BY <2>1, <2>2, <2>3, <2>4, <2>5 DEF Result
<1>8. ASSUME NEW c \in Clients, handle_write(c) PROVE Base'
  <2>1. ops[c] = {"write"} /\ socket[c] = "open"
    BY <1>8 DEF handle_write, HalfDuplex, Operations
  <2>2. /\ ops' = [ops EXCEPT ![c] = {"read_header"}]
        /\ UNCHANGED <<process, socket>>
        /\ replies' = [replies EXCEPT ![c] = Append(@, output_buffer[c])]
        /\ UNCHANGED <<client, sent, partial, taken, handled, channel_id, output_buffer>>
    BY <1>8, <2>1 DEF handle_write, Arm, environment
  <2>3. TypeOK'
    BY <2>2 DEF TypeOK, Operations
  <2>4. HalfDuplex'
    BY <2>1, <2>2 DEF TypeOK, HalfDuplex, Operations
  <2>5. InStep'
    BY <2>1, <2>2 DEF TypeOK, InStep, InStepAt, Reply
  <2>. QED
    BY <2>3, <2>4, <2>5
<1>9. ASSUME NEW c \in Clients, handle_error(c) PROVE Base'
  <2>1. TypeOK'
    BY <1>9 DEF handle_error, do_close, End, environment, TypeOK, SocketStates
  <2>2. HalfDuplex'
    BY <1>9 DEF handle_error, do_close, End, TypeOK, HalfDuplex
  <2>3. InStep'
    BY <1>9 DEF handle_error, do_close, End, environment, TypeOK, HalfDuplex, InStep, InStepAt
  <2>. QED
    BY <2>1, <2>2, <2>3
<1>10. CASE UNCHANGED vars
  BY <1>10 DEF vars, TypeOK, HalfDuplex, InStep, InStepAt
<1>. QED
  BY <1>1, <1>2, <1>3, <1>4, <1>5, <1>6, <1>7, <1>8, <1>9, <1>10
     DEF Next, Serve, Environment

(***************************************************************************)
(* TypeOK: every reachable state of every instance is well typed.          *)
(***************************************************************************)
THEOREM TypeCorrect == Spec => []TypeOK
<1>1. Base => TypeOK
  BY DEF Base
<1>. QED
  BY <1>1, BaseInit, BaseStep, PTL DEF Spec

(***************************************************************************)
(* HalfDuplex: an open connection always has exactly one operation pending. *)
(***************************************************************************)
THEOREM OneOperation == Spec => []HalfDuplex
<1>1. Base => HalfDuplex
  BY DEF Base
<1>. QED
  BY <1>1, BaseInit, BaseStep, PTL DEF Spec

(***************************************************************************)
(* InStep: headers, bodies and replies alternate.                          *)
(***************************************************************************)
THEOREM Alternation == Spec => []InStep
<1>1. Base => InStep
  BY DEF Base
<1>. QED
  BY <1>1, BaseInit, BaseStep, PTL DEF Spec
-----------------------------------------------------------------------------
(***************************************************************************)
(* What any step does to the connection of one client, whoever takes it:   *)
(* nothing that the remaining invariants speak of, or the handling of one   *)
(* message, or the completion of one reply.                                 *)
(***************************************************************************)
Quiet(d) ==
    /\ handled'[d] = handled[d] /\ replies'[d] = replies[d]
    /\ channel_id'[d] = channel_id[d] /\ output_buffer'[d] = output_buffer[d]
    /\ "write" \in ops'[d] => "write" \in ops[d]
    /\ socket'[d] = "open" /\ "write" \in ops[d] => "write" \in ops'[d]
    /\ socket'[d] = "open" => socket[d] = "open" \/ handled[d] = 0

Handles(d) ==
    /\ handled[d] + 1 \in 1..Len(sent[d]) /\ handled'[d] = handled[d] + 1
    /\ replies'[d] = replies[d]
    /\ socket[d] = "open" /\ "write" \notin ops[d]
    /\ LET m == sent[d][handled[d] + 1] IN
          \/ socket'[d] # "open" /\ "write" \notin ops'[d]
          \/ /\ m.type = "CHANNEL_STATUS" /\ "write" \notin ops'[d]
             /\ Keeps(d, m)
          \/ /\ output_buffer'[d] \in Reply
             /\ output_buffer'[d].to = handled'[d]
             /\ output_buffer'[d].channel = channel_id'[d]
             /\ Fits(m, output_buffer'[d]) /\ Keeps(d, m)
             /\ "write" \in ops'[d]

Writes(d) ==
    /\ "write" \in ops[d] /\ "write" \notin ops'[d]
    /\ replies'[d] = Append(replies[d], output_buffer[d])
    /\ handled'[d] = handled[d] /\ channel_id'[d] = channel_id[d]
    /\ socket'[d] = socket[d]

\* No step changes what the messages handled so far were.
LEMMA History ==
    ASSUME Base, [Next]_vars, NEW d \in Clients
    PROVE  \A k \in 1..Len(sent[d]) : sent'[d][k] = sent[d][k]
<1>1. CASE UNCHANGED sent
  BY <1>1
<1>2. CASE \E c \in Clients, m \in Messages : SendHead(c, m)
  <2>1. PICK c \in Clients, m \in Messages : SendHead(c, m)
    BY <1>2
  <2>2. sent[d] \in Seq(Messages) /\ sent' = [sent EXCEPT ![c] = Append(@, m)]
    BY <2>1 DEF SendHead, Base, TypeOK
  <2>3. CASE c = d
    <3>1. sent'[d] = Append(sent[d], m)
      BY <2>2, <2>3 DEF Base, TypeOK
    <3>. QED
      BY <2>2, <3>1
  <2>4. CASE c # d
    BY <2>2, <2>4
  <2>. QED
    BY <2>3, <2>4
<1>. QED
  BY <1>1, <1>2 DEF Next, Serve, Environment, Connect, SendBody, Leave, start,
                    handle_read_header, handle_read_body, HandleBody, handle_write,
                    handle_error, environment, vars

LEMMA OneOfThree ==
    ASSUME Base, [Next]_vars, NEW d \in Clients
    PROVE  Quiet(d) \/ Handles(d) \/ Writes(d)
<1> USE DEF Base
<1>1. ASSUME NEW c \in Clients, Environment(c) PROVE Quiet(d)
  BY <1>1 DEF Environment, Connect, SendHead, SendBody, Leave, Quiet
<1>2. ASSUME NEW c \in Clients, start(c) PROVE Quiet(d)
  <2>1. handled[c] = 0
    BY <1>2 DEF start, TypeOK, InStep, InStepAt
  <2>. QED
    BY <1>2, <2>1 DEF start, Quiet, TypeOK
<1>3. ASSUME NEW c \in Clients, handle_read_header(c) PROVE Quiet(d)
  <2>1. UNCHANGED <<handled, replies, channel_id, output_buffer>>
    BY <1>3 DEF handle_read_header
  <2>2. ops[c] = {"read_header"}
    BY <1>3 DEF handle_read_header, HalfDuplex, Operations
  <2>3. Arm(c, "read_header", "read_body") \/ End(c, "closed")
    BY <1>3 DEF handle_read_header, do_close
  <2>4. CASE Arm(c, "read_header", "read_body")
    BY <2>1, <2>2, <2>4 DEF Arm, Quiet, TypeOK
  <2>5. CASE End(c, "closed")
    BY <2>1, <2>5 DEF End, Quiet, TypeOK
  <2>. QED
    BY <2>3, <2>4, <2>5
<1>4. ASSUME NEW c \in Clients, handle_read_body(c) PROVE Quiet(d) \/ Handles(d)
  <2> DEFINE m == sent[c][taken[c]]
  <2>1. /\ ops[c] = {"read_body"} /\ socket[c] = "open"
        /\ taken[c] = handled[c] + 1 /\ taken[c] \in 1..Len(sent[c])
        /\ Others(c) /\ Result(c, m)
        /\ handled' = [handled EXCEPT ![c] = @ + 1]
        /\ UNCHANGED <<client, sent, partial, taken, replies>>
    BY <1>4, BodyEnds
  <2>2. CASE c # d
    <3>1. handled'[d] = handled[d] /\ channel_id'[d] = channel_id[d]
      BY <2>1, <2>2 DEF Others
    <3>2. output_buffer'[d] = output_buffer[d]
      BY <2>1, <2>2 DEF Result, Ends, Dies, Listens, Answers, send_data, TypeOK
    <3>3. \/ ops'[d] = ops[d] /\ socket'[d] = socket[d]
          \/ ops'[d] = {} /\ socket'[d] # "open"
      BY <2>1, <2>2 DEF Result, Ends, End, Dies, Crash, Listens, Answers, send_data,
                        Arm, TypeOK
    <3>. QED
      BY <2>1, <3>1, <3>2, <3>3 DEF Quiet
  <2>3. CASE c = d
    <3>1. handled'[d] = handled[d] + 1
      BY <2>1, <2>3 DEF TypeOK
    <3>2. CASE Ends(c)
      <4>1. socket'[d] # "open" /\ ops'[d] = {}
        BY <2>3, <3>2 DEF Ends, End, TypeOK
      <4>. QED
        BY <2>1, <2>3, <3>1, <4>1 DEF Handles
    <3>3. CASE Dies
      <4>1. socket'[d] # "open" /\ ops'[d] = {}
        BY <2>3, <3>3 DEF Dies, Crash, TypeOK
      <4>. QED
        BY <2>1, <2>3, <3>1, <4>1 DEF Handles
    <3>4. CASE Listens(c, m)
      <4>1. "write" \notin ops'[d]
        BY <2>1, <2>3, <3>4 DEF Listens, Arm, TypeOK
      <4>. QED
        BY <2>1, <2>3, <3>1, <3>4, <4>1 DEF Handles, Listens
    <3>5. ASSUME NEW r \in Reply, Answers(c, m, r) PROVE Handles(d)
      <4>1. output_buffer'[d] = r /\ "write" \in ops'[d]
        BY <2>3, <3>5 DEF Answers, send_data, Arm, TypeOK
      <4>. QED
        BY <2>1, <2>3, <3>1, <3>5, <4>1 DEF Handles, Answers
    <3>. QED
      BY <2>1, <3>2, <3>3, <3>4, <3>5 DEF Result
  <2>. QED
    BY <2>2, <2>3
<1>5. ASSUME NEW c \in Clients, handle_write(c) PROVE Quiet(d) \/ Writes(d)
  <2>1. ops[c] = {"write"}
    BY <1>5 DEF handle_write, HalfDuplex, Operations
  <2>2. CASE c # d
    BY <1>5, <2>2 DEF handle_write, Arm, Quiet, TypeOK
  <2>3. CASE c = d
    BY <1>5, <2>1, <2>3 DEF handle_write, Arm, Writes, TypeOK
  <2>. QED
    BY <2>2, <2>3
<1>6. ASSUME NEW c \in Clients, handle_error(c) PROVE Quiet(d)
  BY <1>6 DEF handle_error, do_close, End, Quiet, TypeOK
<1>7. CASE UNCHANGED vars
  BY <1>7 DEF vars, Quiet
<1>. QED
  BY <1>1, <1>2, <1>3, <1>4, <1>5, <1>6, <1>7 DEF Next, Serve
-----------------------------------------------------------------------------
(***************************************************************************)
(* The replies of each client, over Base.                                  *)
(***************************************************************************)
Settled == RepliesInOrder /\ NothingSkipped

LEMMA SettledStep == Base /\ Base' /\ Settled /\ [Next]_vars => Settled'
<1> SUFFICES ASSUME Base, Base', Settled, [Next]_vars, NEW d \in Clients
             PROVE  /\ \A i, j \in 1..Len(replies'[d]) :
                          i < j => replies'[d][i].to < replies'[d][j].to
                    /\ \A k \in 1..handled'[d] :
                          \/ sent'[d][k].type = "CHANNEL_STATUS"
                          \/ \E i \in 1..Len(replies'[d]) : replies'[d][i].to = k
                          \/ k = handled'[d] /\ ("write" \in ops'[d] \/ socket'[d] # "open")
  BY DEF Settled, RepliesInOrder, NothingSkipped
<1>0. /\ handled[d] \in Nat /\ handled[d] <= Len(sent[d]) /\ Len(sent[d]) \in Nat
      /\ handled[d] > 0 => socket[d] # "none"
  BY DEF Base, TypeOK, InStep, InStepAt
<1>1. /\ \A k \in 1..handled[d] : sent'[d][k] = sent[d][k]
      /\ \A k \in 1..Len(sent[d]) : sent'[d][k] = sent[d][k]
  BY <1>0, History
<1>2. /\ \A i, j \in 1..Len(replies[d]) : i < j => replies[d][i].to < replies[d][j].to
      /\ \A k \in 1..handled[d] :
            \/ sent[d][k].type = "CHANNEL_STATUS"
            \/ \E i \in 1..Len(replies[d]) : replies[d][i].to = k
            \/ k = handled[d] /\ ("write" \in ops[d] \/ socket[d] # "open")
  BY DEF Settled, RepliesInOrder, NothingSkipped
<1>3. CASE Quiet(d)
  BY <1>0, <1>1, <1>2, <1>3 DEF Quiet
<1>4. CASE Handles(d)
  <2>1. \A i \in 1..Len(replies'[d]) : replies'[d][i] = replies[d][i]
    BY <1>4 DEF Handles
  <2>2. ASSUME NEW k \in 1..handled[d], sent[d][k].type # "CHANNEL_STATUS"
        PROVE  \E i \in 1..Len(replies'[d]) : replies'[d][i].to = k
    BY <1>2, <1>4, <2>2 DEF Handles
  <2>3. \/ sent'[d][handled'[d]].type = "CHANNEL_STATUS"
        \/ "write" \in ops'[d] \/ socket'[d] # "open"
    BY <1>1, <1>4 DEF Handles
  <2>4. \A k \in 1..handled'[d] : k \in 1..handled[d] \/ k = handled'[d]
    BY <1>0, <1>4 DEF Handles
  <2>. QED
    BY <1>1, <1>2, <1>4, <2>2, <2>3, <2>4 DEF Handles
<1>5. CASE Writes(d)
  <2>1. /\ replies[d] \in Seq(Reply) /\ output_buffer[d] \in Reply
        /\ output_buffer[d].to = handled[d]
        /\ \A i \in 1..Len(replies[d]) : replies[d][i].to < handled[d]
    BY <1>5 DEF Writes, Base, TypeOK, InStep, InStepAt
  <2>2. /\ Len(replies'[d]) = Len(replies[d]) + 1
        /\ \A i \in 1..Len(replies[d]) : replies'[d][i] = replies[d][i]
        /\ replies'[d][Len(replies[d]) + 1] = output_buffer[d]
    BY <1>5, <2>1 DEF Writes
  <2>3. \A i, j \in 1..Len(replies'[d]) : i < j => replies'[d][i].to < replies'[d][j].to
    <3>1. \A j \in 1..Len(replies'[d]) : j \in 1..Len(replies[d]) \/ j = Len(replies[d]) + 1
      BY <2>1, <2>2
    <3>2. \A i, j \in 1..Len(replies'[d]) : i < j => i \in 1..Len(replies[d])
      BY <2>1, <2>2
    <3>. QED
      BY <1>2, <2>1, <2>2, <3>1, <3>2
  <2>4. ASSUME NEW k \in 1..handled'[d], sent'[d][k].type # "CHANNEL_STATUS"
        PROVE  \E i \in 1..Len(replies'[d]) : replies'[d][i].to = k
    <3>1. k \in 1..handled[d] /\ sent[d][k].type # "CHANNEL_STATUS"
      BY <1>1, <1>5, <2>4 DEF Writes
    <3>2. CASE k = handled[d]
      BY <2>1, <2>2, <3>2
    <3>3. CASE k # handled[d]
      BY <1>2, <2>1, <2>2, <3>1, <3>3
    <3>. QED
      BY <3>2, <3>3
  <2>. QED
    BY <2>3, <2>4
<1>. QED
  BY <1>3, <1>4, <1>5, OneOfThree

LEMMA SettledInit == Init => Settled
BY DEF Init, Settled, RepliesInOrder, NothingSkipped

(***************************************************************************)
(* RepliesInOrder: no client is answered twice or out of order.            *)
(***************************************************************************)
THEOREM OrderedReplies == Spec => []RepliesInOrder
<1>1. Settled => RepliesInOrder
  BY DEF Settled
<1>. QED
  BY <1>1, BaseInit, BaseStep, SettledInit, SettledStep, PTL DEF Spec

(***************************************************************************)
(* NothingSkipped: only CHANNEL_STATUS is passed over in silence.          *)
(***************************************************************************)
THEOREM EveryoneAnswered == Spec => []NothingSkipped
<1>1. Settled => NothingSkipped
  BY DEF Settled
<1>. QED
  BY <1>1, BaseInit, BaseStep, SettledInit, SettledStep, PTL DEF Spec

-----------------------------------------------------------------------------
(***************************************************************************)
(* The contents of the replies, over Base.  The strengthening speaks of    *)
(* the reply in output_buffer_ while it is written, and of channel_id_      *)
(* while the session lasts; the PCM handler may set channel_id_ to another *)
(* id, but only on its way out.                                             *)
(***************************************************************************)
Pending ==
    \A c \in Clients : "write" \in ops[c] =>
        /\ Fits(sent[c][handled[c]], output_buffer[c])
        /\ output_buffer[c].channel = channel_id[c]

ChannelKnown ==
    \A c \in Clients : socket[c] = "open" =>
        \A k \in 1..handled[c] :
            LastSetup(c, k, handled[c]) /\ "CHANNEL_ID" \in sent[c][k].has
                => channel_id[c] = sent[c][k].id

\* Which setup is the last one does not change any more.
LEMMA LastSetupStable ==
    ASSUME Base, [Next]_vars, NEW d \in Clients,
           NEW n \in Nat, n <= Len(sent[d]), NEW k \in 1..n
    PROVE  (/\ sent'[d][k].type = "CHANNEL_SETUP"
            /\ \A j \in k + 1 .. n : sent'[d][j].type # "CHANNEL_SETUP")
              <=> LastSetup(d, k, n)
<1>1. Len(sent[d]) \in Nat
  BY DEF Base, TypeOK
<1>2. \A j \in k..n : sent'[d][j] = sent[d][j]
  BY <1>1, History
<1>. QED
  BY <1>2 DEF LastSetup

LEMMA PendingStep == Base /\ Base' /\ Pending /\ [Next]_vars => Pending'
<1> SUFFICES ASSUME Base, Base', Pending, [Next]_vars, NEW d \in Clients, "write" \in ops'[d]
             PROVE  /\ Fits(sent'[d][handled'[d]], output_buffer'[d])
                    /\ output_buffer'[d].channel = channel_id'[d]
  BY DEF Pending, Fits
<1>1. handled[d] \in Nat /\ Len(sent[d]) \in Nat /\ handled[d] <= Len(sent[d])
  BY DEF Base, TypeOK, InStep, InStepAt
<1>2. CASE Quiet(d)
  <2>1. "write" \in ops[d] /\ handled[d] > 0
    BY <1>2 DEF Quiet, Base, InStep, InStepAt
  <2>2. sent'[d][handled[d]] = sent[d][handled[d]]
    BY <1>1, <2>1, History
  <2>. QED
    BY <1>2, <2>1, <2>2 DEF Quiet, Pending
<1>3. CASE Handles(d)
  <2>1. sent'[d][handled[d] + 1] = sent[d][handled[d] + 1]
    BY <1>3, History DEF Handles
  <2>. QED
    BY <1>3, <2>1 DEF Handles, Fits, Base, HalfDuplex
<1>4. CASE Writes(d)
  BY <1>4 DEF Writes
<1>. QED
  BY <1>2, <1>3, <1>4, OneOfThree

LEMMA ChannelKnownStep == Base /\ Base' /\ ChannelKnown /\ [Next]_vars => ChannelKnown'
<1> SUFFICES ASSUME Base, Base', ChannelKnown, [Next]_vars, NEW d \in Clients,
                    socket'[d] = "open", NEW k \in 1..handled'[d],
                    LastSetup(d, k, handled[d])', "CHANNEL_ID" \in sent'[d][k].has
             PROVE  channel_id'[d] = sent'[d][k].id
  BY DEF ChannelKnown
<1>1. handled[d] \in Nat /\ Len(sent[d]) \in Nat /\ handled[d] <= Len(sent[d])
  BY DEF Base, TypeOK, InStep, InStepAt
<1>2. ASSUME handled'[d] = handled[d], channel_id'[d] = channel_id[d],
             socket[d] = "open" \/ handled[d] = 0
      PROVE  channel_id'[d] = sent'[d][k].id
  <2>1. LastSetup(d, k, handled[d]) /\ sent'[d][k] = sent[d][k]
    <3>1. \A j \in 1..handled[d] : sent'[d][j] = sent[d][j]
      BY <1>1, History
    <3>. QED
      BY <1>1, <1>2, <3>1 DEF LastSetup
  <2>. QED
    BY <1>1, <1>2, <2>1 DEF ChannelKnown
<1>3. CASE Quiet(d)
  BY <1>2, <1>3 DEF Quiet
<1>4. CASE Writes(d)
  BY <1>2, <1>4 DEF Writes
<1>5. CASE Handles(d)
  <2>1. /\ handled[d] + 1 <= Len(sent[d]) /\ handled'[d] = handled[d] + 1
        /\ socket[d] = "open"
    BY <1>5 DEF Handles
  <2>2. \A j \in 1..handled[d] + 1 : sent'[d][j] = sent[d][j]
    BY <1>1, <2>1, History
  <2>3. Keeps(d, sent[d][handled[d] + 1])
    BY <1>5 DEF Handles
  <2>4. CASE k = handled[d] + 1
    BY <1>1, <2>1, <2>2, <2>3, <2>4 DEF LastSetup, Keeps
  <2>5. CASE k # handled[d] + 1
    <3>1. k \in 1..handled[d]
      BY <1>1, <2>1, <2>5
    <3>2. /\ sent'[d][k].type = "CHANNEL_SETUP"
          /\ \A j \in k + 1 .. handled[d] + 1 : sent'[d][j].type # "CHANNEL_SETUP"
      BY <2>1 DEF LastSetup
    <3>3. LastSetup(d, k, handled[d])
      <4>1. \A j \in k + 1 .. handled[d] : j \in k + 1 .. handled[d] + 1
        BY <1>1, <3>1
      <4>. QED
        BY <1>1, <3>1, <3>2, <4>1, LastSetupStable
    <3>4. sent[d][handled[d] + 1].type # "CHANNEL_SETUP"
      <4>1. handled[d] + 1 \in k + 1 .. handled[d] + 1 /\ handled[d] + 1 \in 1..handled[d] + 1
        BY <1>1, <3>1
      <4>. QED
        BY <2>2, <3>2, <4>1
    <3>. QED
      BY <1>1, <2>1, <2>2, <2>3, <3>1, <3>3, <3>4 DEF Keeps, ChannelKnown
  <2>. QED
    BY <2>4, <2>5
<1>. QED
  BY <1>3, <1>4, <1>5, OneOfThree

Contents == Pending /\ ChannelKnown /\ RepliesFit /\ ChannelOfLastSetup

LEMMA ContentsInit == Init => Contents
BY DEF Init, Contents, Pending, ChannelKnown, RepliesFit, ChannelOfLastSetup

LEMMA ContentsStep == Base /\ Base' /\ Contents /\ [Next]_vars => Contents'
<1> SUFFICES ASSUME Base, Base', Contents, [Next]_vars PROVE Contents'
  OBVIOUS
<1>1. Pending' /\ ChannelKnown'
  BY PendingStep, ChannelKnownStep DEF Contents
<1> DEFINE Good(d, i) ==
             LET r == replies[d][i] IN
                /\ r.to \in 1..handled[d]
                /\ Fits(sent[d][r.to], r)
                /\ \A k \in 1..r.to :
                      LastSetup(d, k, r.to) /\ "CHANNEL_ID" \in sent[d][k].has
                          => r.channel = sent[d][k].id
<1>2. \A d \in Clients : \A i \in 1..Len(replies[d]) : Good(d, i)
  BY DEF Contents, RepliesFit, ChannelOfLastSetup
<1>3. ASSUME NEW d \in Clients, NEW i \in 1..Len(replies'[d]) PROVE Good(d, i)'
  <2>1. /\ handled[d] \in Nat /\ Len(sent[d]) \in Nat /\ handled[d] <= Len(sent[d])
        /\ replies[d] \in Seq(Reply) /\ output_buffer[d] \in Reply
    BY DEF Base, TypeOK, InStep, InStepAt
  <2>2. \A k \in 1..handled[d] : sent'[d][k] = sent[d][k]
    BY <2>1, History
  <2>3. ASSUME i \in 1..Len(replies[d]), replies'[d][i] = replies[d][i],
               handled'[d] \in {handled[d], handled[d] + 1}
        PROVE  Good(d, i)'
    <3>1. Good(d, i)
      BY <1>2, <2>3
    <3>2. replies[d][i].to \in 1..handled'[d]
      BY <2>1, <2>3, <3>1
    <3>3. \A k \in 1..replies[d][i].to : sent'[d][k] = sent[d][k]
      BY <2>1, <2>2, <3>1
    <3>4. Fits(sent'[d][replies[d][i].to], replies[d][i])
      BY <3>1, <3>3
    <3>5. \A k \in 1..replies[d][i].to :
             (/\ sent'[d][k].type = "CHANNEL_SETUP"
              /\ \A j \in k + 1 .. replies[d][i].to : sent'[d][j].type # "CHANNEL_SETUP")
             => LastSetup(d, k, replies[d][i].to)
      <4>1. replies[d][i].to \in Nat /\ replies[d][i].to <= Len(sent[d])
        BY <2>1, <3>1
      <4>. QED
        BY <4>1, LastSetupStable
    <3>. QED
      BY <2>3, <3>1, <3>2, <3>3, <3>4, <3>5 DEF LastSetup, Fits
  <2>4. CASE Quiet(d)
    BY <2>3, <2>4 DEF Quiet
  <2>5. CASE Handles(d)
    BY <2>3, <2>5 DEF Handles
  <2>6. CASE Writes(d)
    <3>1. CASE i \in 1..Len(replies[d])
      BY <2>1, <2>3, <2>6, <3>1 DEF Writes
    <3>2. CASE i = Len(replies[d]) + 1
      <4>1. /\ replies'[d][i] = output_buffer[d] /\ handled'[d] = handled[d]
            /\ "write" \in ops[d] /\ socket[d] = "open"
            /\ output_buffer[d].to = handled[d] /\ handled[d] > 0
        BY <2>1, <2>6, <3>2 DEF Writes, Base, InStep, InStepAt, HalfDuplex
      <4>2. Fits(sent[d][handled[d]], output_buffer[d])
            /\ output_buffer[d].channel = channel_id[d]
        BY <4>1 DEF Contents, Pending
      <4>3. Fits(sent'[d][handled[d]], output_buffer[d])
        BY <2>1, <2>2, <4>1, <4>2
      <4>4. ASSUME NEW k \in 1..handled[d], sent'[d][k].type = "CHANNEL_SETUP",
                   \A j \in k + 1 .. handled[d] : sent'[d][j].type # "CHANNEL_SETUP",
                   "CHANNEL_ID" \in sent'[d][k].has
            PROVE  output_buffer[d].channel = sent'[d][k].id
        <5>1. LastSetup(d, k, handled[d]) /\ "CHANNEL_ID" \in sent[d][k].has
          BY <2>1, <2>2, <4>4, LastSetupStable
        <5>. QED
          BY <2>2, <4>1, <4>2, <5>1 DEF Contents, ChannelKnown
      <4>. QED
        BY <2>1, <4>1, <4>3, <4>4 DEF LastSetup, Fits
    <3>3. Len(replies'[d]) = Len(replies[d]) + 1
      BY <2>1, <2>6 DEF Writes
    <3>. QED
      BY <2>1, <3>1, <3>2, <3>3
  <2>. QED
    BY <2>4, <2>5, <2>6, OneOfThree
<1>4. RepliesFit' /\ ChannelOfLastSetup'
  BY <1>3 DEF RepliesFit, ChannelOfLastSetup
<1>. QED
  BY <1>1, <1>4 DEF Contents

(***************************************************************************)
(* RepliesFit: every reply is of the kind its message asks for, whatever   *)
(* stands in message_data_ behind the message.                             *)
(***************************************************************************)
THEOREM FittingReplies == Spec => []RepliesFit
<1>1. Contents => RepliesFit
  BY DEF Contents
<1>. QED
  BY <1>1, BaseInit, BaseStep, ContentsInit, ContentsStep, PTL DEF Spec

(***************************************************************************)
(* ChannelOfLastSetup: every reply names the channel set up last.          *)
(***************************************************************************)
THEOREM RightChannel == Spec => []ChannelOfLastSetup
<1>1. Contents => ChannelOfLastSetup
  BY DEF Contents
<1>. QED
  BY <1>1, BaseInit, BaseStep, ContentsInit, ContentsStep, PTL DEF Spec

(***************************************************************************)
(* OutputBufferStable: no handler changes output_buffer_ under a write.    *)
(***************************************************************************)
THEOREM StableBuffer == Spec => OutputBufferStable
<1>1. ASSUME Base, [Next]_vars, NEW c \in Clients, "write" \in ops[c], "write" \in ops'[c]
      PROVE  output_buffer'[c] = output_buffer[c]
  BY <1>1, OneOfThree DEF Quiet, Handles, Writes
<1>2. Base /\ [Next]_vars
        => [\A c \in Clients : "write" \in ops[c] /\ "write" \in ops'[c]
               => output_buffer'[c] = output_buffer[c]]_vars
  BY <1>1
<1>. QED
  BY <1>2, BaseInit, BaseStep, PTL DEF Spec, OutputBufferStable
-----------------------------------------------------------------------------
(***************************************************************************)
(* Session implements Exchange.  The proof uses Base, Settled and Pending  *)
(* of the invariants above; Sound adds what the end of a connection means  *)
(* for the messages in front of it.                                        *)
(***************************************************************************)

SoundAt(c) ==
    /\ Len(sent[c]) <= MaxMessages
    /\ partial[c] => Len(sent[c]) > 0
    /\ handled[c] <= Complete(c)
    /\ process = "crashed" => socket[c] # "open"
    /\ "read_body" \in ops[c] => sent[c][taken[c]].fits
    /\ socket[c] = "open" =>
          \A k \in 1..handled[c] : sent[c][k].fits /\ sent[c][k].tiles

(* Only complete messages are handled, and a connection that is still open  *)
(* has handled none that was malformed.                                     *)
Sound == \A c \in Clients : SoundAt(c)

\* How many messages are complete, as a number.
LEMMA CompleteType ==
    ASSUME TypeOK, NEW c \in Clients
    PROVE  /\ Len(sent[c]) \in Nat /\ partial[c] \in BOOLEAN
           /\ partial[c] => Complete(c) = Len(sent[c]) - 1
           /\ ~partial[c] => Complete(c) = Len(sent[c])
<1>1. sent[c] \in Seq(Messages) /\ partial[c] \in BOOLEAN
  BY DEF TypeOK
<1>2. Len(sent[c]) \in Nat
  BY <1>1
<1>3. CASE partial[c]
  BY <1>1, <1>2, <1>3 DEF Complete
<1>4. CASE ~partial[c]
  BY <1>1, <1>2, <1>4 DEF Complete
<1>. QED
  BY <1>1, <1>2, <1>3, <1>4

LEMMA SoundInit == Init => Sound
<1> SUFFICES ASSUME Init, NEW c \in Clients PROVE SoundAt(c)
  BY DEF Sound
<1>1. Base
  BY BaseInit
<1>2. sent[c] = << >> /\ ~partial[c] /\ handled[c] = 0 /\ ops[c] = {}
      /\ socket[c] = "none" /\ process = "up"
  BY DEF Init
<1>3. Len(sent[c]) = 0
  BY <1>2
<1>4. Complete(c) = 0
  BY <1>1, <1>2, <1>3, CompleteType DEF Base
<1>. QED
  BY <1>2, <1>3, <1>4 DEF SoundAt

LEMMA SoundStep == Base /\ Base' /\ Sound /\ [Next]_vars => Sound'
<1> SUFFICES ASSUME Base, Base', Sound, [Next]_vars, NEW d \in Clients
             PROVE  SoundAt(d)'
  BY DEF Sound
<1> USE DEF Base
<1>0. /\ SoundAt(d)
      /\ handled[d] \in Nat /\ taken[d] \in Nat /\ handled[d] <= taken[d]
      /\ taken[d] <= Len(sent[d]) /\ Len(sent[d]) \in Nat
      /\ socket[d] = "none" => taken[d] = 0
  BY DEF Sound, TypeOK, InStep, InStepAt
<1>00. /\ Len(sent[d]) \in Nat /\ partial[d] \in BOOLEAN /\ partial'[d] \in BOOLEAN
       /\ partial[d] => Complete(d) = Len(sent[d]) - 1
       /\ ~partial[d] => Complete(d) = Len(sent[d])
       /\ partial'[d] => Complete(d)' = Len(sent'[d]) - 1
       /\ ~partial'[d] => Complete(d)' = Len(sent'[d])
  <2>1. partial'[d] \in BOOLEAN /\ Len(sent'[d]) \in Nat
    BY DEF TypeOK
  <2>2. partial'[d] => Complete(d)' = Len(sent'[d]) - 1
    BY <2>1 DEF Complete
  <2>3. ~partial'[d] => Complete(d)' = Len(sent'[d])
    BY <2>1 DEF Complete
  <2>. QED
    BY <2>1, <2>2, <2>3, CompleteType
<1>1. \A k \in 1..Len(sent[d]) : sent'[d][k] = sent[d][k]
  BY History
<1>2. ASSUME sent'[d] = sent[d], partial'[d] = partial[d], handled'[d] = handled[d],
             process' = process, socket'[d] # "open" \/ socket[d] = "open",
             "read_body" \in ops'[d] => "read_body" \in ops[d] /\ taken'[d] = taken[d]
      PROVE  SoundAt(d)'
  BY <1>0, <1>2 DEF SoundAt, Complete
<1>3. ASSUME NEW c \in Clients, Connect(c) \/ Leave(c) \/ handle_error(c) \/ handle_write(c)
      PROVE  SoundAt(d)'
  <2>1. CASE Connect(c) \/ Leave(c)
    BY <1>2, <2>1 DEF Connect, Leave
  <2>2. CASE handle_error(c)
    <3>1. UNCHANGED <<sent, partial, handled, taken, process>>
      BY <2>2 DEF handle_error, do_close, End, environment
    <3>2. socket'[d] # "open" \/ socket[d] = "open"
      BY <2>2 DEF handle_error, do_close, End, TypeOK
    <3>3. "read_body" \in ops'[d] => "read_body" \in ops[d]
      BY <2>2 DEF handle_error, do_close, End, TypeOK
    <3>. QED
      BY <1>2, <3>1, <3>2, <3>3
  <2>3. CASE handle_write(c)
    <3>1. UNCHANGED <<sent, partial, handled, taken, process, socket>>
      BY <2>3 DEF handle_write, Arm, environment
    <3>2. "read_body" \in ops'[d] => "read_body" \in ops[d]
      BY <2>3 DEF handle_write, Arm, TypeOK
    <3>. QED
      BY <1>2, <3>1, <3>2
  <2>. QED
    BY <1>3, <2>1, <2>2, <2>3
<1>4. ASSUME NEW c \in Clients, NEW m \in Messages, SendHead(c, m) PROVE SoundAt(d)'
  <2>1. CASE c # d
    BY <1>2, <1>4, <2>1 DEF SendHead, TypeOK
  <2>2. CASE c = d
    <3>1. /\ ~partial[d] /\ Len(sent[d]) < MaxMessages
          /\ sent'[d] = Append(sent[d], m) /\ partial'[d] = TRUE
          /\ UNCHANGED <<process, socket, ops, taken, handled>>
      BY <1>4, <2>2 DEF SendHead, TypeOK
    <3>2. Len(sent'[d]) = Len(sent[d]) + 1
      BY <3>1 DEF TypeOK
    <3>3. Complete(d)' = Complete(d)
      BY <1>00, <3>1, <3>2
    <3>4. "read_body" \in ops[d] => taken[d] \in 1..Len(sent[d])
      BY <1>0 DEF InStep, InStepAt
    <3>5. handled[d] <= Len(sent[d])
      BY <1>0
    <3>. QED
      BY <1>0, <1>1, <3>1, <3>2, <3>3, <3>4, <3>5 DEF SoundAt
  <2>. QED
    BY <2>1, <2>2
<1>5. ASSUME NEW c \in Clients, SendBody(c) PROVE SoundAt(d)'
  <2>1. CASE c # d
    BY <1>2, <1>5, <2>1 DEF SendBody, TypeOK
  <2>2. CASE c = d
    <3>1. /\ partial[d] /\ partial'[d] = FALSE
          /\ UNCHANGED <<process, sent, socket, ops, taken, handled>>
      BY <1>5, <2>2 DEF SendBody, TypeOK
    <3>2. Complete(d)' = Complete(d) + 1
      BY <1>00, <3>1
    <3>3. handled[d] <= Complete(d)'
      BY <1>0, <1>00, <3>1, <3>2 DEF SoundAt
    <3>. QED
      BY <1>0, <3>1, <3>3 DEF SoundAt
  <2>. QED
    BY <2>1, <2>2
<1>6. ASSUME NEW c \in Clients, start(c) PROVE SoundAt(d)'
  <2>1. CASE c # d
    BY <1>2, <1>6, <2>1 DEF start, environment, TypeOK
  <2>2. CASE c = d
    <3>1. handled[d] = 0 /\ ops[d] = {}
      BY <1>0, <1>6, <2>2 DEF start, HalfDuplex
    <3>2. /\ ops'[d] = {"read_header"} /\ process' = "up"
          /\ UNCHANGED <<sent, partial, handled>>
      BY <1>6, <2>2, <3>1 DEF start, environment, TypeOK
    <3>3. Complete(d)' = Complete(d)
      BY <3>2 DEF Complete
    <3>. QED
      BY <1>0, <3>1, <3>2, <3>3 DEF SoundAt
  <2>. QED
    BY <2>1, <2>2
<1>7. ASSUME NEW c \in Clients, handle_read_header(c) PROVE SoundAt(d)'
  <2>1. /\ UNCHANGED <<process, sent, partial, handled>>
        /\ taken' = [taken EXCEPT ![c] = @ + 1]
    BY <1>7 DEF handle_read_header, Arm, do_close, End, environment
  <2>2. CASE c # d
    <3>1. taken'[d] = taken[d]
      BY <2>1, <2>2 DEF TypeOK
    <3>2. ops'[d] = ops[d] /\ socket'[d] = socket[d]
      BY <1>7, <2>2 DEF handle_read_header, Arm, do_close, End, TypeOK
    <3>. QED
      BY <1>2, <2>1, <3>1, <3>2
  <2>3. CASE c = d
    <3>1. taken'[d] = taken[d] + 1
      BY <2>1, <2>3 DEF TypeOK
    <3>2. socket'[d] # "open" \/ socket[d] = "open"
      BY <1>7, <2>3 DEF handle_read_header, Arm, do_close, End, TypeOK
    <3>3. ASSUME "read_body" \in ops'[d] PROVE sent[d][taken[d] + 1].fits
      BY <1>7, <2>3, <3>3 DEF handle_read_header, Arm, do_close, End, TypeOK
    <3>. QED
      BY <1>0, <2>1, <3>1, <3>2, <3>3 DEF SoundAt, Complete
  <2>. QED
    BY <2>2, <2>3
<1>8. ASSUME NEW c \in Clients, handle_read_body(c) PROVE SoundAt(d)'
  <2> DEFINE m == sent[c][taken[c]]
  <2>1. /\ ops[c] = {"read_body"} /\ socket[c] = "open"
        /\ taken[c] = handled[c] + 1 /\ taken[c] \in 1..Len(sent[c])
        /\ Result(c, m)
        /\ handled' = [handled EXCEPT ![c] = @ + 1]
        /\ UNCHANGED <<sent, partial, taken>>
    BY <1>8, BodyEnds
  <2>2. \/ /\ UNCHANGED <<process, socket>>
           /\ ops' = [ops EXCEPT ![c] = ops'[c]] /\ "read_body" \notin ops'[c]
        \/ /\ UNCHANGED process
           /\ socket'[c] # "open"
           /\ \A e \in Clients \ {c} : socket'[e] = socket[e] /\ ops'[e] = ops[e]
           /\ ops'[c] = {}
        \/ /\ process' = "crashed"
           /\ \A e \in Clients : socket'[e] # "open" /\ ops'[e] = {}
    <3>1. CASE Ends(c)
      BY <3>1 DEF Ends, End, TypeOK
    <3>2. CASE Dies
      BY <3>2 DEF Dies, Crash, TypeOK
    <3>3. CASE Listens(c, m)
      BY <2>1, <3>3 DEF Listens, Arm, TypeOK
    <3>4. CASE \E r \in Reply : Answers(c, m, r)
      BY <2>1, <3>4 DEF Answers, send_data, Arm, TypeOK
    <3>. QED
      BY <2>1, <3>1, <3>2, <3>3, <3>4 DEF Result
  <2>3. handled[c] + 1 <= Complete(c)
    <3>1. /\ Len(sent[c]) \in Nat
          /\ partial[c] => Complete(c) = Len(sent[c]) - 1
          /\ ~partial[c] => Complete(c) = Len(sent[c])
      BY CompleteType
    <3>2. taken[c] < Len(sent[c]) \/ ~partial[c]
      BY <1>8 DEF handle_read_body, HandleBody, BodyArrived
    <3>3. handled[c] \in Nat
      BY DEF TypeOK
    <3>. QED
      BY <2>1, <3>1, <3>2, <3>3
  <2>4. socket'[c] = "open" => m.fits /\ m.tiles
    <3>1. m.fits
      BY <2>1 DEF Sound, SoundAt
    <3>2. ~m.tiles => socket'[c] = "closed"
      BY <1>8 DEF handle_read_body, HandleBody, do_close, End, TypeOK
    <3>. QED
      BY <3>1, <3>2
  <2>5. CASE c # d
    <3>1. handled'[d] = handled[d] /\ sent'[d] = sent[d] /\ partial'[d] = partial[d]
      BY <2>1, <2>5 DEF TypeOK
    <3>2. CASE process' = process
      <4>1. ops'[d] = ops[d] \/ ops'[d] = {}
        BY <2>2, <2>5 DEF TypeOK
      <4>2. socket'[d] # "open" \/ socket[d] = "open"
        BY <2>2, <2>5 DEF TypeOK
      <4>. QED
        BY <1>2, <2>1, <3>1, <3>2, <4>1, <4>2
    <3>3. CASE process' # process
      BY <1>0, <2>1, <2>2, <3>1, <3>3 DEF SoundAt, Complete
    <3>. QED
      BY <3>2, <3>3
  <2>6. CASE c = d
    <3>1. handled'[d] = handled[d] + 1
      BY <2>1, <2>6 DEF TypeOK
    <3>2. "read_body" \notin ops'[d]
      BY <2>2, <2>6
    <3>3. process' = "crashed" => socket'[d] # "open"
      BY <1>0, <2>1, <2>2, <2>6 DEF SoundAt
    <3>4. socket'[d] = "open" =>
             \A k \in 1..handled'[d] : sent[d][k].fits /\ sent[d][k].tiles
      <4>1. \A k \in 1..handled'[d] : k \in 1..handled[d] \/ k = taken[d]
        BY <1>0, <2>1, <2>6, <3>1
      <4>. QED
        BY <1>0, <2>1, <2>4, <2>6, <4>1 DEF SoundAt
    <3>5. Complete(d)' = Complete(d)
      BY <2>1 DEF Complete
    <3>. QED
      BY <1>0, <2>1, <2>3, <2>6, <3>1, <3>2, <3>3, <3>4, <3>5 DEF SoundAt
  <2>. QED
    BY <2>5, <2>6
<1>9. CASE UNCHANGED vars
  BY <1>2, <1>9 DEF vars
<1>. QED
  BY <1>3, <1>4, <1>5, <1>6, <1>7, <1>8, <1>9 DEF Next, Serve, Environment

-----------------------------------------------------------------------------
(***************************************************************************)
(* The refinement mapping.                                                 *)
(***************************************************************************)
LEMMA Extended ==
    ASSUME NEW S, NEW n \in Nat, NEW f \in [1..n -> S], NEW x \in S,
           NEW g \in [1..(n + 1) -> S], \A i \in 1..n : g[i] = f[i], g[n + 1] = x
    PROVE  g = Append(f, x)
<1>1. f \in Seq(S) /\ Len(f) = n
  OBVIOUS
<1>2. Append(f, x) \in Seq(S) /\ Len(Append(f, x)) = n + 1
  BY <1>1
<1>3. g \in Seq(S) /\ Len(g) = n + 1
  OBVIOUS
<1>4. \A i \in 1..(n + 1) : Append(f, x)[i] = IF i <= n THEN f[i] ELSE x
  BY <1>1
<1>5. \A i \in 1..(n + 1) : g[i] = Append(f, x)[i]
  BY <1>4
<1>. QED
  BY <1>2, <1>3, <1>5

\* A message is a question of some kind.
LEMMA QuestionType == \A m : Question(m) \in Contract!Questions
BY DEF Question, Contract!Questions

\* What a client has asked and been answered are sequences.
LEMMA Shapes ==
    ASSUME TypeOK, Sound, NEW d \in Clients
    PROVE  /\ Complete(d) \in Nat /\ Complete(d) <= Len(sent[d])
           /\ Asked[d] \in [1..Complete(d) -> Contract!Questions]
           /\ Len(Asked[d]) = Complete(d)
           /\ Len(replies[d]) \in Nat
           /\ DOMAIN Answered[d] = 1..Len(replies[d])
           /\ Len(Answered[d]) = Len(replies[d])
<1>1. Complete(d) \in Nat /\ Complete(d) <= Len(sent[d])
  BY CompleteType DEF Sound, SoundAt
<1>2. Asked[d] = [k \in 1..Complete(d) |-> Question(sent[d][k])]
  BY DEF Asked
<1>3. Asked[d] \in [1..Complete(d) -> Contract!Questions]
  BY <1>2, QuestionType
<1>4. Len(Asked[d]) = Complete(d)
  BY <1>1, <1>3
<1>5. replies[d] \in Seq(Reply)
  BY DEF TypeOK
<1>6. Len(replies[d]) \in Nat
  BY <1>5
<1>7. Answered[d] = [i \in 1..Len(replies[d]) |-> Answer(replies[d][i])]
  BY DEF Answered
<1>8. DOMAIN Answered[d] = 1..Len(replies[d])
  BY <1>7
<1>9. Len(Answered[d]) = Len(replies[d])
  BY <1>6, <1>7
<1>. QED
  BY <1>1, <1>3, <1>4, <1>6, <1>8, <1>9

\* What is over stays over.
LEMMA OverStays ==
    ASSUME Base, [Next]_vars, NEW d \in Clients, Over(d)
    PROVE  Over(d)'
<1> USE DEF Base
<1>1. CASE UNCHANGED <<process, socket>>
  BY <1>1 DEF Over
<1>2. ASSUME NEW c \in Clients, NEW how \in {"closed", "released"}, End(c, how)
      PROVE  Over(d)'
  BY <1>2 DEF End, Over, TypeOK
<1>3. CASE Dies
  BY <1>3 DEF Dies, Crash, Over
<1>4. ASSUME NEW c \in Clients, start(c) PROVE Over(d)'
  BY <1>4 DEF start, Over, TypeOK
<1>5. ASSUME NEW c \in Clients, handle_read_body(c) PROVE Over(d)'
  <2>1. Result(c, sent[c][taken[c]])
    BY <1>5, BodyEnds
  <2>. QED
    BY <1>1, <1>2, <1>3, <2>1 DEF Result, Ends, Listens, Answers, send_data, Arm
<1>6. ASSUME NEW c \in Clients, handle_read_header(c) PROVE Over(d)'
  BY <1>1, <1>2, <1>6 DEF handle_read_header, Arm, do_close
<1>7. ASSUME NEW c \in Clients, handle_error(c) PROVE Over(d)'
  BY <1>2, <1>7 DEF handle_error, do_close
<1>8. ASSUME NEW c \in Clients, handle_write(c) PROVE Over(d)'
  BY <1>1, <1>8 DEF handle_write, Arm
<1>9. ASSUME NEW c \in Clients, Environment(c) PROVE Over(d)'
  BY <1>1, <1>9 DEF Environment, Connect, SendHead, SendBody, Leave
<1>10. CASE UNCHANGED vars
  BY <1>1, <1>10 DEF vars
<1>. QED
  BY <1>4, <1>5, <1>6, <1>7, <1>8, <1>9, <1>10 DEF Next, Serve

\* A step that neither asks nor answers can only end connections.
LEMMA StepEnds ==
    ASSUME Base, [Next]_vars, UNCHANGED <<Asked, Answered>>
    PROVE  Contract!End
<1> DEFINE C == {d \in Clients : Over(d)'}
<1>1. \A d \in Clients : Over(d)' <=> (Over(d) \/ d \in C)
  BY OverStays
<1>2. \A d \in Clients : Ended[d] = Over(d)
  BY DEF Ended
<1>3. Ended' = [d \in Clients |-> Over(d)']
  BY DEF Ended
<1>4. \A d \in Clients : Over(d)' = (Ended[d] \/ d \in C)
  BY <1>1, <1>2 DEF Over
<1>5. Ended' = [d \in Clients |-> Ended[d] \/ d \in C]
  BY <1>3, <1>4
<1>6. C \in SUBSET Clients
  OBVIOUS
<1>. QED
  BY <1>5, <1>6 DEF Contract!End

\* The last half of a message asks its question.
LEMMA SendBodyAsks ==
    ASSUME Base, Base', Sound, Sound', NEW c \in Clients, SendBody(c)
    PROVE  Contract!Ask(c, Question(sent[c][Len(sent[c])]))
<1> DEFINE q == Question(sent[c][Len(sent[c])])
           n == Complete(c)
<1>1. /\ partial[c] /\ partial' = [partial EXCEPT ![c] = FALSE]
      /\ UNCHANGED <<process, sent, socket, replies>>
  BY DEF SendBody
<1>2. \A d \in Clients \ {c} : Complete(d)' = Complete(d)
  BY <1>1 DEF Base, TypeOK, Complete
<1>3. n \in Nat /\ n + 1 = Len(sent[c]) /\ Complete(c)' = n + 1
  <2>1. Len(sent[c]) \in Nat /\ n = Len(sent[c]) - 1 /\ n \in Nat
    BY <1>1, CompleteType, Shapes DEF Base
  <2>2. ~partial'[c] /\ sent'[c] = sent[c]
    BY <1>1 DEF Base, TypeOK
  <2>3. Complete(c)' = Len(sent[c]) - 0
    BY <2>2 DEF Complete
  <2>. QED
    BY <2>1, <2>3
<1>4. Asked[c] = [k \in 1..n |-> Question(sent[c][k])]
  BY DEF Asked
<1>5. Asked'[c] = [k \in 1..(n + 1) |-> Question(sent[c][k])]
  BY <1>1, <1>3 DEF Asked
<1>6. Asked'[c] = Append(Asked[c], q)
  <2>1. Asked[c] \in [1..n -> Contract!Questions]
    BY <1>4, QuestionType
  <2>2. Asked'[c] \in [1..(n + 1) -> Contract!Questions]
    BY <1>5, QuestionType
  <2>3. \A i \in 1..n : Asked'[c][i] = Asked[c][i]
    BY <1>3, <1>4, <1>5
  <2>4. Asked'[c][n + 1] = q
    BY <1>3, <1>5
  <2>5. q \in Contract!Questions
    BY QuestionType
  <2>. QED
    BY <1>3, <2>1, <2>2, <2>3, <2>4, <2>5, Extended
<1>7. \A d \in Clients \ {c} : Asked'[d] = Asked[d]
  BY <1>1, <1>2 DEF Asked
<1>8. Asked' = [Asked EXCEPT ![c] = Append(@, q)]
  <2>1. Asked = [d \in Clients |-> Asked[d]] /\ Asked' = [d \in Clients |-> Asked'[d]]
    BY DEF Asked
  <2>. QED
    BY <1>6, <1>7, <2>1
<1>9. Len(Asked[c]) < MaxMessages
  BY <1>3, Shapes DEF Base, Sound, SoundAt
<1>10. UNCHANGED <<Answered, Ended>>
  BY <1>1 DEF Answered, Ended, Over
<1>. QED
  BY <1>8, <1>9, <1>10 DEF Contract!Ask

\* The kind of an answer suits the question.
LEMMA FitSuits ==
    ASSUME NEW m \in Message, NEW r \in Reply, m.fits, m.tiles, Fits(m, r)
    PROVE  Answer(r).kind \in Contract!Suits(Question(m))
<1>1. /\ r.type \in {"CHANNEL_STATUS", "CHANNEL_ERROR", "PCM_DATA_SEND_RESPONSE"}
      /\ m.type \in MessageTypes
  BY DEF Reply, Message
<1>2. CASE m.type \in {"CHANNEL_SETUP", "CHANNEL_TEST"}
  <2>1. /\ Question(m) = "test" /\ r.type = "CHANNEL_STATUS"
        /\ r.error # "UNKNOWN_MESSAGE_TYPE"
    BY <1>2 DEF Question, Fits
  <2>. QED
    BY <2>1 DEF Answer, Contract!Suits
<1>3. CASE m.type = "PCM_DATA_SEND_REQUEST"
  <2>1. /\ Question(m) = "block" /\ r.type # "CHANNEL_STATUS"
        /\ r.error # "UNKNOWN_MESSAGE_TYPE"
    BY <1>3 DEF Question, Fits
  <2>. QED
    BY <2>1 DEF Answer, Contract!Suits
<1>4. CASE m.type = "OTHER"
  <2>1. /\ Question(m) = "unknown" /\ r.error = "UNKNOWN_MESSAGE_TYPE"
        /\ r.type \notin {"CHANNEL_STATUS", "PCM_DATA_SEND_RESPONSE"}
    BY <1>4 DEF Question, Fits
  <2>. QED
    BY <2>1 DEF Answer, Contract!Suits
<1>. QED
  BY <1>1, <1>2, <1>3, <1>4 DEF Fits, MessageTypes

\* A write that completes is the answer to the message handled last.
LEMMA WriteAnswers ==
    ASSUME Base, Base', Sound, Sound', Settled, Pending,
           NEW c \in Clients, handle_write(c)
    PROVE  Contract!Answer(c)
<1> DEFINE k == handled[c]
           r == output_buffer[c]
           last == Contract!Last(c)
           n == Len(replies[c])
<1>0. replies[c] \in Seq(Reply) /\ \A i \in 1..n : replies[c][i] \in Reply
  <2>1. replies[c] \in Seq(Reply)
    BY DEF Base, TypeOK
  <2>. QED
    BY <2>1
<1>1. /\ "write" \in ops[c]
      /\ replies' = [replies EXCEPT ![c] = Append(@, r)]
      /\ UNCHANGED <<process, socket, sent, partial>>
  BY DEF handle_write, Arm, environment
<1>2. socket[c] = "open" /\ process # "crashed"
  BY <1>1 DEF Base, HalfDuplex, Sound, SoundAt
<1>3. r.to = k /\ k > 0 /\ k \in Nat /\ k <= Complete(c)
      /\ r \in Reply /\ Fits(sent[c][k], r)
  BY <1>1 DEF Base, InStep, InStepAt, TypeOK, Pending, Sound, SoundAt
<1>4. /\ Complete(c) \in Nat /\ Complete(c) <= Len(sent[c]) /\ Len(sent[c]) \in Nat
      /\ Len(Asked[c]) = Complete(c)
      /\ n \in Nat /\ Len(Answered[c]) = n
  BY Shapes, CompleteType DEF Base
<1>5. \A j \in 1..k : Asked[c][j] = Question(sent[c][j])
  BY <1>3, <1>4 DEF Asked
<1>6. sent[c][k] \in Message /\ sent[c][k].fits /\ sent[c][k].tiles
  <2>1. k \in 1..Len(sent[c]) /\ sent[c] \in Seq(Messages)
    BY <1>3, <1>4 DEF Base, TypeOK
  <2>. QED
    BY <1>2, <1>3, <2>1 DEF Sound, SoundAt
<1>7. Answer(r).kind \in Contract!Suits(Asked[c][k])
  BY <1>3, <1>5, <1>6, FitSuits
<1>8. /\ last \in Nat /\ last < k
      /\ \A i \in 1..n : replies[c][i].to <= last
  <2>1. \A i \in 1..n : replies[c][i].to \in Nat /\ replies[c][i].to < k
    BY <1>0, <1>1 DEF Base, Reply, InStep, InStepAt
  <2>2. \A i \in 1..n : Answered[c][i].to = replies[c][i].to
    BY DEF Answered, Answer
  <2>3. CASE n = 0
    <3>1. Answered[c] = << >>
      BY <1>4, <2>3 DEF Answered
    <3>. QED
      BY <1>3, <2>3, <3>1 DEF Contract!Last
  <2>4. CASE n > 0
    <3>1. Answered[c] # << >>
      BY <1>4, <2>4
    <3>2. last = replies[c][n].to
      BY <1>4, <2>2, <2>4, <3>1 DEF Contract!Last
    <3>3. \A i \in 1..n : i < n => replies[c][i].to < replies[c][n].to
      BY <1>4, <2>4 DEF Settled, RepliesInOrder
    <3>. QED
      BY <1>4, <2>1, <2>4, <3>2, <3>3
  <2>. QED
    BY <1>4, <2>3, <2>4
<1>9. \A j \in last + 1 .. k - 1 : Asked[c][j] = "report"
  <2> SUFFICES ASSUME NEW j \in last + 1 .. k - 1 PROVE Asked[c][j] = "report"
    OBVIOUS
  <2>1. j \in 1..k /\ j # k /\ j > last
    BY <1>3, <1>8
  <2>2. \A i \in 1..n : replies[c][i].to # j
    BY <1>0, <1>8, <2>1 DEF Reply
  <2>3. sent[c][j].type = "CHANNEL_STATUS"
    BY <2>1, <2>2 DEF Settled, NothingSkipped
  <2>4. sent[c][j].fits /\ sent[c][j].tiles
    BY <1>2, <2>1 DEF Sound, SoundAt
  <2>. QED
    BY <1>5, <2>1, <2>3, <2>4 DEF Question
<1>10. Answered' = [Answered EXCEPT ![c] = Append(@, Answer(r))]
  <2>1. replies'[c] = Append(replies[c], r) /\ \A d \in Clients \ {c} : replies'[d] = replies[d]
    BY <1>1 DEF Base, TypeOK
  <2>2. \A d \in Clients \ {c} : Answered'[d] = Answered[d]
    BY <2>1 DEF Answered
  <2>3. Len(replies'[c]) = n + 1 /\ replies'[c][n + 1] = r
        /\ \A i \in 1..n : replies'[c][i] = replies[c][i]
    BY <1>3, <2>1 DEF Base, TypeOK
  <2>4. Answered[c] = [i \in 1..n |-> Answer(replies[c][i])]
    BY DEF Answered
  <2>5. Answered'[c] = [i \in 1..(n + 1) |-> Answer(replies'[c][i])]
    BY <2>3 DEF Answered
  <2> DEFINE S == {Answer(x) : x \in Reply}
  <2>6. Answered'[c] = Append(Answered[c], Answer(r))
    <3>1. Answered[c] \in [1..n -> S]
      BY <1>0, <2>4
    <3>2. ASSUME NEW i \in 1..(n + 1) PROVE replies'[c][i] \in Reply
      <4>1. i \in 1..n \/ i = n + 1
        BY <1>4
      <4>2. CASE i \in 1..n
        BY <1>0, <2>3, <4>2
      <4>3. CASE i = n + 1
        BY <1>3, <2>3, <4>3
      <4>. QED
        BY <4>1, <4>2, <4>3
    <3>3. Answered'[c] \in [1..(n + 1) -> S]
      BY <2>5, <3>2
    <3>4. \A i \in 1..n : Answered'[c][i] = Answered[c][i]
      BY <1>4, <2>3, <2>4, <2>5
    <3>5. Answered'[c][n + 1] = Answer(r)
      BY <1>4, <2>3, <2>5
    <3>6. Answer(r) \in S
      BY <1>3
    <3>. QED
      BY <1>4, <3>1, <3>3, <3>4, <3>5, <3>6, Extended
  <2>7. Answered = [d \in Clients |-> Answered[d]] /\ Answered' = [d \in Clients |-> Answered'[d]]
    BY DEF Answered
  <2>. QED
    BY <2>2, <2>6, <2>7
<1>11. Answer(r) = [to |-> k, kind |-> Answer(r).kind]
  BY <1>3 DEF Answer
<1>12. UNCHANGED <<Asked, Ended>>
  BY <1>1 DEF Asked, Complete, Ended, Over
<1>13. ~Ended[c]
  BY <1>2 DEF Ended, Over
<1>14. k \in last + 1 .. Len(Asked[c])
  BY <1>3, <1>4, <1>8
<1>. QED
  BY <1>7, <1>9, <1>10, <1>11, <1>12, <1>13, <1>14 DEF Contract!Answer

\* Every step of a session is a step of the contract.
LEMMA StepRefines ==
    ASSUME Base, Base', Sound, Sound', Settled, Pending, [Next]_vars
    PROVE  [Contract!Next]_(Contract!vars)
<1>1. ASSUME UNCHANGED <<Asked, Answered>> PROVE Contract!Next
  BY <1>1, StepEnds DEF Contract!Next
<1>2. ASSUME UNCHANGED <<sent, partial, replies>> PROVE Contract!Next
  BY <1>1, <1>2 DEF Asked, Answered, Complete
<1>3. ASSUME NEW c \in Clients, NEW m \in Messages, SendHead(c, m) PROVE Contract!Next
  <2>1. /\ ~partial[c] /\ partial' = [partial EXCEPT ![c] = TRUE]
        /\ sent' = [sent EXCEPT ![c] = Append(@, m)]
        /\ UNCHANGED replies
    BY <1>3 DEF SendHead
  <2>2. ASSUME NEW d \in Clients
        PROVE  /\ Complete(d)' = Complete(d)
               /\ \A k \in 1..Complete(d) : sent'[d][k] = sent[d][k]
    <3>1. /\ Complete(d) \in Nat /\ Complete(d) <= Len(sent[d]) /\ Len(sent[d]) \in Nat
      BY Shapes, CompleteType DEF Base
    <3>2. \A k \in 1..Complete(d) : sent'[d][k] = sent[d][k]
      BY <3>1, History
    <3>3. CASE d = c
      <4>1. Len(sent'[d]) = Len(sent[d]) + 1 /\ partial'[d]
        BY <2>1, <3>3 DEF Base, TypeOK
      <4>2. Complete(d) = Len(sent[d])
        BY <2>1, <3>3, CompleteType DEF Base
      <4>3. Complete(d)' = Len(sent'[d]) - 1
        BY <4>1 DEF Complete
      <4>. QED
        BY <3>1, <3>2, <4>1, <4>2, <4>3
    <3>4. CASE d # c
      <4>1. sent'[d] = sent[d] /\ partial'[d] = partial[d]
        BY <2>1, <3>4 DEF Base, TypeOK
      <4>. QED
        BY <3>2, <4>1 DEF Complete
    <3>. QED
      BY <3>3, <3>4
  <2>3. UNCHANGED Asked
    BY <2>2 DEF Asked
  <2>4. UNCHANGED Answered
    BY <2>1 DEF Answered
  <2>. QED
    BY <1>1, <2>3, <2>4
<1>4. ASSUME NEW c \in Clients, SendBody(c) PROVE Contract!Next
  BY <1>4, SendBodyAsks, QuestionType DEF Contract!Next
<1>5. ASSUME NEW c \in Clients, handle_write(c) PROVE Contract!Next
  BY <1>5, WriteAnswers DEF Contract!Next
<1>6. ASSUME NEW c \in Clients, Connect(c) \/ Leave(c) PROVE Contract!Next
  BY <1>2, <1>6 DEF Connect, Leave
<1>7. ASSUME NEW c \in Clients,
             start(c) \/ handle_read_header(c) \/ handle_read_body(c) \/ handle_error(c)
      PROVE  Contract!Next
  BY <1>2, <1>7 DEF start, handle_read_header, handle_read_body, HandleBody, handle_error,
     environment
<1>8. CASE UNCHANGED vars
  BY <1>2, <1>8 DEF vars
<1>. QED
  BY <1>3, <1>4, <1>5, <1>6, <1>7, <1>8 DEF Next, Serve, Environment

LEMMA InitRefines == Init => Contract!Init
<1> SUFFICES ASSUME Init PROVE Contract!Init
  OBVIOUS
<1>1. ASSUME NEW c \in Clients PROVE Complete(c) = 0 /\ Len(replies[c]) = 0 /\ ~Over(c)
  <2>1. sent[c] = << >> /\ ~partial[c] /\ replies[c] = << >>
        /\ socket[c] = "none" /\ process = "up"
    BY DEF Init
  <2>. QED
    BY <2>1, BaseInit, CompleteType DEF Base, Over
<1>2. Asked = [c \in Clients |-> << >>]
  BY <1>1 DEF Asked
<1>3. Answered = [c \in Clients |-> << >>]
  BY <1>1 DEF Answered
<1>4. Ended = [c \in Clients |-> FALSE]
  <2>1. \A c \in Clients : Over(c) = FALSE
    BY <1>1 DEF Over
  <2>. QED
    BY <2>1, Zenon DEF Ended
<1>. QED
  BY <1>2, <1>3, <1>4 DEF Contract!Init

(***************************************************************************)
(* Session implements Exchange: whatever the handlers do in between, every *)
(* client sees its questions answered in order and by answers of the right *)
(* kind, with nothing but reports passed over.                             *)
(***************************************************************************)
THEOREM SessionImplementsExchange == Spec => ImplementsExchange
<1> DEFINE RInv == Base /\ Settled /\ Contents /\ Sound
<1>1. Init => RInv
  BY BaseInit, SettledInit, ContentsInit, SoundInit
<1>2. RInv /\ [Next]_vars => RInv'
  BY BaseStep, SettledStep, ContentsStep, SoundStep
<1>3. RInv /\ RInv' /\ [Next]_vars => [Contract!Next]_(Contract!vars)
  BY StepRefines DEF Contents
<1> HIDE DEF RInv
<1>. QED
  BY <1>1, <1>2, <1>3, InitRefines, PTL DEF Spec, ImplementsExchange, Contract!Spec
=============================================================================
