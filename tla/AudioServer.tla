----------------------------- MODULE AudioServer -----------------------------
(***************************************************************************)
(* The sessions and the audio pipeline together: Session.tla with the      *)
(* handling of a block made by Pipeline.tla, call by call, instead of by a *)
(* choice of outcomes.  All sessions share the one pipeline, because they  *)
(* get copies of the server's pointers (src/Server.cpp lines 315-321).     *)
(*                                                                         *)
(* While the handler of a block runs, the network goes on and the one io   *)
(* thread does nothing else.  What a lookup finds behind the end of a      *)
(* message is a choice, as in Session: a request without a block may reach *)
(* the pipeline with the block of an earlier message.                      *)
(***************************************************************************)
EXTENDS Naturals, Sequences

CONSTANTS
    Clients, ChannelIds, Messages, Leftovers, MaxMessages,      \* see Session
    FrameSize, Delay, BlockSizes, MaxSamples,                   \* see Pipeline
    FifoAllocated

VARIABLES
    process, client, sent, partial, socket, ops, taken, handled, channel_id,
    output_buffer, replies,                             \* see Session
    pc, block, origin, heap, fifo, frame, pts, encoder, output, answer,
    accepted, before, lost, failed,                     \* see Pipeline
    busy,           \* the client whose block is being handled
    stored          \* ghost: the requests whose samples are in the stream, in order

S == INSTANCE Session
P == INSTANCE Pipeline

NoOne == "none"

\* What Session and Pipeline assume of their constants, and that no client is no one.
ASSUME AudioServerAssumption ==
    /\ NoOne \notin Clients
    /\ 0 \in ChannelIds
    /\ Messages \subseteq S!Message
    /\ Leftovers \subseteq S!Leftover
    /\ MaxMessages \in Nat
    /\ FrameSize \in Nat \ {0}
    /\ Delay \in Nat
    /\ BlockSizes \subseteq Nat \ {0}
    /\ MaxSamples \in Nat
    /\ FifoAllocated \in BOOLEAN

environment == <<client, sent, partial>>
sessions == <<process, environment, socket, ops, taken, handled, channel_id,
              output_buffer, replies>>
pipeline == <<pc, block, origin, heap, fifo, frame, pts, encoder, output, answer,
              accepted, before, lost, failed>>
shared == <<busy, stored>>
vars == <<sessions, pipeline, shared>>

Init == S!Init /\ P!Init /\ busy = NoOne /\ stored = << >>

\* With l behind the message m, its handler gets as far as the pipeline.
Reaches(m, l) ==
    /\ m.type = "PCM_DATA_SEND_REQUEST" /\ m.tiles
    /\ ~S!ReturnsEarly(S!Seen(m, l)) /\ S!Seen(m, l).data = "samples"

Network(c) == S!Environment(c) /\ UNCHANGED <<pipeline, shared>>

\* Every handler that does not reach the pipeline.
Serve(c) ==
    /\ busy = NoOne
    /\ \/ S!start(c)
       \/ S!handle_read_header(c)
       \/ S!HandleBody(c, {l \in Leftovers : ~Reaches(sent[c][taken[c]], l)})
       \/ S!handle_write(c)
       \/ S!handle_error(c)
    /\ UNCHANGED <<pipeline, shared>>

\* handle_read_body up to the first call into the pipeline.
EnterPipeline(c) ==
    /\ busy = NoOne /\ busy' = c
    /\ "read_body" \in ops[c] /\ S!BodyArrived(c)
    /\ \E l \in Leftovers : Reaches(sent[c][taken[c]], l)
    /\ \E n \in BlockSizes : P!Begin(n)
    /\ UNCHANGED <<sessions, stored>>

\* Mutant: the error code of the check in front of the pipeline.
Outcome_crc ==
    CASE pc' = "crashed" -> "crash"
      [] pc' = "idle" /\ answer' = "response" -> "NONE"
      [] pc' = "idle" /\ answer' = "error" -> "CRC_INVALID"

\* What the session makes of the pipeline's last step.
Outcome ==
    CASE pc' = "crashed" -> "crash"
      [] pc' = "idle" /\ answer' = "response" -> "NONE"
      [] pc' = "idle" /\ answer' = "error" -> "UNKNOWN_ERROR"

\* The handler's last call: it answers, or the process dies in it.
HandlerReturns == pc' \in {"idle", "crashed"}

(* One call of the handler; with the last one it answers, or the process    *)
(* dies.                                                                     *)
CallPipeline ==
    /\ busy # NoOne
    /\ P!Handler
    /\ stored' = IF accepted' = accepted THEN stored
                 ELSE Append(stored, [client |-> busy, number |-> handled[busy] + 1])
    /\ \/ /\ ~HandlerReturns
          /\ UNCHANGED <<sessions, busy>>
       \/ /\ HandlerReturns
          /\ busy' = NoOne
          /\ handled' = [handled EXCEPT ![busy] = @ + 1]
          /\ UNCHANGED channel_id
          /\ S!Conclude(busy, Outcome)
          /\ UNCHANGED <<environment, taken, replies>>

Next == CallPipeline \/ \E c \in Clients : Network(c) \/ Serve(c) \/ EnterPipeline(c)

Spec == Init /\ [][Next]_vars

\* The io thread goes on, and gives every session its turn.
FairSpec ==
    /\ Spec
    /\ WF_vars(CallPipeline)
    /\ \A c \in Clients : WF_vars(Serve(c) \/ EnterPipeline(c))
-----------------------------------------------------------------------------
(***************************************************************************)
(* Properties.                                                             *)
(***************************************************************************)

(* A client learns exactly which of its requests put samples into the       *)
(* stream: those answered with a response, whatever other clients' blocks   *)
(* came in between and whatever failed.  A request without a block that is  *)
(* served with an earlier one's puts them in once more, under its own       *)
(* number.                                                                  *)
ResponsesAreTrue ==
    \A c \in Clients : \A i \in 1..Len(replies[c]) :
        replies[c][i].type = "PCM_DATA_SEND_RESPONSE"
            <=> \E k \in 1..Len(stored) : stored[k] = [client |-> c, number |-> replies[c][i].to]

(* The requests of a client stand in the stream in the order in which it    *)
(* sent them, and none of them twice.                                       *)
StreamKeepsOrder ==
    \A j, k \in 1..Len(stored) :
        j < k /\ stored[j].client = stored[k].client => stored[j].number < stored[k].number

(* The outcomes that Session assumes of a block are those the pipeline      *)
(* delivers, and that its handler is one step is no restriction.            *)
ImplementsSession == S!Spec

(* Every message that wants an answer gets one, or its session ends, though *)
(* the sessions wait for each other's blocks.                               *)
AnswersInTime == S!AnswersComeInTime
=============================================================================
