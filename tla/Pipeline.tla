------------------------------ MODULE Pipeline ------------------------------
(***************************************************************************)
(* The audio pipeline behind process_pcm_data_send_request (src/Server.cpp, *)
(* from the line that knows the block to be valid to the answer) and the   *)
(* helpers of src/ffmpeg_utils.cpp: convert a block, add it to the FIFO,   *)
(* and while the FIFO holds more than a frame cut a frame, encode it and   *)
(* write the packets.                                                      *)
(*                                                                         *)
(* One thread runs the whole handler, so a behaviour is a sequence of      *)
(* handlers, and a step is one call into libav with what the code does     *)
(* about its result.  Every call may fail whenever it is made.  The        *)
(* encoder context, the FIFO and pts_ belong to the Server: the blocks may *)
(* come from different sessions.                                           *)
(*                                                                         *)
(* A sample is the number of its place in the stream of samples added to   *)
(* the FIFO, so that a sample that is lost, doubled or displaced can be    *)
(* told; what it sounds like is left out, except whether the converter     *)
(* read it from the block at all.                                          *)
(***************************************************************************)
EXTENDS Integers, Sequences

CONSTANTS
    FrameSize,      \* enc_ctx_->frame_size
    Delay,          \* frames the encoder keeps before the first packet is out
    BlockSizes,     \* samples per channel in a block
    MaxSamples,     \* bound: samples added to the FIFO
    FifoAllocated   \* whether audio_fifo_ has been allocated

ASSUME PipelineAssumption ==
    /\ FrameSize \in Nat \ {0}
    /\ Delay \in Nat
    /\ BlockSizes \subseteq Nat \ {0}
    /\ MaxSamples \in Nat
    /\ FifoAllocated \in BOOLEAN

VARIABLES
    pc,         \* the next call of the handler, "idle" or "crashed"
    block,      \* nb_samples of the block being handled
    origin,     \* where the converted samples come from
    heap,       \* how many objects of each kind are allocated
    fifo,       \* *audio_fifo_
    frame,      \* *output_frame
    pts,        \* *pts_
    encoder,    \* frames sent to enc_ctx_, their packets not yet received
    output,     \* packets written to ofmt_ctx_, as the frames they encode
    answer,     \* the reply to the last block
    accepted,   \* ghost: samples ever added to the FIFO
    before,     \* ghost: accepted when the handler began
    lost,       \* ghost: samples taken from the FIFO that will not be written
    failed      \* ghost: what has failed, see Failures

vars == <<pc, block, origin, heap, fifo, frame, pts, encoder, output, answer,
          accepted, before, lost, failed>>

Calls == {"init_converted_samples", "convert_samples", "add_samples_to_fifo",
          "size", "init_output_frame", "fifo_read", "send_frame", "receive_packet"}
Objects == {"converted", "frame"}
\* "cut": a call of the last handler failed and ended its loop; the others are for good.
Failures == {"cut", "send", "receive", "write"}

NoFrame == [pts |-> 0, samples |-> << >>]
\* Samples from number n + 1 on, m of them.
Run(n, m) == [i \in 1..m |-> n + i]
Numbers(s) == {s[i] : i \in DOMAIN s}

Init ==
    /\ pc = "idle" /\ block = 0 /\ origin = "none"
    /\ heap = [o \in Objects |-> 0]
    /\ fifo = << >> /\ frame = NoFrame /\ pts = 0
    /\ encoder = << >> /\ output = << >>
    /\ answer = "none"
    /\ accepted = 0 /\ before = 0 /\ lost = {} /\ failed = {}

allocate(o) == heap' = [heap EXCEPT ![o] = @ + 1]
release(o) == heap' = [heap EXCEPT ![o] = @ - 1]
keep_heap == UNCHANGED heap

stream == <<fifo, frame, pts, encoder, output, accepted, lost>>

\* channel_error(ERROR_UNKNOWN_ERROR) or pcm_data_send_response, and send_data.
send_data(reply) == answer' = reply /\ pc' = "idle"

Crash == pc' = "crashed" /\ UNCHANGED <<heap, answer, origin, failed>>
-----------------------------------------------------------------------------
\* A block with a right checksum and n samples reaches the pipeline.
Begin(n) ==
    /\ pc = "idle" /\ accepted + n <= MaxSamples
    /\ pc' = "init_converted_samples"
    /\ block' = n /\ before' = accepted /\ answer' = "none" /\ origin' = "none"
    /\ failed' = failed \ {"cut"}
    /\ UNCHANGED <<heap, stream>>

\* On a failure the helper frees what it has allocated itself.
init_converted_samples ==
    /\ pc = "init_converted_samples"
    /\ \/ allocate("converted") /\ pc' = "convert_samples" /\ UNCHANGED answer
       \/ keep_heap /\ send_data("error")
    /\ UNCHANGED <<block, origin, before, failed, stream>>

(* The caller passes the address of the array pcm_data where an array of    *)
(* pointers is expected: swr_convert takes the first bytes of the block as  *)
(* the address of the input.                                                *)
convert_samples ==
    /\ pc = "convert_samples"
    /\ \/ Crash
       \/ /\ release("converted") /\ send_data("error")
          /\ UNCHANGED <<origin, failed>>
       \/ /\ origin' = "elsewhere" /\ pc' = "add_samples_to_fifo"
          /\ UNCHANGED <<heap, answer, failed>>
    /\ UNCHANGED <<block, before, stream>>

\* Mutant: an error is reported after the samples have been stored.
add_samples_to_fifo_late ==
    /\ pc = "add_samples_to_fifo" /\ FifoAllocated
    /\ fifo' = fifo \o Run(accepted, block) /\ accepted' = accepted + block
    /\ release("converted")
    /\ \/ send_data("error")
       \/ pc' = "size" /\ UNCHANGED answer
    /\ UNCHANGED <<block, origin, before, failed, frame, pts, encoder, output, lost>>

\* Mutant: the temporary samples are freed on the error path only.
add_samples_to_fifo_leaking ==
    /\ pc = "add_samples_to_fifo" /\ FifoAllocated
    /\ \/ release("converted") /\ send_data("error") /\ UNCHANGED <<fifo, accepted>>
       \/ /\ fifo' = fifo \o Run(accepted, block) /\ accepted' = accepted + block
          /\ pc' = "size" /\ UNCHANGED <<heap, answer>>
    /\ UNCHANGED <<block, origin, before, failed, frame, pts, encoder, output, lost>>

\* Mutant: a write that has stored the samples is tried again.
add_samples_to_fifo_again ==
    /\ pc = "add_samples_to_fifo" /\ FifoAllocated
    /\ fifo' = fifo \o Run(accepted, block) /\ accepted' = accepted + block
    /\ \/ release("converted") /\ pc' = "size"
       \/ keep_heap /\ pc' = pc
    /\ UNCHANGED <<block, origin, before, answer, failed, frame, pts, encoder, output, lost>>

(* Resizing or writing fails and nothing is stored, or everything is; both  *)
(* paths free the converted samples.                                        *)
add_samples_to_fifo ==
    /\ pc = "add_samples_to_fifo"
    /\ \/ ~FifoAllocated /\ Crash /\ UNCHANGED <<fifo, accepted>>
       \/ /\ FifoAllocated
          /\ release("converted") /\ send_data("error")
          /\ UNCHANGED <<fifo, accepted, origin, failed>>
       \/ /\ FifoAllocated
          /\ fifo' = fifo \o Run(accepted, block) /\ accepted' = accepted + block
          /\ release("converted") /\ pc' = "size"
          /\ UNCHANGED <<answer, origin, failed>>
    /\ UNCHANGED <<block, before, frame, pts, encoder, output, lost>>
-----------------------------------------------------------------------------
\* The condition of the while loop.
MoreThanAFrame == Len(fifo) > FrameSize

fifo_size ==
    /\ pc = "size"
    /\ \/ MoreThanAFrame /\ pc' = "init_output_frame" /\ UNCHANGED answer
       \/ ~MoreThanAFrame /\ send_data("response")
    /\ UNCHANGED <<block, origin, heap, before, failed, stream>>

\* A break out of the while loop is followed by a response, not an error.
leave_loop(failures) == send_data("response") /\ failed' = failed \cup failures

\* Mutant: the caller frees the frame that the helper has freed.
init_output_frame_twice ==
    /\ pc = "init_output_frame"
    /\ \/ allocate("frame") /\ pc' = "fifo_read" /\ UNCHANGED <<answer, failed>>
       \/ release("frame") /\ leave_loop({"cut"})
    /\ UNCHANGED <<block, origin, before, stream>>

\* Mutant: a failure continues the loop instead of leaving it.
init_output_frame_again ==
    /\ pc = "init_output_frame"
    /\ \/ allocate("frame") /\ pc' = "fifo_read"
       \/ keep_heap /\ pc' = "size"
    /\ UNCHANGED <<block, origin, before, stream, answer, failed>>

init_output_frame ==
    /\ pc = "init_output_frame"
    /\ \/ allocate("frame") /\ pc' = "fifo_read" /\ UNCHANGED <<answer, failed>>
       \/ keep_heap /\ leave_loop({"cut"})
    /\ UNCHANGED <<block, origin, before, stream>>

\* Mutant: the time stamp is not advanced by what has been read.
fifo_read_stuck ==
    /\ pc = "fifo_read"
    /\ frame' = [pts |-> pts, samples |-> SubSeq(fifo, 1, FrameSize)]
    /\ fifo' = SubSeq(fifo, FrameSize + 1, Len(fifo))
    /\ pc' = "send_frame"
    /\ UNCHANGED <<block, origin, heap, before, encoder, output, accepted, lost, answer,
                   failed, pts>>

\* Mutant: the samples are copied to the frame and stay in the FIFO.
fifo_read_peek ==
    /\ pc = "fifo_read"
    /\ frame' = [pts |-> pts, samples |-> SubSeq(fifo, 1, FrameSize)]
    /\ pts' = pts + FrameSize
    /\ pc' = "send_frame"
    /\ UNCHANGED <<block, origin, heap, before, fifo, encoder, output, accepted, lost,
                   answer, failed>>

\* Mutant: reading all that was asked for is taken for a failure.
fifo_read_strict ==
    /\ pc = "fifo_read"
    /\ release("frame") /\ leave_loop({"cut"})
    /\ fifo' = SubSeq(fifo, FrameSize + 1, Len(fifo))
    /\ UNCHANGED <<block, origin, before, frame, pts, encoder, output, accepted, lost>>

(* av_audio_fifo_read fails and leaves the FIFO as it was, or fills the     *)
(* frame, which gets its time stamp.                                        *)
fifo_read ==
    /\ pc = "fifo_read"
    /\ \/ /\ release("frame") /\ leave_loop({"cut"})
          /\ UNCHANGED <<fifo, frame, pts>>
       \/ /\ frame' = [pts |-> pts, samples |-> SubSeq(fifo, 1, FrameSize)]
          /\ fifo' = SubSeq(fifo, FrameSize + 1, Len(fifo))
          /\ pts' = pts + FrameSize
          /\ pc' = "send_frame"
          /\ UNCHANGED <<heap, answer, failed>>
    /\ UNCHANGED <<block, origin, before, encoder, output, accepted, lost>>

\* External: the encoder takes no frame while it has a packet to deliver.
HasPacket == Len(encoder) > Delay

\* Mutant: a frame is sent again, before and after the encoder took it.
send_frame_twice ==
    /\ pc = "send_frame" /\ ~HasPacket
    /\ encoder' = encoder \o <<frame, frame>>
    /\ frame' = NoFrame
    /\ release("frame") /\ pc' = "receive_packet"
    /\ UNCHANGED <<block, origin, before, fifo, pts, output, accepted, answer, lost, failed>>

(* avcodec_send_frame refuses a frame while a packet is waiting, and may    *)
(* fail otherwise; the frame is freed in any case, and not sent again.      *)
send_frame ==
    /\ pc = "send_frame"
    /\ \/ /\ leave_loop(IF HasPacket THEN {} ELSE {"cut", "send"})
          /\ lost' = lost \cup Numbers(frame.samples)
          /\ UNCHANGED encoder
       \/ /\ ~HasPacket
          /\ encoder' = Append(encoder, frame)
          /\ pc' = "receive_packet"
          /\ UNCHANGED <<lost, answer, failed>>
    /\ release("frame") /\ frame' = NoFrame
    /\ UNCHANGED <<block, origin, before, fifo, pts, output, accepted>>

\* Mutant: the condition of the inner loop is inverted.
receive_packet_never ==
    /\ pc = "receive_packet"
    /\ pc' = "size"
    /\ UNCHANGED <<block, origin, heap, before, fifo, frame, pts, accepted, encoder, output,
                   answer, lost, failed>>

(* One round of the inner loop: a packet is received, written or refused by *)
(* the muxer, whose verdict the code ignores, and unreferenced; or the      *)
(* encoder wants more input; or it fails, and may drop its oldest frame.    *)
receive_packet ==
    /\ pc = "receive_packet"
    /\ \/ /\ HasPacket
          /\ encoder' = Tail(encoder)
          /\ \/ output' = Append(output, Head(encoder)) /\ UNCHANGED <<lost, failed>>
             \/ /\ lost' = lost \cup Numbers(Head(encoder).samples)
                /\ failed' = failed \cup {"write"}
                /\ UNCHANGED output
          /\ UNCHANGED pc
       \/ /\ ~HasPacket
          /\ pc' = "size"
          /\ UNCHANGED <<encoder, output, lost, failed>>
       \/ /\ pc' = "size" /\ failed' = failed \cup {"receive"}
          /\ \/ UNCHANGED <<encoder, lost>>
             \/ /\ encoder # << >>
                /\ encoder' = Tail(encoder)
                /\ lost' = lost \cup Numbers(Head(encoder).samples)
          /\ UNCHANGED output
    /\ UNCHANGED <<block, origin, heap, before, fifo, frame, pts, accepted, answer>>

Handler ==
    \/ init_converted_samples
    \/ convert_samples
    \/ add_samples_to_fifo
    \/ fifo_size
    \/ init_output_frame
    \/ fifo_read
    \/ send_frame
    \/ receive_packet

Next == Handler \/ \E n \in BlockSizes : Begin(n)

Spec == Init /\ [][Next]_vars

\* The thread goes on with a handler that it has begun.
FairSpec == Spec /\ WF_vars(Handler)
-----------------------------------------------------------------------------
(***************************************************************************)
(* Properties.                                                             *)
(***************************************************************************)

\* A frame between the FIFO and the file.
Frame == [pts : Nat, samples : Seq(Nat)]

\* Every variable of the pipeline has its type.
TypeOK ==
    /\ pc \in Calls \cup {"idle", "crashed"}
    /\ block \in Nat
    /\ origin \in {"none", "block", "elsewhere"}
    /\ heap \in [Objects -> Nat]
    /\ fifo \in Seq(Nat)
    /\ frame \in Frame
    /\ pts \in Nat
    /\ encoder \in Seq(Frame)
    /\ output \in Seq(Frame)
    /\ answer \in {"none", "error", "response"}
    /\ accepted \in Nat
    /\ before \in Nat
    /\ lost \in SUBSET Nat
    /\ failed \in SUBSET Failures

(* The time stamp of a frame is the place of its first sample in the        *)
(* stream, and the frame is a gapless run of FrameSize samples: no failure, *)
(* of whatever call in whatever block, shifts the audio that follows it.    *)
InPlace(f) == f.samples = Run(f.pts, FrameSize)
TimeStampsInPlace ==
    /\ \A i \in DOMAIN encoder : InPlace(encoder[i])
    /\ \A i \in DOMAIN output : InPlace(output[i])
    /\ pc = "send_frame" => InPlace(frame)

(* The FIFO holds the samples that were accepted last, in order, and pts_   *)
(* counts the samples that have left it.                                    *)
FifoIsTheTail == fifo = Run(pts, accepted - pts)

(* Every accepted sample is in exactly one place: in the FIFO, in the frame *)
(* being filled, in the encoder, in the file, or it was lost.               *)
Held(f) == Numbers(f.samples)
Places ==
    [p \in {"fifo", "frame", "encoder", "output", "lost"} |->
        CASE p = "fifo" -> Numbers(fifo)
          [] p = "frame" -> Held(frame)
          [] p = "encoder" -> UNION {Held(encoder[i]) : i \in DOMAIN encoder}
          [] p = "output" -> UNION {Held(output[i]) : i \in DOMAIN output}
          [] p = "lost" -> lost]
EachSampleOnce ==
    /\ UNION {Places[p] : p \in DOMAIN Places} = 1..accepted
    /\ \A p, q \in DOMAIN Places : p # q => Places[p] \cap Places[q] = {}

\* Nothing is lost unless sending, receiving or writing has failed.
LossNeedsFailure == lost # {} => failed \cap {"send", "receive", "write"} # {}

(* Between two blocks nothing is allocated: every path through the handler  *)
(* frees what it has allocated, and frees it once.                          *)
NothingLeaks == pc = "idle" => heap = [o \in Objects |-> 0]

(* A block is in the stream completely when it is answered with a response, *)
(* and not at all when it is answered with an error.                        *)
AnswerIsTrue ==
    pc = "idle" =>
        /\ answer = "response" => accepted = before + block
        /\ answer = "error" => accepted = before

(* A frame finds room in the encoder, because all the packets of the frame  *)
(* before it have been received, unless receiving has failed.               *)
EncoderDrained == pc = "send_frame" /\ "receive" \notin failed => ~HasPacket

(* A handler leaves more than a frame behind only when one of its own calls *)
(* has failed, or when the encoder is stuck: a packet that an earlier failed *)
(* receive left in it makes it refuse every frame from then on, and nobody   *)
(* fetches that packet.  Any other handler catches up, however long the      *)
(* backlog, and so the FIFO stays short while nothing fails.                 *)
CatchesUp ==
    pc = "idle" /\ answer = "response" /\ Len(fifo) > FrameSize =>
        "cut" \in failed \/ (HasPacket /\ "receive" \in failed)

(* A handler encodes as long as there is enough data for a frame (the       *)
(* comment of the loop, src/Server.cpp line 233: "we have enough data").    *)
(* The loop asks for more than a frame instead.                             *)
EnoughDataIsEncoded ==
    pc = "idle" /\ answer = "response" /\ "cut" \notin failed /\ ~HasPacket
        => Len(fifo) < FrameSize

(* The samples converted are those of the block (the comment of the call,   *)
(* src/Server.cpp line 209: "Convert the input samples to the desired       *)
(* output sample format").                                                  *)
ConvertsTheInput == pc = "add_samples_to_fifo" => origin = "block"

(* The samples of a block that was converted are added to the FIFO or the   *)
(* block is refused (src/Server.cpp line 221: "Add the converted input      *)
(* samples to the FIFO buffer for later processing").                       *)
SamplesAreAdded ==
    [][pc = "add_samples_to_fifo" /\ pc' # pc => accepted' = accepted + block
                                                 \/ answer' = "error"]_vars

\* Every block is answered, or the process crashes.
HandlerEnds == pc # "idle" ~> pc \in {"idle", "crashed"}
-----------------------------------------------------------------------------
(***************************************************************************)
(* Pipeline implements Stream.                                             *)
(***************************************************************************)

\* The frames between the FIFO and the file, and their names.
Flight == encoder \o (IF pc = "send_frame" THEN <<frame>> ELSE << >>)
Starts(frames) == [i \in 1..Len(frames) |-> frames[i].pts]

Abstract == INSTANCE Stream WITH
    received <- accepted, cut <- pts, flight <- Starts(Flight), written <- Starts(output)

(* Whatever fails in whatever block, the file is a sequence of frames cut   *)
(* from one gapless stream of samples, in order.                            *)
ImplementsStream == Abstract!Spec
=============================================================================
