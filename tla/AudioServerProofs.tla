-------------------------- MODULE AudioServerProofs --------------------------
(***************************************************************************)
(* Proofs about AudioServer: the composition implements Session and        *)
(* Pipeline, keeps the contracts of both, and tells the clients the truth  *)
(* about their blocks, for all values of the constants.                    *)
(*                                                                         *)
(* SR and PR are the instances S and P of AudioServer together with what   *)
(* has been proved about them.                                             *)
(***************************************************************************)
EXTENDS AudioServer, SequenceTheorems, TLAPS

SR == INSTANCE SessionProofs
PR == INSTANCE PipelineProofs

USE AudioServerAssumption

\* The constants satisfy what the proofs about the two parts assume.
LEMMA SessionAssumed == SR!SessionAssumption
BY DEF S!Message, SR!Message, S!MessageTypes, SR!MessageTypes, S!ScalarParameters,
       SR!ScalarParameters, S!BlockData, SR!BlockData, S!Leftover, SR!Leftover

LEMMA PipelineAssumed == PR!PipelineAssumption
OBVIOUS

\* The two instances of Session handle a body in the same way.
LEMMA SameBody == \A c : S!handle_read_body(c) <=> SR!handle_read_body(c)
<1>1. /\ \A c, how : S!End(c, how) <=> SR!End(c, how)
      /\ \A c, reply : S!send_data(c, "read_body", reply) <=> SR!send_data(c, "read_body", reply)
      /\ \A c : S!Arm(c, "read_body", "read_header") <=> SR!Arm(c, "read_body", "read_header")
      /\ S!Crash <=> SR!Crash
  BY Zenon DEF S!End, SR!End, S!send_data, SR!send_data, S!Arm, SR!Arm, S!Crash, SR!Crash
<1>2. \A c, type, error : S!ReplyTo(c, type, error) = SR!ReplyTo(c, type, error)
  BY Zenon DEF S!ReplyTo, SR!ReplyTo
<1>3. \A c, m : S!process_channel_setup(c, m) <=> SR!process_channel_setup(c, m)
  BY <1>1, <1>2, Zenon DEF S!process_channel_setup, SR!process_channel_setup,
     S!Release, SR!Release
<1>4. \A c : /\ S!process_channel_test(c) <=> SR!process_channel_test(c)
             /\ S!process_channel_status(c) <=> SR!process_channel_status(c)
             /\ S!process_channel_end(c) <=> SR!process_channel_end(c)
             /\ S!process_default(c) <=> SR!process_default(c)
  BY <1>1, <1>2, Zenon DEF S!process_channel_test, SR!process_channel_test,
     S!process_channel_status, SR!process_channel_status, S!process_channel_end,
     SR!process_channel_end, S!process_default, SR!process_default, S!do_close, SR!do_close
<1>5. \A c, outcome : S!Conclude(c, outcome) <=> SR!Conclude(c, outcome)
  BY <1>1, <1>2, Zenon DEF S!Conclude, SR!Conclude, S!ErrorCodes, SR!ErrorCodes
<1>6. \A c, m : S!process_pcm_data_send_request(c, m) <=> SR!process_pcm_data_send_request(c, m)
  <2>1. \A data : S!BlockOutcomes(data) = SR!BlockOutcomes(data)
    BY Zenon DEF S!BlockOutcomes, SR!BlockOutcomes
  <2>. QED
    BY <1>1, <1>5, <2>1, Zenon DEF S!process_pcm_data_send_request,
       SR!process_pcm_data_send_request, S!ReturnsEarly, SR!ReturnsEarly, S!Release, SR!Release
<1>7. \A c, m : S!Dispatch(c, m) <=> SR!Dispatch(c, m)
  BY <1>3, <1>4, <1>6, SMT DEF S!Dispatch, SR!Dispatch
<1>8. /\ \A m, l : S!Seen(m, l) = SR!Seen(m, l)
      /\ \A c : (S!BodyArrived(c) <=> SR!BodyArrived(c)) /\ (S!do_close(c) <=> SR!do_close(c))
      /\ UNCHANGED S!environment <=> UNCHANGED SR!environment
  BY <1>1, Zenon DEF S!Seen, SR!Seen, S!BodyArrived, SR!BodyArrived, S!do_close, SR!do_close,
     S!environment, SR!environment
<1>. QED
  BY <1>7, <1>8, SMT DEF S!handle_read_body, SR!handle_read_body, S!HandleBody, SR!HandleBody,
     S!environment, SR!environment

\* Whatever stands behind the message, handling it is handle_read_body.
LEMMA HandleSome ==
    ASSUME NEW c, NEW left, left \subseteq Leftovers, S!HandleBody(c, left)
    PROVE  S!handle_read_body(c)
BY Zenon DEF S!HandleBody, S!handle_read_body

\* The two instances of Session have the same steps.
LEMMA SameSession == /\ S!Init <=> SR!Init
                     /\ S!Next <=> SR!Next
                     /\ UNCHANGED S!vars <=> UNCHANGED SR!vars
<1>1. S!Init <=> SR!Init
  BY DEF S!Init, SR!Init, S!BlankReply, SR!BlankReply
<1>2. UNCHANGED S!vars <=> UNCHANGED SR!vars
  BY DEF S!vars, SR!vars
<1>3. \A c : S!Serve(c) <=> SR!Serve(c)
  BY SameBody, Zenon DEF S!Serve, SR!Serve, S!start, SR!start, S!handle_read_header, SR!handle_read_header,
     S!HeaderArrived, SR!HeaderArrived, S!handle_write, SR!handle_write, S!handle_error,
     SR!handle_error, S!environment, SR!environment, S!Arm, SR!Arm, S!End, SR!End,
     S!do_close, SR!do_close
<1>4. \A c : S!Environment(c) <=> SR!Environment(c)
  BY Zenon DEF S!Environment, SR!Environment, S!Connect, SR!Connect, S!SendHead, SR!SendHead,
     S!SendBody, SR!SendBody, S!Leave, SR!Leave
<1>. QED
  BY <1>1, <1>2, <1>3, <1>4, Zenon DEF S!Next, SR!Next

\* So have the two instances of Pipeline.
LEMMA SamePipeline == /\ P!Init <=> PR!Init
                      /\ P!Next <=> PR!Next
                      /\ UNCHANGED P!vars <=> UNCHANGED PR!vars
<1>1. P!Init <=> PR!Init
  BY DEF P!Init, PR!Init, P!Objects, PR!Objects, P!NoFrame, PR!NoFrame
<1>2. UNCHANGED P!vars <=> UNCHANGED PR!vars
  BY DEF P!vars, PR!vars
<1>3. P!Next <=> PR!Next
  BY Zenon DEF P!Next, PR!Next, P!Handler, PR!Handler, P!Begin, PR!Begin,
     P!init_converted_samples, PR!init_converted_samples, P!convert_samples, PR!convert_samples,
     P!add_samples_to_fifo, PR!add_samples_to_fifo, P!fifo_size, PR!fifo_size,
     P!init_output_frame, PR!init_output_frame, P!fifo_read, PR!fifo_read,
     P!send_frame, PR!send_frame, P!receive_packet, PR!receive_packet,
     P!allocate, PR!allocate, P!release, PR!release, P!keep_heap, PR!keep_heap,
     P!stream, PR!stream, P!send_data, PR!send_data, P!Crash, PR!Crash, P!Run, PR!Run,
     P!Numbers, PR!Numbers, P!MoreThanAFrame, PR!MoreThanAFrame, P!HasPacket, PR!HasPacket,
     P!leave_loop, PR!leave_loop, P!NoFrame, PR!NoFrame
<1>. QED
  BY <1>1, <1>2, <1>3
-----------------------------------------------------------------------------
(***************************************************************************)
(* The io thread between two sessions: while the handler of a block runs,   *)
(* its session waits with the body read, and the pipeline is in the middle *)
(* of that block.                                                          *)
(***************************************************************************)
BeforeAdd == {"init_converted_samples", "convert_samples", "add_samples_to_fifo"}
AfterAdd == {"size", "init_output_frame", "fifo_read", "send_frame", "receive_packet"}

\* The handler of m may reach the pipeline; the leftovers with which it does not.
Enters(m) == \E l \in Leftovers : Reaches(m, l)
OutOfReach(m) == {l \in Leftovers : ~Reaches(m, l)}

Busy ==
    /\ busy \in Clients \cup {NoOne}
    /\ pc \in BeforeAdd \cup AfterAdd \cup {"idle", "crashed"}
    /\ busy = NoOne <=> pc \in {"idle", "crashed"}
    /\ busy # NoOne =>
          /\ "read_body" \in ops[busy] /\ S!BodyArrived(busy)
          /\ Enters(sent[busy][taken[busy]])
          /\ block \in Nat \ {0}
    /\ pc \in AfterAdd => FifoAllocated

\* The calls of the handler, as the session sees them.
Refuses == /\ pc \in BeforeAdd /\ pc' = "idle" /\ answer' = "error"
           /\ accepted' = accepted
Crashes == pc \in BeforeAdd /\ pc' = "crashed" /\ accepted' = accepted
Responds == /\ pc \in AfterAdd /\ pc' = "idle" /\ answer' = "response"
            /\ accepted' = accepted
Adds == /\ pc \in BeforeAdd /\ pc' = "size" /\ FifoAllocated
        /\ accepted' = accepted + block
GoesOn == /\ \/ pc \in BeforeAdd /\ pc' \in BeforeAdd
             \/ pc \in AfterAdd /\ pc' \in AfterAdd
          /\ accepted' = accepted

\* There is no sixth way.
LEMMA FiveWays ==
    ASSUME P!Handler
    PROVE  block' = block /\ (Refuses \/ Crashes \/ Responds \/ Adds \/ GoesOn)
<1> USE DEF BeforeAdd, AfterAdd, Refuses, Crashes, Responds, Adds, GoesOn
<1>1. CASE P!init_converted_samples
  BY <1>1 DEF P!init_converted_samples, P!send_data, P!stream
<1>2. CASE P!convert_samples
  BY <1>2 DEF P!convert_samples, P!Crash, P!send_data, P!stream
<1>3. CASE P!add_samples_to_fifo
  BY <1>3 DEF P!add_samples_to_fifo, P!Crash, P!send_data
<1>4. CASE P!fifo_size
  BY <1>4 DEF P!fifo_size, P!send_data, P!stream
<1>5. CASE P!init_output_frame
  BY <1>5 DEF P!init_output_frame, P!leave_loop, P!send_data, P!stream
<1>6. CASE P!fifo_read
  BY <1>6 DEF P!fifo_read, P!leave_loop, P!send_data
<1>7. CASE P!send_frame
  BY <1>7 DEF P!send_frame, P!leave_loop, P!send_data
<1>8. CASE P!receive_packet
  BY <1>8 DEF P!receive_packet
<1>. QED
  BY <1>1, <1>2, <1>3, <1>4, <1>5, <1>6, <1>7, <1>8 DEF P!Handler

(* With its last call the handler of the block ends as one of the outcomes  *)
(* that Session allows.                                                     *)
LEMMA ReturnIsBody ==
    ASSUME SR!Base, Busy, CallPipeline, HandlerReturns
    PROVE  S!handle_read_body(busy)
<1> DEFINE m == sent[busy][taken[busy]]
<1>1. /\ busy \in Clients /\ "read_body" \in ops[busy] /\ S!BodyArrived(busy) /\ Enters(m)
      /\ P!Handler
  BY DEF CallPipeline, Busy
<1>2. taken[busy] \in 1..Len(sent[busy])
  BY <1>1 DEF SR!Base, SR!InStep, SR!InStepAt, SR!TypeOK
<1>3. m \in S!Message
  <2>1. sent[busy] \in Seq(Messages)
    BY <1>1 DEF SR!Base, SR!TypeOK
  <2>2. m \in Messages
    BY <1>2, <2>1
  <2>. QED
    BY <2>2
<1> HIDE DEF m
<1>4. /\ handled' = [handled EXCEPT ![busy] = @ + 1]
      /\ UNCHANGED <<channel_id, environment, taken, replies>>
      /\ S!Conclude(busy, Outcome)
  BY DEF CallPipeline
<1>5. Outcome \in S!BlockOutcomes("samples")
  <2>1. Refuses \/ Crashes \/ Responds
    BY <1>1, FiveWays DEF HandlerReturns, Adds, GoesOn, BeforeAdd, AfterAdd
  <2>2. S!BlockOutcomes("samples")
          = {"UNKNOWN_ERROR", "crash"} \cup (IF FifoAllocated THEN {"NONE"} ELSE {})
    BY DEF S!BlockOutcomes
  <2>3. Refuses => Outcome = "UNKNOWN_ERROR"
    BY DEF Refuses, Outcome
  <2>4. Crashes => Outcome = "crash"
    BY DEF Crashes, Outcome
  <2>5. Responds => Outcome = "NONE" /\ FifoAllocated
    BY DEF Responds, Outcome, Busy
  <2>. QED
    BY <2>1, <2>2, <2>3, <2>4, <2>5
<1>6. PICK l \in Leftovers : Reaches(m, l)
  BY <1>1 DEF Enters
<1> DEFINE s == S!Seen(m, l)
<1>7. /\ s.type = "PCM_DATA_SEND_REQUEST" /\ s.data = "samples" /\ s.has = {}
      /\ m.tiles
  BY <1>3, <1>6 DEF Reaches, S!ReturnsEarly, S!Seen, S!Message
<1> HIDE DEF s
<1>8. S!process_pcm_data_send_request(busy, s)
  BY <1>4, <1>5, <1>7 DEF S!process_pcm_data_send_request, S!ReturnsEarly
<1>9. S!Dispatch(busy, s)
  BY <1>7, <1>8 DEF S!Dispatch
<1>. QED
  BY <1>1, <1>4, <1>6, <1>7, <1>9
     DEF S!handle_read_body, S!HandleBody, s, m, environment, S!environment

\* Every step of the composition is a step of the sessions, or none.
LEMMA SessionStep == SR!Base /\ Busy /\ [Next]_vars => [SR!Next]_(SR!vars)
<1> SUFFICES ASSUME SR!Base, Busy, [Next]_vars PROVE [SR!Next]_(SR!vars)
  OBVIOUS
<1>1. UNCHANGED sessions => UNCHANGED SR!vars
  BY DEF sessions, environment, SR!vars
<1>2. ASSUME NEW c \in Clients, Network(c) PROVE SR!Next
  BY <1>2, SameSession DEF Network, S!Next
<1>3. ASSUME NEW c \in Clients, Serve(c) PROVE SR!Next
  <2>1. S!HandleBody(c, {l \in Leftovers : ~Reaches(sent[c][taken[c]], l)})
           => S!handle_read_body(c)
    BY HandleSome
  <2>. QED
    BY <1>3, <2>1, SameSession DEF Serve, S!Next, S!Serve
<1>4. ASSUME NEW c \in Clients, EnterPipeline(c) PROVE UNCHANGED sessions
  BY <1>4 DEF EnterPipeline
<1>5. CASE CallPipeline
  <2>1. CASE ~HandlerReturns
    BY <1>1, <1>5, <2>1 DEF CallPipeline
  <2>2. CASE HandlerReturns
    <3>1. S!handle_read_body(busy) /\ busy \in Clients
      BY <1>5, <2>2, ReturnIsBody DEF CallPipeline, Busy
    <3>. QED
      BY <3>1, SameSession DEF S!Next, S!Serve
  <2>. QED
    BY <2>1, <2>2
<1>6. CASE UNCHANGED vars
  BY <1>1, <1>6 DEF vars
<1>. QED
  BY <1>1, <1>2, <1>3, <1>4, <1>5, <1>6 DEF Next

\* Every step of the composition is a step of the pipeline, or none.
LEMMA PipelineStep == [Next]_vars => [P!Next]_(P!vars)
<1> SUFFICES ASSUME [Next]_vars PROVE [P!Next]_(P!vars)
  OBVIOUS
<1>1. UNCHANGED pipeline => UNCHANGED P!vars
  BY DEF pipeline, P!vars
<1>2. ASSUME NEW c \in Clients, Network(c) \/ Serve(c) PROVE UNCHANGED pipeline
  BY <1>2 DEF Network, Serve
<1>3. ASSUME NEW c \in Clients, EnterPipeline(c) PROVE P!Next
  BY <1>3 DEF EnterPipeline, P!Next
<1>4. CallPipeline => P!Next
  BY DEF CallPipeline, P!Next
<1>. QED
  BY <1>1, <1>2, <1>3, <1>4 DEF Next, vars

\* No block is being handled at first.
LEMMA BusyInit == Init => Busy
BY DEF Init, P!Init, Busy, AfterAdd

\* What the network does to a session that waits for the pipeline.
LEMMA NetworkWaits ==
    ASSUME SR!Base, NEW c \in Clients, S!Environment(c),
           NEW d \in Clients, "read_body" \in ops[d], S!BodyArrived(d)
    PROVE  /\ ops' = ops /\ taken' = taken /\ S!BodyArrived(d)'
           /\ sent'[d][taken[d]] = sent[d][taken[d]]
<1>0. /\ taken[d] \in 1..Len(sent[d]) /\ sent[d] \in Seq(Messages)
      /\ taken[d] \in Nat /\ Len(sent[d]) \in Nat
      /\ sent \in [Clients -> Seq(Messages)] /\ partial \in [Clients -> BOOLEAN]
  BY DEF SR!Base, SR!InStep, SR!InStepAt, SR!TypeOK
<1>1. CASE S!Connect(c) \/ S!Leave(c)
  BY <1>1 DEF S!Connect, S!Leave, S!BodyArrived
<1>2. CASE S!SendBody(c)
  <2>1. partial' = [partial EXCEPT ![c] = FALSE] /\ UNCHANGED <<sent, ops, taken>>
    BY <1>2 DEF S!SendBody
  <2>. QED
    BY <1>0, <2>1 DEF S!BodyArrived
<1>3. ASSUME NEW m \in Messages, S!SendHead(c, m)
      PROVE  /\ ops' = ops /\ taken' = taken /\ S!BodyArrived(d)'
             /\ sent'[d][taken[d]] = sent[d][taken[d]]
  <2>1. /\ sent' = [sent EXCEPT ![c] = Append(sent[c], m)]
        /\ partial' = [partial EXCEPT ![c] = TRUE]
        /\ ops' = ops /\ taken' = taken
    BY <1>3 DEF S!SendHead
  <2>2. CASE c = d
    <3>1. sent'[d] = Append(sent[d], m)
      BY <1>0, <2>1, <2>2
    <3>2. /\ Len(sent'[d]) = Len(sent[d]) + 1
          /\ \A i \in 1..Len(sent[d]) : sent'[d][i] = sent[d][i]
      BY <1>0, <3>1, AppendProperties
    <3>3. taken[d] < Len(sent'[d])
      BY <1>0, <3>2
    <3>. QED
      BY <1>0, <2>1, <3>2, <3>3 DEF S!BodyArrived
  <2>3. CASE c # d
    <3>1. sent'[d] = sent[d] /\ partial'[d] = partial[d]
      BY <1>0, <2>1, <2>3
    <3>. QED
      BY <2>1, <3>1 DEF S!BodyArrived
  <2>. QED
    BY <2>2, <2>3
<1>. QED
  BY <1>1, <1>2, <1>3 DEF S!Environment

\* No step of another session or of the network disturbs the block in progress.
LEMMA BusyStep == SR!Base /\ Busy /\ [Next]_vars => Busy'
<1> SUFFICES ASSUME SR!Base, Busy, [Next]_vars PROVE Busy'
  OBVIOUS
<1>1. ASSUME NEW c \in Clients, Network(c) PROVE Busy'
  <2>1. UNCHANGED <<busy, pc, block>>
    BY <1>1 DEF Network, pipeline, shared
  <2>2. CASE busy = NoOne
    BY <2>1, <2>2 DEF Busy
  <2>3. CASE busy # NoOne
    <3>1. PICK d \in Clients : d = busy
      BY <2>3 DEF Busy
    <3>2. "read_body" \in ops[d] /\ S!BodyArrived(d) /\ Enters(sent[d][taken[d]])
      BY <2>3, <3>1 DEF Busy
    <3>3. /\ ops' = ops /\ taken' = taken /\ S!BodyArrived(d)'
          /\ sent'[d][taken[d]] = sent[d][taken[d]]
      BY <1>1, <3>2, NetworkWaits DEF Network
    <3>4. busy' = d /\ S!BodyArrived(busy)'
      BY <2>1, <3>1, <3>3 DEF S!BodyArrived
    <3>. QED
      BY <2>1, <2>3, <3>1, <3>2, <3>3, <3>4 DEF Busy, Enters, Reaches,
         S!ReturnsEarly, S!Seen
  <2>. QED
    BY <2>2, <2>3
<1>2. ASSUME NEW c \in Clients, Serve(c) PROVE Busy'
  BY <1>2 DEF Serve, pipeline, shared, Busy
<1>3. ASSUME NEW c \in Clients, EnterPipeline(c) PROVE Busy'
  <2>1. PICK n \in BlockSizes : P!Begin(n)
    BY <1>3 DEF EnterPipeline
  <2>2. pc' = "init_converted_samples" /\ block' = n /\ n \in Nat \ {0}
    BY <2>1 DEF P!Begin
  <2>3. /\ busy' = c /\ UNCHANGED <<ops, taken, sent, partial>>
        /\ "read_body" \in ops[c] /\ S!BodyArrived(c) /\ Enters(sent[c][taken[c]])
    BY <1>3 DEF EnterPipeline, sessions, environment, Enters
  <2>4. S!BodyArrived(busy)'
    BY <2>3 DEF S!BodyArrived
  <2>5. c # NoOne
    OBVIOUS
  <2>. QED
    BY <2>2, <2>3, <2>4, <2>5 DEF Busy, BeforeAdd, AfterAdd, Enters, Reaches,
       S!ReturnsEarly, S!Seen
<1>4. CASE CallPipeline
  <2>1. block' = block /\ (Refuses \/ Crashes \/ Responds \/ Adds \/ GoesOn)
    BY <1>4, FiveWays DEF CallPipeline
  <2>2. CASE ~HandlerReturns
    <3>1. /\ UNCHANGED <<ops, taken, sent, partial, busy>>
      BY <1>4, <2>2 DEF CallPipeline, sessions, environment
    <3>2. Adds \/ GoesOn
      BY <2>1, <2>2 DEF HandlerReturns, Refuses, Crashes, Responds
    <3>3. S!BodyArrived(busy)' <=> S!BodyArrived(busy)
      BY <3>1 DEF S!BodyArrived
    <3>4. pc' \in BeforeAdd \cup AfterAdd /\ (pc' \in AfterAdd => FifoAllocated)
      BY <3>2 DEF Adds, GoesOn, BeforeAdd, AfterAdd, Busy
    <3>5. busy # NoOne
      BY <1>4 DEF CallPipeline
    <3>6. pc' \notin {"idle", "crashed"}
      BY <3>4 DEF BeforeAdd, AfterAdd
    <3>. QED
      BY <2>1, <3>1, <3>3, <3>4, <3>5, <3>6 DEF Busy, Enters, Reaches,
         S!ReturnsEarly, S!Seen
  <2>3. CASE HandlerReturns
    <3>1. busy' = NoOne /\ pc' \in {"idle", "crashed"}
      BY <1>4, <2>3 DEF CallPipeline, HandlerReturns
    <3>. QED
      BY <3>1 DEF Busy, AfterAdd
  <2>. QED
    BY <2>2, <2>3
<1>5. CASE UNCHANGED vars
  <2>1. UNCHANGED <<busy, pc, block, ops, taken, sent, partial>>
    BY <1>5 DEF vars, sessions, environment, pipeline, shared
  <2>. QED
    BY <2>1 DEF Busy, S!BodyArrived, Enters, Reaches,
       S!ReturnsEarly, S!Seen
<1>. QED
  BY <1>1, <1>2, <1>3, <1>4, <1>5 DEF Next

\* Both hold in every reachable state.
LEMMA Shared == Spec => [](SR!Base /\ Busy)
<1>1. Init => SR!Base
  BY SameSession, SessionAssumed, SR!BaseInit DEF Init
<1>2. SR!Base /\ Busy /\ [Next]_vars => SR!Base'
  BY SessionStep, SessionAssumed, SR!BaseStep
<1>. QED
  BY <1>1, <1>2, BusyInit, BusyStep, PTL DEF Spec

(***************************************************************************)
(* ImplementsSession: a session that is served by the pipeline, call by    *)
(* call while the network goes on, is a session of Session, where the      *)
(* handler of a block is one step with one of a few outcomes.              *)
(***************************************************************************)
THEOREM AudioServerImplementsSession == Spec => ImplementsSession
<1>1. Init => S!Init
  BY DEF Init
<1>2. SR!Base /\ Busy /\ [Next]_vars => [S!Next]_(S!vars)
  BY SessionStep, SameSession
<1>. QED
  BY <1>1, <1>2, Shared, PTL DEF Spec, ImplementsSession, S!Spec

(***************************************************************************)
(* The pipeline that the sessions share behaves as Pipeline says, so that  *)
(* what is proved of Pipeline holds whichever sessions the blocks come from. *)
(***************************************************************************)
THEOREM AudioServerImplementsPipeline == Spec => P!Spec
<1>1. Init => P!Init
  BY DEF Init
<1>2. [Next]_vars => [P!Next]_(P!vars)
  BY PipelineStep
<1>. QED
  BY <1>1, <1>2, PTL DEF Spec, P!Spec

\* What the two specifications promise is the same in both namespaces.
LEMMA SameContract == /\ S!Contract!Init <=> SR!Contract!Init
                      /\ S!Contract!Next <=> SR!Contract!Next
                      /\ UNCHANGED S!Contract!vars <=> UNCHANGED SR!Contract!vars
BY Zenon DEF S!Contract!Init, SR!Contract!Init, S!Contract!Next, SR!Contract!Next,
   S!Contract!vars, SR!Contract!vars, S!Contract!End, SR!Contract!End,
   S!Contract!Answer, SR!Contract!Answer, S!Contract!Ask, SR!Contract!Ask,
   S!Contract!Last, SR!Contract!Last, S!Contract!Suits, SR!Contract!Suits,
   S!Contract!Questions, SR!Contract!Questions,
   S!Asked, SR!Asked, S!Answered, SR!Answered, S!Ended, SR!Ended, S!Complete, SR!Complete,
   S!Question, SR!Question, S!Answer, SR!Answer, S!Over, SR!Over

LEMMA SameStream == /\ P!Abstract!Init <=> PR!Abstract!Init
                    /\ P!Abstract!Next <=> PR!Abstract!Next
                    /\ UNCHANGED P!Abstract!vars <=> UNCHANGED PR!Abstract!vars
BY Zenon DEF P!Abstract!Init, PR!Abstract!Init, P!Abstract!Next, PR!Abstract!Next,
   P!Abstract!vars, PR!Abstract!vars, P!Abstract!Receive, PR!Abstract!Receive,
   P!Abstract!Cut, PR!Abstract!Cut, P!Abstract!Write, PR!Abstract!Write,
   P!Abstract!Lose, PR!Abstract!Lose, P!Starts, PR!Starts, P!Flight, PR!Flight

(***************************************************************************)
(* The contracts of both parts hold of the whole: every client sees an     *)
(* Exchange, and the file is a Stream.                                     *)
(***************************************************************************)
THEOREM ContractsKept == Spec => S!ImplementsExchange /\ P!ImplementsStream
<1>1. Spec => S!ImplementsExchange
  <2>1. S!Spec => SR!Spec
    BY SameSession, PTL DEF S!Spec, SR!Spec
  <2>2. SR!ImplementsExchange => S!ImplementsExchange
    BY SameContract, PTL
       DEF S!ImplementsExchange, SR!ImplementsExchange, S!Contract!Spec, SR!Contract!Spec
  <2>3. SR!Spec => SR!ImplementsExchange
    BY SessionAssumed, SR!SessionImplementsExchange
  <2>. QED
    BY <2>1, <2>2, <2>3, AudioServerImplementsSession DEF ImplementsSession
<1>2. Spec => P!ImplementsStream
  <2>1. P!Spec => PR!Spec
    BY SamePipeline, PTL DEF P!Spec, PR!Spec
  <2>2. PR!ImplementsStream => P!ImplementsStream
    BY SameStream, PTL
       DEF P!ImplementsStream, PR!ImplementsStream, P!Abstract!Spec, PR!Abstract!Spec
  <2>3. PR!Spec => PR!ImplementsStream
    BY PipelineAssumed, PR!PipelineImplementsStream
  <2>. QED
    BY <2>1, <2>2, <2>3, AudioServerImplementsPipeline
<1>. QED
  BY <1>1, <1>2
-----------------------------------------------------------------------------
(***************************************************************************)
(* What the clients are told and what is in the stream.  The two are       *)
(* written by different parts at different times: the samples go into the  *)
(* FIFO in the middle of the handler, the reply is packaged by its last    *)
(* call and reaches the client later still.  Books says how far the two    *)
(* agree in between: the stream has blocks that were handled, and, from    *)
(* add_samples_to_fifo on, the one being handled, which is then bound to   *)
(* be answered with a response.                                            *)
(***************************************************************************)
Entry == [client : Clients, number : Nat]

In(s, c, n) == \E k \in 1..Len(s) : s[k] = [client |-> c, number |-> n]
StoredAt(c, n) == In(stored, c, n)

\* A block in the stream has been handled, or is the one being handled.
Handled(e) ==
    \/ e.number <= handled[e.client]
    \/ pc \in AfterAdd /\ e.client = busy /\ e.number = handled[busy] + 1

\* What the session c has told its client, and is about to tell it, is true.
TrueTo(c) ==
    /\ \A i \in 1..Len(replies[c]) :
          replies[c][i].type = "PCM_DATA_SEND_RESPONSE" <=> StoredAt(c, replies[c][i].to)
    /\ "write" \in ops[c] =>
          (output_buffer[c].type = "PCM_DATA_SEND_RESPONSE"
              <=> StoredAt(c, output_buffer[c].to))

Books ==
    /\ stored \in Seq(Entry)
    /\ \A k \in 1..Len(stored) : Handled(stored[k])
    /\ pc \in AfterAdd => StoredAt(busy, handled[busy] + 1)
    /\ StreamKeepsOrder
    /\ \A c \in Clients : TrueTo(c)

\* Only a request that reaches the pipeline is answered with a response.
LEMMA ResponseReaches ==
    ASSUME SR!Base, NEW c \in Clients, S!HandleBody(c, OutOfReach(sent[c][taken[c]])),
           "write" \in ops'[c]
    PROVE  output_buffer'[c].type # "PCM_DATA_SEND_RESPONSE"
<1> SUFFICES ASSUME output_buffer'[c].type = "PCM_DATA_SEND_RESPONSE" PROVE FALSE
  OBVIOUS
<1> DEFINE m == sent[c][taken[c]]
<1>1. ops[c] = {"read_body"} /\ m \in SR!Message
  <2>1. SR!handle_read_body(c)
    BY SameBody, HandleSome DEF OutOfReach
  <2>. QED
    BY <2>1, SessionAssumed, SR!BodyEnds
<1>2. ops \in [Clients -> SUBSET SR!Operations] /\ output_buffer \in [Clients -> SR!Reply]
  BY DEF SR!Base, SR!TypeOK
<1>3. ASSUME NEW how, S!End(c, how) PROVE FALSE
  BY <1>2, <1>3 DEF S!End
<1>4. ASSUME NEW type, NEW error, S!send_data(c, "read_body", S!ReplyTo(c, type, error))
      PROVE  type = "PCM_DATA_SEND_RESPONSE"
  BY <1>2, <1>4 DEF S!send_data, S!ReplyTo
<1>5. m.tiles /\ \E l \in OutOfReach(m) : S!Dispatch(c, S!Seen(m, l))
  BY <1>3 DEF S!HandleBody, S!do_close
<1>6. PICK l \in Leftovers : ~Reaches(m, l) /\ S!Dispatch(c, S!Seen(m, l))
  BY <1>5 DEF OutOfReach
<1> DEFINE s == S!Seen(m, l)
<1>7. s.type = m.type /\ s.data \in S!BlockData
  BY <1>1, <1>6 DEF S!Seen, SR!Message, S!Leftover, S!BlockData, SR!BlockData
<1> HIDE DEF m, s
<1>8. m.type = "PCM_DATA_SEND_REQUEST" /\ S!process_pcm_data_send_request(c, s)
  <2>0. S!Dispatch(c, s)
    BY <1>6 DEF s
  <2>1. ~S!process_channel_setup(c, s)
    BY <1>3, <1>4 DEF S!process_channel_setup, S!Release
  <2>2. ~S!process_channel_test(c) /\ ~S!process_default(c)
    BY <1>4 DEF S!process_channel_test, S!process_default
  <2>3. ~S!process_channel_status(c)
    BY <1>1, <1>2 DEF S!process_channel_status, S!Arm
  <2>4. ~S!process_channel_end(c)
    BY <1>3 DEF S!process_channel_end, S!do_close
  <2>. QED
    BY <1>7, <2>0, <2>1, <2>2, <2>3, <2>4 DEF S!Dispatch
<1>9. PICK outcome \in S!BlockOutcomes(s.data) : ~S!ReturnsEarly(s) /\ S!Conclude(c, outcome)
  BY <1>3, <1>8 DEF S!process_pcm_data_send_request, S!Release
<1>10. outcome = "NONE"
  <2>1. ~S!Crash
    BY DEF S!Crash
  <2>. QED
    BY <1>4, <1>9, <2>1 DEF S!Conclude
<1>11. s.data = "samples"
  BY <1>7, <1>9, <1>10 DEF S!BlockOutcomes, S!BlockData
<1>. QED
  BY <1>5, <1>6, <1>8, <1>9, <1>11 DEF Reaches, s

\* While the stream gets no new block, only the session that handles a message
\* has something new to tell.
LEMMA TrueStays ==
    ASSUME SR!Base, [SR!Next]_(SR!vars), NEW d \in Clients, TrueTo(d), stored' = stored,
           SR!Handles(d) /\ "write" \in ops'[d] =>
              (output_buffer'[d].type = "PCM_DATA_SEND_RESPONSE"
                  <=> StoredAt(d, handled[d] + 1))
    PROVE  TrueTo(d)'
<1>1. CASE SR!Quiet(d)
  <2>1. /\ replies'[d] = replies[d] /\ output_buffer'[d] = output_buffer[d]
        /\ "write" \in ops'[d] => "write" \in ops[d]
    BY <1>1 DEF SR!Quiet
  <2>. QED
    BY <2>1 DEF TrueTo, StoredAt
<1>2. CASE SR!Handles(d)
  <2>1. replies'[d] = replies[d]
    BY <1>2 DEF SR!Handles
  <2>2. "write" \in ops'[d] => output_buffer'[d].to = handled[d] + 1
    BY <1>2 DEF SR!Handles
  <2>. QED
    BY <1>2, <2>1, <2>2 DEF TrueTo, StoredAt
<1>3. CASE SR!Writes(d)
  <2>1. /\ "write" \in ops[d] /\ "write" \notin ops'[d]
        /\ replies'[d] = Append(replies[d], output_buffer[d])
    BY <1>3 DEF SR!Writes
  <2>2. replies[d] \in Seq(SR!Reply) /\ output_buffer[d] \in SR!Reply
    BY DEF SR!Base, SR!TypeOK
  <2>3. \A i \in 1..Len(replies'[d]) :
           \/ i \in 1..Len(replies[d]) /\ replies'[d][i] = replies[d][i]
           \/ replies'[d][i] = output_buffer[d]
    BY <2>1, <2>2
  <2>. QED
    BY <2>1, <2>3 DEF TrueTo, StoredAt
<1>. QED
  BY <1>1, <1>2, <1>3, SessionAssumed, SR!OneOfThree

\* A message is handled at the end of handle_read_body, by the session itself
\* or by the pipeline's last call.
LEMMA HandledBy ==
    ASSUME SR!Base, NEW c \in Clients, Network(c) \/ Serve(c),
           NEW d \in Clients, handled'[d] # handled[d]
    PROVE  c = d /\ busy = NoOne /\ S!HandleBody(d, OutOfReach(sent[d][taken[d]]))
<1>0. handled \in [Clients -> Nat]
  BY DEF SR!Base, SR!TypeOK
<1>1. ~S!Environment(c) /\ ~S!start(c) /\ ~S!handle_read_header(c) /\ ~S!handle_write(c)
      /\ ~S!handle_error(c)
  BY DEF S!Environment, S!Connect, S!SendHead, S!SendBody, S!Leave, S!start,
         S!handle_read_header, S!handle_write, S!handle_error
<1>2. S!HandleBody(c, OutOfReach(sent[c][taken[c]])) /\ busy = NoOne
  BY <1>1 DEF Network, Serve, OutOfReach
<1>3. c = d
  BY <1>0, <1>2 DEF S!HandleBody
<1>. QED
  BY <1>2, <1>3

\* No block is in the stream and no client has been told anything.
LEMMA BooksInit == Init => Books
<1> SUFFICES ASSUME Init PROVE Books
  OBVIOUS
<1>1. stored = << >> /\ pc = "idle" /\ \A c \in Clients : ops[c] = {} /\ replies[c] = << >>
  BY DEF Init, S!Init, P!Init
<1>2. stored \in Seq(Entry) /\ Len(stored) = 0
  BY <1>1
<1>3. ASSUME NEW c \in Clients PROVE TrueTo(c)
  <2>1. Len(replies[c]) = 0 /\ "write" \notin ops[c]
    BY <1>1
  <2>. QED
    BY <2>1 DEF TrueTo
<1>. QED
  BY <1>1, <1>2, <1>3 DEF Books, StreamKeepsOrder, AfterAdd

\* The entries of the stream, as the steps below need them.
LEMMA Entries ==
    ASSUME SR!Base, Books, NEW k \in 1..Len(stored)
    PROVE  /\ stored[k] \in Entry /\ stored[k].client \in Clients /\ stored[k].number \in Nat
           /\ stored[k] = [client |-> stored[k].client, number |-> stored[k].number]
           /\ handled[stored[k].client] \in Nat
           /\ Handled(stored[k])
<1>1. stored[k] \in Entry
  BY DEF Books
<1>. QED
  BY <1>1 DEF Books, Entry, SR!Base, SR!TypeOK

\* Only the block that is being handled may be in the stream already.
LEMMA NotYet ==
    ASSUME SR!Base, Books, NEW d \in Clients, pc \notin AfterAdd \/ d # busy
    PROVE  ~StoredAt(d, handled[d] + 1)
<1> SUFFICES ASSUME NEW k \in 1..Len(stored),
                    stored[k] = [client |-> d, number |-> handled[d] + 1]
             PROVE  FALSE
  BY DEF StoredAt, In
<1>1. stored[k].client = d /\ stored[k].number = handled[d] + 1
  OBVIOUS
<1>. QED
  BY <1>1, Entries DEF Handled

\* A step of the network or of a session whose handler is one step.
LEMMA OthersKeepBooks ==
    ASSUME SR!Base, SR!Base', Busy, Books,
           NEW c \in Clients, Network(c) \/ Serve(c)
    PROVE  Books'
<1>1. /\ stored' = stored /\ busy' = busy /\ pc' = pc
      /\ [SR!Next]_(SR!vars)
  <2>1. UNCHANGED <<pipeline, shared>>
    BY DEF Network, Serve
  <2>2. [Next]_vars
    BY DEF Next
  <2>. QED
    BY <2>1, <2>2, SessionStep DEF pipeline, shared
<1>2. ASSUME NEW d \in Clients PROVE TrueTo(d)'
  <2>1. ASSUME SR!Handles(d), "write" \in ops'[d]
        PROVE  /\ output_buffer'[d].type # "PCM_DATA_SEND_RESPONSE"
               /\ ~StoredAt(d, handled[d] + 1)
    <3>1. handled'[d] # handled[d]
      BY <2>1 DEF SR!Handles, SR!Base, SR!TypeOK
    <3>2. S!HandleBody(d, OutOfReach(sent[d][taken[d]])) /\ busy = NoOne
      BY <3>1, HandledBy
    <3>3. d # busy
      BY <3>2
    <3>. QED
      BY <2>1, <3>2, <3>3, ResponseReaches, NotYet
  <2>2. TrueTo(d)
    BY DEF Books
  <2>. QED
    BY <1>1, <2>1, <2>2, TrueStays
<1>3. \A d \in Clients : handled[d] \in Nat /\ handled'[d] \in Nat /\ handled[d] <= handled'[d]
  <2> SUFFICES ASSUME NEW d \in Clients
               PROVE  handled[d] \in Nat /\ handled'[d] \in Nat /\ handled[d] <= handled'[d]
    OBVIOUS
  <2>1. handled[d] \in Nat /\ handled'[d] \in Nat
    BY DEF SR!Base, SR!TypeOK
  <2>2. SR!Quiet(d) \/ SR!Handles(d) \/ SR!Writes(d)
    BY <1>1, SessionAssumed, SR!OneOfThree
  <2>. QED
    BY <2>1, <2>2 DEF SR!Quiet, SR!Handles, SR!Writes
<1>4. busy # NoOne => handled'[busy] = handled[busy]
  BY HandledBy DEF Busy
<1>5. ASSUME NEW k \in 1..Len(stored') PROVE Handled(stored[k])'
  <2>1. stored[k].client \in Clients /\ stored[k].number \in Nat /\ Handled(stored[k])
    BY <1>1, <1>5, Entries
  <2>2. CASE stored[k].number <= handled[stored[k].client]
    BY <1>1, <1>3, <2>1, <2>2 DEF Handled
  <2>3. CASE pc \in AfterAdd
    <3>1. busy # NoOne
      BY <2>3 DEF Busy, AfterAdd
    <3>. QED
      BY <1>1, <1>3, <1>4, <2>1, <2>3, <3>1 DEF Handled
  <2>. QED
    BY <2>1, <2>2, <2>3 DEF Handled
<1>6. pc' \in AfterAdd => StoredAt(busy, handled[busy] + 1)'
  BY <1>1, <1>4 DEF Books, Busy, AfterAdd, StoredAt
<1>. QED
  BY <1>1, <1>2, <1>5, <1>6 DEF Books, StreamKeepsOrder

\* The session of the block that is being handled has nothing to write.
LEMMA BusyIsSilent ==
    ASSUME SR!Base, Busy, busy # NoOne
    PROVE  busy \in Clients /\ "write" \notin ops[busy] /\ taken[busy] = handled[busy] + 1
<1>1. busy \in Clients /\ "read_body" \in ops[busy]
  BY DEF Busy
<1>2. ops[busy] \subseteq SR!Operations
  BY <1>1 DEF SR!Base, SR!TypeOK
<1>. QED
  BY <1>1, <1>2 DEF SR!Base, SR!HalfDuplex, SR!InStep, SR!InStepAt, SR!Operations

\* A call of the handler that is not its last one.
LEMMA CallKeepsBooks ==
    ASSUME SR!Base, PR!Counted, Busy, Books, CallPipeline, ~HandlerReturns
    PROVE  Books'
<1>1. PICK d \in Clients : d = busy
  BY BusyIsSilent DEF CallPipeline
<1>2. "write" \notin ops[d] /\ handled[d] \in Nat /\ accepted \in Nat /\ block \in Nat \ {0}
  <2>1. "write" \notin ops[d] /\ block \in Nat \ {0}
    BY <1>1, BusyIsSilent DEF CallPipeline, Busy
  <2>2. handled[d] \in Nat
    BY DEF SR!Base, SR!TypeOK
  <2>3. accepted \in Nat
    BY DEF PR!Counted, PR!TypeOK
  <2>. QED
    BY <2>1, <2>2, <2>3
<1>3. UNCHANGED <<handled, ops, output_buffer, replies, busy>>
  BY DEF CallPipeline, sessions
<1>4. Adds \/ GoesOn
  BY FiveWays DEF CallPipeline, HandlerReturns, Refuses, Crashes, Responds
<1>5. CASE GoesOn
  <2>1. stored' = stored /\ (pc' \in AfterAdd <=> pc \in AfterAdd)
    BY <1>5 DEF GoesOn, CallPipeline, BeforeAdd, AfterAdd
  <2>2. \A c \in Clients : TrueTo(c)'
    BY <1>3, <2>1 DEF Books, TrueTo, StoredAt
  <2>3. \A k \in 1..Len(stored) : Handled(stored[k])'
    BY <1>3, <2>1 DEF Books, Handled
  <2>4. pc' \in AfterAdd => StoredAt(busy, handled[busy] + 1)'
    BY <1>3, <2>1 DEF Books, StoredAt
  <2>. QED
    BY <2>1, <2>2, <2>3, <2>4 DEF Books, StreamKeepsOrder
<1>6. CASE Adds
  <2> DEFINE e == [client |-> d, number |-> handled[d] + 1]
             n == Len(stored)
  <2>1. /\ stored' = Append(stored, e) /\ pc \notin AfterAdd /\ pc' \in AfterAdd
        /\ e \in Entry /\ e.client = d /\ e.number = handled[d] + 1
    <3>1. accepted' # accepted /\ pc \notin AfterAdd /\ pc' \in AfterAdd
      BY <1>2, <1>6 DEF Adds, BeforeAdd, AfterAdd
    <3>2. e \in Entry /\ e.client = d /\ e.number = handled[d] + 1
      BY <1>2 DEF Entry
    <3>. QED
      BY <1>1, <3>1, <3>2 DEF CallPipeline
  <2>2. stored \in Seq(Entry) /\ n \in Nat
    BY DEF Books
  <2> HIDE DEF e
  <2>3. /\ stored' \in Seq(Entry) /\ Len(stored') = n + 1 /\ stored'[n + 1] = e
        /\ \A k \in 1..n : stored'[k] = stored[k]
    BY <2>1, <2>2, AppendProperties
  <2>4. \A k \in 1..n : Handled(stored[k]) /\ stored[k].number <= handled[stored[k].client]
    BY <2>1 DEF Books, Handled
  <2>5. \A k \in 1..Len(stored') : Handled(stored[k])'
    <3> SUFFICES ASSUME NEW k \in 1..(n + 1) PROVE Handled(stored[k])'
      BY <2>3
    <3>1. CASE k = n + 1
      BY <1>1, <1>3, <2>1, <2>3, <3>1 DEF Handled
    <3>2. CASE k \in 1..n
      BY <1>3, <2>3, <2>4, <3>2 DEF Handled
    <3>. QED
      BY <2>2, <3>1, <3>2
  <2>6. StoredAt(busy, handled[busy] + 1)'
    BY <1>1, <1>3, <2>2, <2>3 DEF StoredAt, In, e
  <2>7. StreamKeepsOrder'
    <3> SUFFICES ASSUME NEW j \in 1..(n + 1), NEW k \in 1..(n + 1),
                        j < k, stored'[j].client = stored'[k].client
                 PROVE  stored'[j].number < stored'[k].number
      BY <2>3 DEF StreamKeepsOrder
    <3>1. j \in 1..n
      BY <2>2
    <3>2. CASE k \in 1..n
      BY <2>3, <3>1, <3>2 DEF Books, StreamKeepsOrder
    <3>3. CASE k = n + 1
      <4>1. stored[j].number \in Nat /\ stored[j].number <= handled[d]
        BY <2>1, <2>3, <2>4, <3>1, <3>3, Entries
      <4>. QED
        BY <1>2, <2>1, <2>3, <3>1, <3>3, <4>1
    <3>. QED
      BY <2>2, <3>2, <3>3
  <2>8. ASSUME NEW c \in Clients, NEW m \in Nat, m <= handled[c]
        PROVE  In(stored', c, m) <=> In(stored, c, m)
    <3>1. ~(e = [client |-> c, number |-> m])
      BY <1>2, <2>1, <2>8
    <3>2. \A k \in 1..(n + 1) : k \in 1..n \/ k = n + 1
      BY <2>2
    <3>3. \A k \in 1..n : k \in 1..(n + 1)
      BY <2>2
    <3>. QED
      BY <2>3, <3>1, <3>2, <3>3 DEF In
  <2>9. ASSUME NEW c \in Clients PROVE TrueTo(c)'
    <3>1. TrueTo(c)
      BY DEF Books
    <3>2. \A i \in 1..Len(replies[c]) :
             replies[c][i].to \in Nat /\ replies[c][i].to <= handled[c]
      BY SessionAssumed, SR!RepliesTyped DEF SR!Base, SR!InStep, SR!InStepAt
    <3>3. "write" \in ops[c] => output_buffer[c].to \in Nat /\ output_buffer[c].to <= handled[c]
      BY DEF SR!Base, SR!TypeOK, SR!InStep, SR!InStepAt
    <3>. QED
      BY <1>3, <2>8, <3>1, <3>2, <3>3 DEF TrueTo, StoredAt
  <2>. QED
    BY <2>1, <2>3, <2>5, <2>6, <2>7, <2>9 DEF Books
<1>. QED
  BY <1>4, <1>5, <1>6

\* The last call of the handler: the answer agrees with the stream.
LEMMA ReturnKeepsBooks ==
    ASSUME SR!Base, Busy, Books, CallPipeline, HandlerReturns
    PROVE  Books'
<1>1. PICK d \in Clients : d = busy
  BY BusyIsSilent DEF CallPipeline
<1>2. Refuses \/ Crashes \/ Responds
  BY FiveWays DEF CallPipeline, HandlerReturns, Adds, GoesOn, BeforeAdd, AfterAdd
<1>3. /\ stored' = stored /\ busy' = NoOne /\ pc' \notin AfterAdd
      /\ handled' = [handled EXCEPT ![d] = @ + 1]
      /\ S!Conclude(d, Outcome)
  BY <1>1, <1>2 DEF CallPipeline, HandlerReturns, Refuses, Crashes, Responds, AfterAdd
<1>4. /\ handled \in [Clients -> Nat] /\ ops \in [Clients -> SUBSET SR!Operations]
      /\ output_buffer \in [Clients -> SR!Reply]
  BY DEF SR!Base, SR!TypeOK
<1>5. "write" \in ops'[d] =>
         (output_buffer'[d].type = "PCM_DATA_SEND_RESPONSE" <=> StoredAt(d, handled[d] + 1))
  <2>1. CASE Refuses
    <3>1. output_buffer'[d].type = "CHANNEL_ERROR"
      <4>1. Outcome = "UNKNOWN_ERROR"
        BY <2>1 DEF Refuses, Outcome
      <4>2. S!send_data(d, "read_body", S!ReplyTo(d, "CHANNEL_ERROR", "UNKNOWN_ERROR"))
        BY <1>3, <4>1 DEF S!Conclude
      <4>. QED
        BY <1>4, <4>2 DEF S!send_data, S!ReplyTo
    <3>2. ~StoredAt(d, handled[d] + 1)
      BY <2>1, NotYet DEF Refuses, BeforeAdd, AfterAdd
    <3>. QED
      BY <3>1, <3>2
  <2>2. CASE Crashes
    BY <1>3, <2>2 DEF Crashes, Outcome, S!Conclude, S!Crash, S!ErrorCodes
  <2>3. CASE Responds
    <3>1. output_buffer'[d].type = "PCM_DATA_SEND_RESPONSE"
      <4>1. Outcome = "NONE"
        BY <2>3 DEF Responds, Outcome
      <4>2. S!send_data(d, "read_body", S!ReplyTo(d, "PCM_DATA_SEND_RESPONSE", "NONE"))
        BY <1>3, <4>1 DEF S!Conclude
      <4>. QED
        BY <1>4, <4>2 DEF S!send_data, S!ReplyTo
    <3>2. StoredAt(d, handled[d] + 1)
      BY <1>1, <2>3 DEF Responds, Books
    <3>. QED
      BY <3>1, <3>2
  <2>. QED
    BY <1>2, <2>1, <2>2, <2>3
<1>6. ASSUME NEW c \in Clients PROVE TrueTo(c)'
  <2>1. SR!Handles(c) => c = d
    BY <1>3, <1>4 DEF SR!Handles
  <2>2. [SR!Next]_(SR!vars)
    BY SessionStep DEF Next
  <2>3. TrueTo(c)
    BY DEF Books
  <2>. QED
    BY <1>3, <1>5, <2>1, <2>2, <2>3, TrueStays
<1>7. ASSUME NEW k \in 1..Len(stored') PROVE Handled(stored[k])'
  <2>1. stored[k].client \in Clients /\ stored[k].number \in Nat /\ Handled(stored[k])
    BY <1>3, <1>7, Entries
  <2>2. CASE stored[k].client = d
    <3>1. stored[k].number <= handled[d] + 1
      BY <1>1, <1>4, <2>1, <2>2 DEF Handled
    <3>2. handled'[d] = handled[d] + 1
      BY <1>3, <1>4
    <3>. QED
      BY <1>3, <2>2, <3>1, <3>2 DEF Handled
  <2>3. CASE stored[k].client # d
    BY <1>1, <1>3, <1>4, <2>1, <2>3 DEF Handled
  <2>. QED
    BY <2>2, <2>3
<1>. QED
  BY <1>3, <1>6, <1>7 DEF Books, StreamKeepsOrder

\* No step makes the books wrong.
LEMMA BooksStep ==
    ASSUME SR!Base, SR!Base', PR!Counted, Busy, Books, [Next]_vars
    PROVE  Books'
<1>1. ASSUME NEW c \in Clients, EnterPipeline(c) PROVE Books'
  <2>1. /\ UNCHANGED <<handled, ops, output_buffer, replies, stored>>
        /\ busy = NoOne /\ pc' = "init_converted_samples"
    BY <1>1 DEF EnterPipeline, P!Begin, sessions
  <2>2. pc \notin AfterAdd /\ pc' \notin AfterAdd
    BY <2>1 DEF Busy, AfterAdd
  <2>3. \A c1 \in Clients : TrueTo(c1)'
    BY <2>1 DEF Books, TrueTo, StoredAt
  <2>4. \A k \in 1..Len(stored) : Handled(stored[k])'
    BY <2>1, <2>2 DEF Books, Handled
  <2>. QED
    BY <2>1, <2>2, <2>3, <2>4 DEF Books, StreamKeepsOrder
<1>2. CASE UNCHANGED vars
  <2>1. UNCHANGED <<handled, ops, output_buffer, replies, pc, busy, stored>>
    BY <1>2 DEF vars, sessions, pipeline, shared
  <2>2. \A c \in Clients : TrueTo(c)'
    BY <2>1 DEF Books, TrueTo, StoredAt
  <2>3. \A k \in 1..Len(stored) : Handled(stored[k])'
    BY <2>1 DEF Books, Handled
  <2>. QED
    BY <2>1, <2>2, <2>3 DEF Books, StreamKeepsOrder, StoredAt
<1>. QED
  BY <1>1, <1>2, OthersKeepBooks, CallKeepsBooks, ReturnKeepsBooks DEF Next

\* The books are right in every reachable state.
LEMMA BooksKept == Spec => []Books
<1>1. Spec => []PR!Counted
  <2>1. P!Spec => PR!Spec
    BY SamePipeline, PTL DEF P!Spec, PR!Spec
  <2>2. PR!Spec => [](PR!Counted /\ PR!Stored)
    BY PipelineAssumed, PR!PipelineInvariant
  <2>. QED
    BY <2>1, <2>2, AudioServerImplementsPipeline, PTL
<1>2. SR!Base /\ SR!Base' /\ PR!Counted /\ Busy /\ Books /\ [Next]_vars => Books'
  BY BooksStep
<1>. QED
  BY <1>1, <1>2, Shared, BooksInit, PTL DEF Spec

(***************************************************************************)
(* ResponsesAreTrue: a client that trusts the answers knows exactly which  *)
(* of its blocks are in the stream, whatever the other clients send.       *)
(***************************************************************************)
THEOREM AnswersTellTheStream == Spec => []ResponsesAreTrue
<1>1. Books => ResponsesAreTrue
  BY DEF Books, TrueTo, StoredAt, In, ResponsesAreTrue
<1>. QED
  BY <1>1, BooksKept, PTL

(***************************************************************************)
(* StreamKeepsOrder: the blocks of a client are in the stream in the order *)
(* in which it sent them, each at most once.                               *)
(***************************************************************************)
THEOREM BlocksKeepOrder == Spec => []StreamKeepsOrder
<1>1. Books => StreamKeepsOrder
  BY DEF Books
<1>. QED
  BY <1>1, BooksKept, PTL
=============================================================================
