--------------------------- MODULE PipelineProofs ---------------------------
(***************************************************************************)
(* Proofs about Pipeline, for every frame size, encoder delay and set of   *)
(* block sizes, and for every combination of failures.                     *)
(***************************************************************************)
EXTENDS Pipeline, SequenceTheorems, TLAPS

USE PipelineAssumption

(***************************************************************************)
(* The inductive invariant: what each call of the handler relies on.       *)
(***************************************************************************)

\* What is allocated follows from where the handler is.
HeapFits ==
    pc # "crashed" =>
        heap = [o \in Objects |->
                  IF o = "converted"
                  THEN IF pc \in {"convert_samples", "add_samples_to_fifo"} THEN 1 ELSE 0
                  ELSE IF pc \in {"fifo_read", "send_frame"} THEN 1 ELSE 0]

\* The loop is entered with more than a frame, and pts_ has not overtaken the stream.
FifoFits ==
    /\ pts <= accepted
    /\ FifoIsTheTail
    /\ pc \in {"init_output_frame", "fifo_read"} => Len(fifo) > FrameSize

\* How much of the block has been added.
AddedFits ==
    /\ pc \in {"init_converted_samples", "convert_samples", "add_samples_to_fifo"}
         => accepted = before
    /\ pc \in {"size", "init_output_frame", "fifo_read", "send_frame", "receive_packet"}
         => accepted = before + block

\* Outside the inner loop no packet is waiting, unless receiving has failed.
Drained == "receive" \notin failed /\ pc # "receive_packet" => ~HasPacket

\* The two halves of the invariant: what is counted, and what is stored.
Counted == TypeOK /\ HeapFits /\ AddedFits /\ AnswerIsTrue
Stored == FifoFits /\ TimeStampsInPlace /\ Drained /\ CatchesUp

-----------------------------------------------------------------------------
\* A run of samples, as a sequence.
LEMMA RunProperties ==
    ASSUME NEW n \in Nat, NEW m \in Nat
    PROVE  /\ Run(n, m) \in Seq(Nat)
           /\ Len(Run(n, m)) = m
           /\ \A i \in 1..m : Run(n, m)[i] = n + i
BY DEF Run

\* Adding to a run at its end, and cutting it at its front, gives runs.
LEMMA RunAppend ==
    ASSUME NEW n \in Nat, NEW m \in Nat, NEW k \in Nat
    PROVE  Run(n, m) \o Run(n + m, k) = Run(n, m + k)
<1> DEFINE s == Run(n, m)
           t == Run(n + m, k)
<1>1. /\ s \in Seq(Nat) /\ Len(s) = m
      /\ \A i \in 1..m : s[i] = n + i
  BY RunProperties
<1>2. /\ t \in Seq(Nat) /\ Len(t) = k
      /\ \A i \in 1..k : t[i] = n + m + i
  <2>1. n + m \in Nat
    OBVIOUS
  <2>. QED
    BY <2>1, RunProperties
<1> HIDE DEF s, t
<1>3. /\ s \o t \in Seq(Nat) /\ Len(s \o t) = m + k
      /\ \A i \in 1..m + k : (s \o t)[i] = IF i <= m THEN s[i] ELSE t[i - m]
  <2>1. s \in Seq(Nat) /\ t \in Seq(Nat)
    BY <1>1, <1>2
  <2>2. /\ s \o t \in Seq(Nat) /\ Len(s \o t) = Len(s) + Len(t)
        /\ \A i \in 1..Len(s) + Len(t) :
              (s \o t)[i] = IF i <= Len(s) THEN s[i] ELSE t[i - Len(s)]
    BY <2>1, ConcatProperties, Zenon
  <2>. QED
    BY <1>1, <1>2, <2>2
<1>4. ASSUME NEW i \in 1..m + k PROVE (s \o t)[i] = n + i
  <2>1. CASE i <= m
    BY <1>1, <1>3, <2>1
  <2>2. CASE i > m
    <3>1. i - m \in 1..k /\ n + m + (i - m) = n + i
      BY <2>2
    <3>2. t[i - m] = n + m + (i - m)
      BY <1>2, <3>1
    <3>. QED
      BY <1>3, <2>2, <3>1, <3>2
  <2>3. i <= m \/ i > m
    OBVIOUS
  <2>. QED
    BY <2>1, <2>2, <2>3
<1>5. /\ Run(n, m + k) \in Seq(Nat) /\ Len(Run(n, m + k)) = m + k
      /\ \A i \in 1..m + k : Run(n, m + k)[i] = n + i
  <2>1. m + k \in Nat
    OBVIOUS
  <2>. QED
    BY <2>1, RunProperties
<1>6. s \o t = Run(n, m + k)
  BY <1>3, <1>4, <1>5, SeqEqual
<1>. QED
  BY <1>6 DEF s, t

\* The first k samples of a run, and what is left without them.
LEMMA RunFront ==
    ASSUME NEW n \in Nat, NEW m \in Nat, NEW k \in Nat, k <= m
    PROVE  SubSeq(Run(n, m), 1, k) = Run(n, k)
<1>1. Run(n, m) \in Seq(Nat) /\ Len(Run(n, m)) = m
  BY RunProperties
<1>2. SubSeq(Run(n, m), 1, k) = [i \in 1..k |-> Run(n, m)[i]]
  BY <1>1
<1>3. \A i \in 1..k : Run(n, m)[i] = n + i
  BY RunProperties
<1>. QED
  BY <1>2, <1>3 DEF Run

LEMMA RunBack ==
    ASSUME NEW n \in Nat, NEW m \in Nat, NEW k \in Nat, k <= m
    PROVE  SubSeq(Run(n, m), k + 1, m) = Run(n + k, m - k)
<1>1. Run(n, m) \in Seq(Nat) /\ Len(Run(n, m)) = m
  BY RunProperties
<1>2. SubSeq(Run(n, m), k + 1, m) = [i \in 1..m - k |-> Run(n, m)[k + i]]
  BY <1>1
<1>3. \A i \in 1..m - k : Run(n, m)[k + i] = (n + k) + i
  BY RunProperties
<1>. QED
  BY <1>2, <1>3 DEF Run

-----------------------------------------------------------------------------
\* The pipeline starts with counts and store in order.
LEMMA PipelineInit == Init => Counted /\ Stored
<1> SUFFICES ASSUME Init PROVE Counted /\ Stored
  OBVIOUS
<1>1. TypeOK
  BY DEF Init, TypeOK, NoFrame, Frame, Objects, Failures
<1>2. HeapFits /\ AddedFits /\ AnswerIsTrue
  BY DEF Init, HeapFits, AddedFits, AnswerIsTrue, Objects
<1>3. FifoIsTheTail
  <2>1. Run(0, 0) = << >>
    BY DEF Run
  <2>. QED
    BY <2>1 DEF Init, FifoIsTheTail
<1>4. FifoFits /\ TimeStampsInPlace /\ Drained /\ CatchesUp
  BY <1>3 DEF Init, FifoFits, TimeStampsInPlace, Drained, HasPacket, CatchesUp
<1>. QED
  BY <1>1, <1>2, <1>4 DEF Counted, Stored

\* Each call keeps the counts, the heap and the answer in order.
LEMMA CountedStep == Counted /\ Stored /\ [Next]_vars => Counted'
<1> SUFFICES ASSUME Counted, Stored, [Next]_vars PROVE Counted'
  OBVIOUS
<1> USE DEF Counted, Calls, Objects
<1>1. ASSUME NEW n \in BlockSizes, Begin(n) PROVE Counted'
  <2>1. TypeOK'
    BY <1>1 DEF Begin, stream, TypeOK
  <2>2. HeapFits' /\ AddedFits' /\ AnswerIsTrue'
    BY <1>1 DEF Begin, stream, HeapFits, AddedFits, AnswerIsTrue
  <2>. QED
    BY <2>1, <2>2
<1>2. CASE init_converted_samples
  <2>1. TypeOK'
    BY <1>2 DEF init_converted_samples, allocate, keep_heap, send_data, stream, TypeOK
  <2>2. HeapFits'
    BY <1>2 DEF init_converted_samples, allocate, keep_heap, send_data, HeapFits
  <2>3. AddedFits' /\ AnswerIsTrue'
    BY <1>2 DEF init_converted_samples, send_data, stream, TypeOK, AddedFits, AnswerIsTrue
  <2>. QED
    BY <2>1, <2>2, <2>3
<1>3. CASE convert_samples
  <2>1. TypeOK'
    BY <1>3 DEF convert_samples, Crash, release, send_data, stream, TypeOK, HeapFits
  <2>2. HeapFits'
    BY <1>3 DEF convert_samples, Crash, release, send_data, HeapFits
  <2>3. AddedFits' /\ AnswerIsTrue'
    BY <1>3 DEF convert_samples, Crash, send_data, stream, AddedFits, AnswerIsTrue
  <2>. QED
    BY <2>1, <2>2, <2>3
<1>4. CASE add_samples_to_fifo
  <2>1. TypeOK'
    <3>1. Run(accepted, block) \in Seq(Nat)
      BY RunProperties DEF TypeOK
    <3>2. fifo \o Run(accepted, block) \in Seq(Nat)
      BY <3>1, ConcatProperties DEF TypeOK
    <3>3. heap' \in [Objects -> Nat]
      BY <1>4 DEF add_samples_to_fifo, Crash, release, TypeOK, HeapFits
    <3>. QED
      <4>1. fifo' \in Seq(Nat)
        BY <1>4, <3>2 DEF add_samples_to_fifo, TypeOK
      <4>2. accepted' \in Nat
        BY <1>4 DEF add_samples_to_fifo, TypeOK
      <4>3. pc' \in Calls \cup {"idle", "crashed"} /\ answer' \in {"none", "error", "response"}
        BY <1>4 DEF add_samples_to_fifo, Crash, send_data, TypeOK
      <4>. QED
        BY <1>4, <3>3, <4>1, <4>2, <4>3 DEF add_samples_to_fifo, Crash, TypeOK
  <2>2. HeapFits'
    BY <1>4 DEF add_samples_to_fifo, Crash, release, send_data, HeapFits
  <2>3. AddedFits' /\ AnswerIsTrue'
    BY <1>4 DEF add_samples_to_fifo, Crash, send_data, TypeOK, AddedFits, AnswerIsTrue
  <2>. QED
    BY <2>1, <2>2, <2>3
<1>5. CASE fifo_size
  <2>1. TypeOK' /\ HeapFits'
    BY <1>5 DEF fifo_size, send_data, stream, TypeOK, HeapFits
  <2>2. AddedFits' /\ AnswerIsTrue'
    BY <1>5 DEF fifo_size, send_data, stream, AddedFits, AnswerIsTrue
  <2>. QED
    BY <2>1, <2>2
<1>6. CASE init_output_frame
  <2>1. TypeOK'
    <3>1. heap' \in [Objects -> Nat]
      BY <1>6 DEF init_output_frame, allocate, keep_heap, TypeOK
    <3>2. failed' \in SUBSET Failures
      BY <1>6 DEF init_output_frame, leave_loop, TypeOK, Failures
    <3>. QED
      BY <1>6, <3>1, <3>2 DEF init_output_frame, leave_loop, send_data, stream, TypeOK
  <2>2. HeapFits'
    BY <1>6 DEF init_output_frame, allocate, keep_heap, leave_loop, send_data, HeapFits
  <2>3. AddedFits' /\ AnswerIsTrue'
    BY <1>6 DEF init_output_frame, leave_loop, send_data, stream, AddedFits, AnswerIsTrue
  <2>. QED
    BY <2>1, <2>2, <2>3
<1>7. CASE fifo_read
  <2>1. TypeOK'
    <3>1. Len(fifo) \in Nat /\ FrameSize \in Nat /\ FrameSize < Len(fifo)
          /\ \A i \in 1..Len(fifo) : fifo[i] \in Nat
      BY <1>7 DEF fifo_read, TypeOK, Stored, FifoFits
    <3>2. SubSeq(fifo, 1, FrameSize) \in Seq(Nat)
          /\ SubSeq(fifo, FrameSize + 1, Len(fifo)) \in Seq(Nat)
      BY <3>1, SubSeqProperties
    <3>3. heap' \in [Objects -> Nat]
      BY <1>7 DEF fifo_read, release, TypeOK, HeapFits
    <3>4. failed' \in SUBSET Failures
      BY <1>7 DEF fifo_read, leave_loop, TypeOK, Failures
    <3>5. [pts |-> pts, samples |-> SubSeq(fifo, 1, FrameSize)] \in Frame
      BY <3>2 DEF TypeOK, Frame
    <3>6. frame' \in Frame /\ fifo' \in Seq(Nat) /\ pts' \in Nat
      <4>1. CASE UNCHANGED <<fifo, frame, pts>>
        BY <4>1 DEF TypeOK
      <4>2. CASE /\ frame' = [pts |-> pts, samples |-> SubSeq(fifo, 1, FrameSize)]
                 /\ fifo' = SubSeq(fifo, FrameSize + 1, Len(fifo))
                 /\ pts' = pts + FrameSize
        <5>1. frame' \in Frame /\ fifo' \in Seq(Nat)
          BY <3>2, <3>5, <4>2
        <5>2. pts' \in Nat
          BY <4>2 DEF TypeOK
        <5>. QED
          BY <5>1, <5>2
      <4>. QED
        BY <1>7, <4>1, <4>2 DEF fifo_read
    <3>7. pc' \in Calls \cup {"idle", "crashed"} /\ answer' \in {"none", "error", "response"}
      BY <1>7 DEF fifo_read, leave_loop, send_data, TypeOK
    <3>. QED
      BY <1>7, <3>3, <3>4, <3>6, <3>7 DEF fifo_read, TypeOK
  <2>2. HeapFits'
    BY <1>7 DEF fifo_read, release, leave_loop, send_data, HeapFits
  <2>3. AddedFits' /\ AnswerIsTrue'
    BY <1>7 DEF fifo_read, leave_loop, send_data, AddedFits, AnswerIsTrue
  <2>. QED
    BY <2>1, <2>2, <2>3
<1>8. CASE send_frame
  <2>1. TypeOK'
    <3>1. Numbers(frame.samples) \subseteq Nat
      BY DEF TypeOK, Frame, Numbers
    <3>2. NoFrame \in Frame
      BY DEF NoFrame, Frame
    <3>3. heap' \in [Objects -> Nat]
      BY <1>8 DEF send_frame, release, TypeOK, HeapFits
    <3>4. failed' \in SUBSET Failures
      BY <1>8 DEF send_frame, leave_loop, TypeOK, Failures
    <3>5. encoder' \in Seq(Frame) /\ lost' \in SUBSET Nat
      <4>1. Append(encoder, frame) \in Seq(Frame)
        BY AppendProperties DEF TypeOK
      <4>2. encoder' \in {encoder, Append(encoder, frame)}
            /\ lost' \in {lost, lost \cup Numbers(frame.samples)}
        BY <1>8 DEF send_frame
      <4>. QED
        BY <3>1, <4>1, <4>2 DEF TypeOK
    <3>6. pc' \in Calls \cup {"idle", "crashed"} /\ answer' \in {"none", "error", "response"}
      BY <1>8 DEF send_frame, leave_loop, send_data, TypeOK
    <3>. QED
      BY <1>8, <3>2, <3>3, <3>4, <3>5, <3>6 DEF send_frame, TypeOK
  <2>2. HeapFits'
    <3>1. pc' \in {"idle", "receive_packet"} /\ heap' = [heap EXCEPT !["frame"] = @ - 1]
      BY <1>8 DEF send_frame, release, leave_loop, send_data
    <3>2. heap = [o \in Objects |-> IF o = "converted" THEN 0 ELSE 1]
      BY <1>8 DEF send_frame, HeapFits
    <3>. QED
      <4>1. heap["frame"] = 1 /\ heap["converted"] = 0
        BY <3>2
      <4>2. heap' = [o \in Objects |-> IF o = "frame" THEN heap["frame"] - 1 ELSE heap[o]]
        BY <3>1, <3>2
      <4>3. heap' = [o \in Objects |-> 0]
        BY <4>1, <4>2
      <4>. QED
        BY <3>1, <4>3 DEF HeapFits
  <2>3. AddedFits' /\ AnswerIsTrue'
    BY <1>8 DEF send_frame, leave_loop, send_data, AddedFits, AnswerIsTrue
  <2>. QED
    BY <2>1, <2>2, <2>3
<1>9. CASE receive_packet
  <2>1. TypeOK'
    <3>1. encoder # << >> => /\ Head(encoder) \in Frame /\ Tail(encoder) \in Seq(Frame)
                             /\ Numbers(Head(encoder).samples) \subseteq Nat
      <4>1. encoder # << >> => Head(encoder) \in Frame /\ Tail(encoder) \in Seq(Frame)
        BY HeadTailProperties DEF TypeOK
      <4>2. \A f \in Frame : Numbers(f.samples) \subseteq Nat
        BY DEF Frame, Numbers
      <4>. QED
        BY <4>1, <4>2
    <3>2. HasPacket => encoder # << >>
      BY DEF HasPacket
    <3>3. encoder' \in Seq(Frame) /\ output' \in Seq(Frame)
      <4>1. encoder # << >> => Append(output, Head(encoder)) \in Seq(Frame)
        BY <3>1, AppendProperties DEF TypeOK
      <4>2. encoder' = encoder \/ (encoder # << >> /\ encoder' = Tail(encoder))
        BY <1>9, <3>2 DEF receive_packet
      <4>3. output' = output \/ (HasPacket /\ output' = Append(output, Head(encoder)))
        BY <1>9 DEF receive_packet
      <4>. QED
        BY <3>1, <3>2, <4>1, <4>2, <4>3 DEF TypeOK
    <3>4. lost' \in SUBSET Nat
      BY <1>9, <3>1, <3>2 DEF receive_packet, TypeOK
    <3>5. failed' \in SUBSET Failures /\ pc' \in Calls
      BY <1>9 DEF receive_packet, TypeOK, Failures
    <3>. QED
      BY <1>9, <3>3, <3>4, <3>5 DEF receive_packet, TypeOK
  <2>2. HeapFits'
    BY <1>9 DEF receive_packet, HeapFits
  <2>3. AddedFits' /\ AnswerIsTrue'
    BY <1>9 DEF receive_packet, AddedFits, AnswerIsTrue
  <2>. QED
    BY <2>1, <2>2, <2>3
<1>10. CASE UNCHANGED vars
  BY <1>10 DEF vars, TypeOK, HeapFits, AddedFits, AnswerIsTrue
<1>. QED
  BY <1>1, <1>2, <1>3, <1>4, <1>5, <1>6, <1>7, <1>8, <1>9, <1>10 DEF Next, Handler

\* The calls that touch neither the FIFO nor a frame.
LEMMA StoredFrame ==
    ASSUME Stored, UNCHANGED <<fifo, frame, pts, encoder, output, accepted>>,
           pc' \notin {"init_output_frame", "fifo_read", "send_frame"},
           pc # "receive_packet", failed' \cup {"cut"} = failed \cup {"cut"},
           pc' = "idle" => answer' # "response" \/ "cut" \in failed'
    PROVE  Stored'
<1>1. FifoFits' /\ TimeStampsInPlace'
  BY DEF Stored, FifoFits, FifoIsTheTail, TimeStampsInPlace, InPlace
<1>2. Drained'
  BY DEF Stored, Drained, HasPacket
<1>3. CatchesUp'
  BY DEF CatchesUp
<1>. QED
  BY <1>1, <1>2, <1>3 DEF Stored

\* Each call keeps the FIFO, the time stamps and the encoder in order.
LEMMA StoredStep == Counted /\ Stored /\ [Next]_vars => Stored'
<1> SUFFICES ASSUME Counted, Stored, [Next]_vars PROVE Stored'
  OBVIOUS
<1>0. /\ fifo = Run(pts, accepted - pts) /\ pts \in Nat /\ accepted \in Nat
      /\ accepted - pts \in Nat /\ Len(fifo) = accepted - pts
  <2>1. pts \in Nat /\ accepted \in Nat /\ accepted - pts \in Nat
    BY DEF Counted, TypeOK, Stored, FifoFits
  <2>. QED
    BY <2>1, RunProperties DEF Stored, FifoFits, FifoIsTheTail
<1>1. ASSUME NEW n \in BlockSizes, Begin(n) PROVE Stored'
  BY <1>1, StoredFrame DEF Begin, stream
<1>2. CASE init_converted_samples
  BY <1>2, StoredFrame DEF init_converted_samples, send_data, stream
<1>3. CASE convert_samples
  BY <1>3, StoredFrame DEF convert_samples, Crash, send_data, stream
<1>4. CASE add_samples_to_fifo
  <2>1. CASE UNCHANGED <<fifo, accepted>>
    BY <1>4, <2>1, StoredFrame DEF add_samples_to_fifo, Crash, send_data
  <2>2. CASE fifo' = fifo \o Run(accepted, block) /\ accepted' = accepted + block
    <3>1. block \in Nat
      BY DEF Counted, TypeOK
    <3>2. fifo' = Run(pts, (accepted - pts) + block)
      <4>1. pts + (accepted - pts) = accepted
        BY <1>0
      <4>2. Run(pts, accepted - pts) \o Run(pts + (accepted - pts), block)
              = Run(pts, (accepted - pts) + block)
        <5>1. pts \in Nat /\ accepted - pts \in Nat
          BY <1>0
        <5>. QED
          BY <3>1, <5>1, RunAppend
      <4>. QED
        BY <1>0, <2>2, <4>1, <4>2
    <3>3. accepted' - pts = (accepted - pts) + block /\ pts <= accepted' /\ pts' = pts
      BY <1>0, <1>4, <2>2, <3>1 DEF add_samples_to_fifo
    <3>4. pc' \notin {"init_output_frame", "fifo_read", "send_frame"}
          /\ failed' = failed /\ pc = "add_samples_to_fifo"
          /\ UNCHANGED <<frame, encoder, output>>
          /\ (pc' = "idle" => answer' = "error")
      BY <1>4 DEF add_samples_to_fifo, Crash, send_data
    <3>5. FifoFits'
      BY <3>2, <3>3, <3>4 DEF FifoFits, FifoIsTheTail
    <3>6. TimeStampsInPlace' /\ Drained' /\ CatchesUp'
      BY <3>4 DEF Stored, TimeStampsInPlace, InPlace, Drained, HasPacket, CatchesUp
    <3>. QED
      BY <3>5, <3>6 DEF Stored
  <2>. QED
    BY <1>4, <2>1, <2>2 DEF add_samples_to_fifo
<1>5. CASE fifo_size
  <2>1. FifoFits'
    BY <1>5 DEF fifo_size, MoreThanAFrame, send_data, stream, Stored, FifoFits, FifoIsTheTail
  <2>2. TimeStampsInPlace' /\ Drained'
    BY <1>5 DEF fifo_size, send_data, stream, Stored, TimeStampsInPlace, InPlace, Drained,
                HasPacket
  <2>3. CatchesUp'
    BY <1>0, <1>5 DEF fifo_size, MoreThanAFrame, send_data, stream, CatchesUp
  <2>. QED
    BY <2>1, <2>2, <2>3 DEF Stored
<1>6. CASE init_output_frame
  <2>1. FifoFits'
    BY <1>6 DEF init_output_frame, leave_loop, send_data, stream, Stored, FifoFits, FifoIsTheTail
  <2>2. TimeStampsInPlace' /\ Drained' /\ CatchesUp'
    BY <1>6 DEF init_output_frame, leave_loop, send_data, stream, Stored, TimeStampsInPlace,
                InPlace, Drained, HasPacket, CatchesUp
  <2>. QED
    BY <2>1, <2>2 DEF Stored
<1>7. CASE fifo_read
  <2>1. CASE /\ leave_loop({"cut"}) /\ UNCHANGED <<fifo, frame, pts>>
    BY <1>7, <2>1, StoredFrame DEF fifo_read, leave_loop, send_data
  <2>2. CASE /\ frame' = [pts |-> pts, samples |-> SubSeq(fifo, 1, FrameSize)]
             /\ fifo' = SubSeq(fifo, FrameSize + 1, Len(fifo))
             /\ pts' = pts + FrameSize
             /\ pc' = "send_frame"
             /\ failed' = failed
    <3>1. FrameSize \in Nat /\ FrameSize <= accepted - pts
      BY <1>0, <1>7 DEF fifo_read, Stored, FifoFits
    <3>2. SubSeq(fifo, 1, FrameSize) = Run(pts, FrameSize)
          /\ SubSeq(fifo, FrameSize + 1, Len(fifo)) = Run(pts + FrameSize, (accepted - pts) - FrameSize)
      <4> DEFINE m == accepted - pts
      <4>1. m \in Nat /\ FrameSize <= m /\ Len(fifo) = m /\ fifo = Run(pts, m)
        BY <1>0, <3>1
      <4> HIDE DEF m
      <4>2. pts \in Nat /\ FrameSize \in Nat
        BY <1>0
      <4>3. SubSeq(Run(pts, m), 1, FrameSize) = Run(pts, FrameSize)
        BY <4>1, <4>2, RunFront
      <4>4. SubSeq(Run(pts, m), FrameSize + 1, m) = Run(pts + FrameSize, m - FrameSize)
        BY <4>1, <4>2, RunBack
      <4>. QED
        BY <4>1, <4>3, <4>4 DEF m
    <3>3. /\ accepted' = accepted /\ pts' <= accepted
          /\ accepted' - pts' = (accepted - pts) - FrameSize
          /\ UNCHANGED <<encoder, output>> /\ pc = "fifo_read"
      BY <1>0, <1>7, <2>2, <3>1 DEF fifo_read
    <3>4. FifoFits'
      BY <2>2, <3>2, <3>3 DEF FifoFits, FifoIsTheTail
    <3>5. frame'.pts = pts /\ frame'.samples = Run(pts, FrameSize)
      BY <2>2, <3>2
    <3>6. TimeStampsInPlace'
      BY <3>3, <3>5 DEF Stored, TimeStampsInPlace, InPlace
    <3>7. Drained' /\ CatchesUp'
      BY <2>2, <3>3 DEF Stored, Drained, HasPacket, CatchesUp
    <3>. QED
      BY <3>4, <3>6, <3>7 DEF Stored
  <2>. QED
    BY <1>7, <2>1, <2>2 DEF fifo_read
<1>8. CASE send_frame
  <2>1. FifoFits'
    BY <1>8 DEF send_frame, leave_loop, send_data, Stored, FifoFits, FifoIsTheTail
  <2>2. Drained' /\ CatchesUp'
    BY <1>8 DEF send_frame, leave_loop, send_data, Stored, Drained, HasPacket, CatchesUp
  <2>3. \A i \in DOMAIN encoder' : InPlace(encoder'[i])
    <3>1. encoder \in Seq(Frame) /\ frame \in Frame /\ InPlace(frame)
      BY <1>8 DEF send_frame, Counted, TypeOK, Stored, TimeStampsInPlace
    <3>2. CASE encoder' = encoder
      BY <3>2 DEF Stored, TimeStampsInPlace
    <3>3. CASE encoder' = Append(encoder, frame)
      <4>1. /\ encoder' \in Seq(Frame) /\ Len(encoder') = Len(encoder) + 1
            /\ \A i \in 1..Len(encoder) : encoder'[i] = encoder[i]
            /\ encoder'[Len(encoder) + 1] = frame
        BY <3>1, <3>3, AppendProperties
      <4>2. \A i \in 1..Len(encoder) : InPlace(encoder[i])
        BY <3>1 DEF Stored, TimeStampsInPlace
      <4>3. ASSUME NEW i \in 1..Len(encoder') PROVE InPlace(encoder'[i])
        BY <3>1, <4>1, <4>2
      <4>. QED
        BY <4>1, <4>3
    <3>. QED
      BY <1>8, <3>2, <3>3 DEF send_frame
  <2>4. TimeStampsInPlace'
    BY <1>8, <2>3 DEF send_frame, leave_loop, send_data, Stored, TimeStampsInPlace, InPlace
  <2>. QED
    BY <2>1, <2>2, <2>4 DEF Stored
<1>9. CASE receive_packet
  <2>1. FifoFits' /\ CatchesUp'
    BY <1>9 DEF receive_packet, Stored, FifoFits, FifoIsTheTail, CatchesUp
  <2>2. Drained'
    BY <1>9 DEF receive_packet, Drained, HasPacket
  <2>3. encoder # << >> =>
          /\ Tail(encoder) \in Seq(Frame) /\ Len(Tail(encoder)) = Len(encoder) - 1
          /\ \A i \in 1..Len(encoder) - 1 : Tail(encoder)[i] = encoder[i + 1]
          /\ Head(encoder) \in Frame /\ Head(encoder) = encoder[1]
    BY HeadTailProperties DEF Counted, TypeOK
  <2>4. \A i \in 1..Len(encoder) : InPlace(encoder[i])
    BY DEF Counted, TypeOK, Stored, TimeStampsInPlace
  <2>5. HasPacket => encoder # << >>
    BY DEF HasPacket
  <2>6. \A i \in DOMAIN encoder' : InPlace(encoder'[i])
    <3>1. CASE encoder' = encoder
      BY <3>1 DEF Stored, TimeStampsInPlace
    <3>2. CASE encoder # << >> /\ encoder' = Tail(encoder)
      <4>1. Len(encoder) \in Nat
        BY DEF Counted, TypeOK
      <4>2. ASSUME NEW i \in 1..Len(encoder) - 1 PROVE InPlace(Tail(encoder)[i])
        <5>1. i + 1 \in 1..Len(encoder) /\ Tail(encoder)[i] = encoder[i + 1]
          BY <2>3, <3>2, <4>1
        <5>. QED
          BY <2>4, <5>1
      <4>. QED
        BY <2>3, <3>2, <4>2
    <3>. QED
      BY <1>9, <2>5, <3>1, <3>2 DEF receive_packet
  <2>7. \A i \in DOMAIN output' : InPlace(output'[i])
    <3>1. CASE output' = output
      BY <3>1 DEF Stored, TimeStampsInPlace
    <3>2. CASE encoder # << >> /\ output' = Append(output, Head(encoder))
      <4>1. /\ output' \in Seq(Frame) /\ Len(output') = Len(output) + 1
            /\ \A i \in 1..Len(output) : output'[i] = output[i]
            /\ output'[Len(output) + 1] = Head(encoder)
        BY <2>3, <3>2, AppendProperties DEF Counted, TypeOK
      <4>2. InPlace(Head(encoder))
        <5>1. Len(encoder) \in Nat \ {0}
          BY <3>2, EmptySeq DEF Counted, TypeOK
        <5>. QED
          BY <2>3, <2>4, <3>2, <5>1
      <4>3. output \in Seq(Frame) /\ \A i \in 1..Len(output) : InPlace(output[i])
        BY DEF Counted, TypeOK, Stored, TimeStampsInPlace
      <4>4. ASSUME NEW i \in 1..Len(output') PROVE InPlace(output'[i])
        BY <4>1, <4>2, <4>3
      <4>. QED
        BY <4>1, <4>4
    <3>. QED
      BY <1>9, <2>5, <3>1, <3>2 DEF receive_packet
  <2>8. TimeStampsInPlace'
    BY <1>9, <2>6, <2>7 DEF receive_packet, TimeStampsInPlace
  <2>. QED
    BY <2>1, <2>2, <2>8 DEF Stored
<1>10. CASE UNCHANGED vars
  BY <1>10 DEF vars, Stored, FifoFits, FifoIsTheTail, TimeStampsInPlace, InPlace, Drained,
               HasPacket, CatchesUp
<1>. QED
  BY <1>1, <1>2, <1>3, <1>4, <1>5, <1>6, <1>7, <1>8, <1>9, <1>10 DEF Next, Handler

\* Both hold in every reachable state.
LEMMA PipelineInvariant == Spec => [](Counted /\ Stored)
<1>1. Counted /\ Stored /\ [Next]_vars => (Counted /\ Stored)'
  BY CountedStep, StoredStep
<1>. QED
  BY <1>1, PipelineInit, PTL DEF Spec

(***************************************************************************)
(* TypeOK: in particular no path frees what is not allocated.              *)
(***************************************************************************)
THEOREM PipelineTypeCorrect == Spec => []TypeOK
<1>1. Counted => TypeOK
  BY DEF Counted
<1>. QED
  BY <1>1, PipelineInvariant, PTL

(***************************************************************************)
(* NothingLeaks: every path through the handler frees what it allocated.   *)
(***************************************************************************)
THEOREM NoLeak == Spec => []NothingLeaks
<1>1. Counted => NothingLeaks
  BY DEF Counted, HeapFits, NothingLeaks, Objects
<1>. QED
  BY <1>1, PipelineInvariant, PTL

(***************************************************************************)
(* AnswerIsTrue: a response means the whole block, an error none of it.    *)
(***************************************************************************)
THEOREM TrueAnswer == Spec => []AnswerIsTrue
<1>1. Counted => AnswerIsTrue
  BY DEF Counted
<1>. QED
  BY <1>1, PipelineInvariant, PTL

(***************************************************************************)
(* FifoIsTheTail: the FIFO never loses, doubles or reorders a sample.      *)
(***************************************************************************)
THEOREM FifoIntact == Spec => []FifoIsTheTail
<1>1. Stored => FifoIsTheTail
  BY DEF Stored, FifoFits
<1>. QED
  BY <1>1, PipelineInvariant, PTL

(***************************************************************************)
(* TimeStampsInPlace: no failure shifts the audio against its time stamps. *)
(***************************************************************************)
THEOREM NoDrift == Spec => []TimeStampsInPlace
<1>1. Stored => TimeStampsInPlace
  BY DEF Stored
<1>. QED
  BY <1>1, PipelineInvariant, PTL

(***************************************************************************)
(* EncoderDrained: avcodec_send_frame never lacks room by the code's doing. *)
(***************************************************************************)
THEOREM RoomInTheEncoder == Spec => []EncoderDrained
<1>1. Stored => EncoderDrained
  BY DEF Stored, Drained, EncoderDrained
<1>. QED
  BY <1>1, PipelineInvariant, PTL

(***************************************************************************)
(* CatchesUp: only a failed call or a stuck encoder leaves a backlog.      *)
(***************************************************************************)
THEOREM BacklogIsExcused == Spec => []CatchesUp
<1>1. Stored => CatchesUp
  BY DEF Stored
<1>. QED
  BY <1>1, PipelineInvariant, PTL

-----------------------------------------------------------------------------
(***************************************************************************)
(* Where the samples are.  Beyond EachSampleOnce the induction needs that  *)
(* no two frames in the encoder share a sample, so that the one taken out  *)
(* is gone from it, and that the frame is empty unless it is to be sent.   *)
(***************************************************************************)
InFrames(s) == UNION {Held(s[i]) : i \in DOMAIN s}
Distinct == \A i, j \in DOMAIN encoder : i # j => Held(encoder[i]) \cap Held(encoder[j]) = {}
FrameFits == pc # "send_frame" => frame = NoFrame
Partition(f, r, e, o, l, n) ==
    /\ f \cup r \cup e \cup o \cup l = 1..n
    /\ f \cap r = {} /\ f \cap e = {} /\ f \cap o = {} /\ f \cap l = {}
    /\ r \cap e = {} /\ r \cap o = {} /\ r \cap l = {}
    /\ e \cap o = {} /\ e \cap l = {}
    /\ o \cap l = {}
Placed == Partition(Numbers(fifo), Held(frame), InFrames(encoder), InFrames(output), lost, accepted)
Accounted == Placed /\ Distinct /\ FrameFits /\ LossNeedsFailure

\* The five places of EachSampleOnce, written out pair by pair.
LEMMA PlacedIsEachSampleOnce == Placed <=> EachSampleOnce
<1> DEFINE D == {"fifo", "frame", "encoder", "output", "lost"}
<1>1. /\ DOMAIN Places = D
      /\ Places["fifo"] = Numbers(fifo) /\ Places["frame"] = Held(frame)
      /\ Places["encoder"] = InFrames(encoder) /\ Places["output"] = InFrames(output)
      /\ Places["lost"] = lost
  BY DEF Places, InFrames
<1>2. UNION {Places[p] : p \in D}
        = Places["fifo"] \cup Places["frame"] \cup Places["encoder"] \cup Places["output"]
            \cup Places["lost"]
  OBVIOUS
<1>3. (\A p, q \in D : p # q => Places[p] \cap Places[q] = {})
        <=> /\ Places["fifo"] \cap Places["frame"] = {}
            /\ Places["fifo"] \cap Places["encoder"] = {}
            /\ Places["fifo"] \cap Places["output"] = {}
            /\ Places["fifo"] \cap Places["lost"] = {}
            /\ Places["frame"] \cap Places["encoder"] = {}
            /\ Places["frame"] \cap Places["output"] = {}
            /\ Places["frame"] \cap Places["lost"] = {}
            /\ Places["encoder"] \cap Places["output"] = {}
            /\ Places["encoder"] \cap Places["lost"] = {}
            /\ Places["output"] \cap Places["lost"] = {}
  OBVIOUS
<1>. QED
  BY <1>1, <1>2, <1>3 DEF Placed, Partition, EachSampleOnce

\* The samples of a run are an interval.
LEMMA RunNumbers ==
    ASSUME NEW n \in Nat, NEW m \in Nat
    PROVE  Numbers(Run(n, m)) = n + 1 .. n + m
<1>1. DOMAIN Run(n, m) = 1..m /\ \A i \in 1..m : Run(n, m)[i] = n + i
  BY DEF Run
<1>2. ASSUME NEW x \in n + 1 .. n + m PROVE x \in Numbers(Run(n, m))
  <2>1. x - n \in 1..m /\ n + (x - n) = x
    OBVIOUS
  <2>. QED
    BY <1>1, <2>1 DEF Numbers
<1>3. ASSUME NEW x \in Numbers(Run(n, m)) PROVE x \in n + 1 .. n + m
  <2>1. PICK i \in 1..m : x = n + i
    BY <1>1 DEF Numbers
  <2>. QED
    BY <2>1
<1>. QED
  BY <1>2, <1>3

\* A frame that joins a sequence of frames adds its samples to theirs.
LEMMA FramesAppend ==
    ASSUME NEW s \in Seq(Frame), NEW f \in Frame
    PROVE  InFrames(Append(s, f)) = InFrames(s) \cup Held(f)
<1>1. /\ DOMAIN Append(s, f) = 1..(Len(s) + 1) /\ DOMAIN s = 1..Len(s) /\ Len(s) \in Nat
      /\ \A i \in 1..Len(s) : Append(s, f)[i] = s[i]
      /\ Append(s, f)[Len(s) + 1] = f
  BY AppendProperties
<1>2. 1..(Len(s) + 1) = (1..Len(s)) \cup {Len(s) + 1}
  BY <1>1
<1>3. ASSUME NEW x PROVE x \in InFrames(Append(s, f)) <=> x \in InFrames(s) \cup Held(f)
  <2>1. x \in InFrames(Append(s, f)) <=> \E i \in 1..(Len(s) + 1) : x \in Held(Append(s, f)[i])
    BY <1>1 DEF InFrames
  <2>2. x \in InFrames(s) <=> \E i \in 1..Len(s) : x \in Held(s[i])
    BY <1>1 DEF InFrames
  <2>. QED
    BY <1>1, <1>2, <2>1, <2>2
<1>. QED
  BY <1>3

\* The first frame of a sequence and the others.
LEMMA FramesTail ==
    ASSUME NEW s \in Seq(Frame), s # << >>
    PROVE  InFrames(s) = Held(Head(s)) \cup InFrames(Tail(s))
<1>1. /\ DOMAIN s = 1..Len(s) /\ Len(s) \in Nat /\ Len(s) # 0
      /\ DOMAIN Tail(s) = 1..(Len(s) - 1)
      /\ Head(s) = s[1] /\ \A i \in 1..(Len(s) - 1) : Tail(s)[i] = s[i + 1]
  BY HeadTailProperties, EmptySeq
<1>2. ASSUME NEW x PROVE x \in InFrames(s) <=> x \in Held(Head(s)) \cup InFrames(Tail(s))
  <2>1. x \in InFrames(s) <=> \E i \in 1..Len(s) : x \in Held(s[i])
    BY <1>1 DEF InFrames
  <2>2. x \in InFrames(Tail(s)) <=> \E i \in 1..(Len(s) - 1) : x \in Held(Tail(s)[i])
    BY <1>1 DEF InFrames
  <2>3. ASSUME NEW i \in 1..Len(s), x \in Held(s[i])
        PROVE  x \in Held(Head(s)) \cup InFrames(Tail(s))
    <3>1. CASE i = 1
      BY <1>1, <2>3, <3>1
    <3>2. CASE i # 1
      <4>1. i - 1 \in 1..(Len(s) - 1) /\ Tail(s)[i - 1] = s[i]
        <5>1. i - 1 \in 1..(Len(s) - 1) /\ (i - 1) + 1 = i
          BY <1>1, <3>2
        <5>. QED
          BY <1>1, <5>1
      <4>. QED
        BY <2>2, <2>3, <4>1
    <3>. QED
      BY <3>1, <3>2
  <2>4. ASSUME NEW i \in 1..(Len(s) - 1), x \in Held(Tail(s)[i]) PROVE x \in InFrames(s)
    <3>1. i + 1 \in 1..Len(s)
      BY <1>1
    <3>. QED
      BY <1>1, <2>1, <2>4, <3>1
  <2>5. x \in Held(Head(s)) => x \in InFrames(s)
    <3>1. 1 \in 1..Len(s)
      BY <1>1
    <3>. QED
      BY <1>1, <2>1, <3>1
  <2>. QED
    BY <2>1, <2>2, <2>3, <2>4, <2>5
<1>. QED
  BY <1>2

\* When no two frames share a sample, the first one shares none with the others.
LEMMA HeadApart ==
    ASSUME encoder \in Seq(Frame), encoder # << >>, Distinct
    PROVE  /\ Held(Head(encoder)) \cap InFrames(Tail(encoder)) = {}
           /\ \A i, j \in DOMAIN Tail(encoder) :
                 i # j => Held(Tail(encoder)[i]) \cap Held(Tail(encoder)[j]) = {}
<1>1. /\ DOMAIN encoder = 1..Len(encoder) /\ Len(encoder) \in Nat /\ Len(encoder) # 0
      /\ DOMAIN Tail(encoder) = 1..(Len(encoder) - 1)
      /\ Head(encoder) = encoder[1]
      /\ \A i \in 1..(Len(encoder) - 1) : Tail(encoder)[i] = encoder[i + 1]
  BY HeadTailProperties, EmptySeq
<1>2. ASSUME NEW i \in 1..(Len(encoder) - 1)
      PROVE  Held(Head(encoder)) \cap Held(Tail(encoder)[i]) = {}
  <2>1. 1 \in 1..Len(encoder) /\ i + 1 \in 1..Len(encoder) /\ i + 1 # 1
    BY <1>1
  <2>2. Held(encoder[1]) \cap Held(encoder[i + 1]) = {}
    BY <1>1, <2>1 DEF Distinct
  <2>. QED
    BY <1>1, <2>2
<1>3. ASSUME NEW i \in 1..(Len(encoder) - 1), NEW j \in 1..(Len(encoder) - 1), i # j
      PROVE  Held(Tail(encoder)[i]) \cap Held(Tail(encoder)[j]) = {}
  <2>1. i + 1 \in 1..Len(encoder) /\ j + 1 \in 1..Len(encoder) /\ i + 1 # j + 1
    BY <1>1, <1>3
  <2>2. Held(encoder[i + 1]) \cap Held(encoder[j + 1]) = {}
    BY <1>1, <2>1 DEF Distinct
  <2>. QED
    BY <1>1, <2>2
<1>4. ASSUME NEW x \in InFrames(Tail(encoder)) PROVE x \notin Held(Head(encoder))
  BY <1>1, <1>2, <1>4 DEF InFrames
<1>. QED
  BY <1>1, <1>3, <1>4

\* Nothing is anywhere yet.
LEMMA AccountedInit == Init => Accounted
<1> SUFFICES ASSUME Init PROVE Accounted
  OBVIOUS
<1>1. /\ fifo = << >> /\ encoder = << >> /\ output = << >> /\ frame.samples = << >>
      /\ accepted = 0 /\ lost = {}
  BY DEF Init, NoFrame
<1>2. Numbers(<< >>) = {} /\ InFrames(<< >>) = {} /\ 1..0 = {} /\ Held(frame) = {}
  BY <1>1 DEF Numbers, InFrames, Held
<1>3. Placed
  BY <1>1, <1>2 DEF Placed, Partition
<1>4. Distinct /\ FrameFits /\ LossNeedsFailure
  BY <1>1 DEF Init, Distinct, FrameFits, LossNeedsFailure
<1>. QED
  BY <1>3, <1>4 DEF Accounted

\* The calls that move no sample.
LEMMA AccountedFrame ==
    ASSUME Accounted, UNCHANGED <<fifo, frame, encoder, output, lost, accepted>>,
           pc' # "send_frame" => pc # "send_frame", failed \subseteq failed' \cup {"cut"}
    PROVE  Accounted'
<1>1. Placed'
  BY DEF Accounted, Placed, InFrames, Held, Numbers
<1>2. Distinct'
  BY DEF Accounted, Distinct, Held, Numbers
<1>3. FrameFits' /\ LossNeedsFailure'
  BY DEF Accounted, FrameFits, LossNeedsFailure
<1>. QED
  BY <1>1, <1>2, <1>3 DEF Accounted

\* Each call moves samples from one place to one other, or names the loss.
LEMMA AccountedStep == Counted /\ Stored /\ Accounted /\ [Next]_vars => Accounted'
<1> SUFFICES ASSUME Counted, Stored, Accounted, [Next]_vars PROVE Accounted'
  OBVIOUS
<1>0. /\ pts \in Nat /\ accepted \in Nat /\ block \in Nat /\ pts <= accepted
      /\ encoder \in Seq(Frame) /\ output \in Seq(Frame) /\ frame \in Frame
      /\ Numbers(fifo) = pts + 1 .. accepted
  <2> DEFINE m == accepted - pts
  <2>1. /\ pts \in Nat /\ accepted \in Nat /\ block \in Nat /\ pts <= accepted
        /\ encoder \in Seq(Frame) /\ output \in Seq(Frame) /\ frame \in Frame
    BY DEF Counted, TypeOK, Stored, FifoFits
  <2>2. m \in Nat /\ pts + m = accepted /\ fifo = Run(pts, m)
    BY <2>1 DEF Stored, FifoFits, FifoIsTheTail
  <2> HIDE DEF m
  <2>. QED
    BY <2>1, <2>2, RunNumbers
<1>1. ASSUME NEW n \in BlockSizes, Begin(n) PROVE Accounted'
  BY <1>1, AccountedFrame DEF Begin, stream
<1>2. CASE init_converted_samples
  BY <1>2, AccountedFrame DEF init_converted_samples, stream
<1>3. CASE convert_samples
  BY <1>3, AccountedFrame DEF convert_samples, Crash, stream
<1>4. CASE add_samples_to_fifo
  <2>1. CASE UNCHANGED <<fifo, accepted>>
    BY <1>4, <2>1, AccountedFrame DEF add_samples_to_fifo, Crash
  <2>2. CASE accepted' = accepted + block /\ pc' = "size"
    <3>1. UNCHANGED <<frame, encoder, output, lost, pts, failed>>
      BY <1>4, <2>2 DEF add_samples_to_fifo, Crash, send_data
    <3>2. FifoFits'
      BY StoredStep DEF Stored
    <3>3. Numbers(fifo') = pts + 1 .. accepted + block
      <4> DEFINE m == accepted' - pts
      <4>1. m \in Nat /\ pts + m = accepted + block /\ fifo' = Run(pts, m)
        BY <1>0, <2>2, <3>1, <3>2 DEF FifoFits, FifoIsTheTail
      <4> HIDE DEF m
      <4>2. Numbers(Run(pts, m)) = pts + 1 .. pts + m
        BY <1>0, <4>1, RunNumbers
      <4>. QED
        BY <4>1, <4>2
    <3> DEFINE N == accepted + 1 .. accepted + block
    <3>4. /\ Numbers(fifo') = Numbers(fifo) \cup N
          /\ 1 .. accepted' = (1..accepted) \cup N
          /\ (1..accepted) \cap N = {}
      BY <1>0, <2>2, <3>3
    <3> HIDE DEF N
    <3>5. Placed'
      BY <3>1, <3>4 DEF Accounted, Placed, Partition
    <3>6. Distinct' /\ FrameFits' /\ LossNeedsFailure'
      BY <1>4, <3>1 DEF add_samples_to_fifo, Accounted, Distinct, FrameFits, LossNeedsFailure, Held
    <3>. QED
      BY <3>5, <3>6 DEF Accounted
  <2>. QED
    BY <1>4, <2>1, <2>2 DEF add_samples_to_fifo
<1>5. CASE fifo_size
  BY <1>5, AccountedFrame DEF fifo_size, stream
<1>6. CASE init_output_frame
  BY <1>6, AccountedFrame DEF init_output_frame, leave_loop, stream
<1>7. CASE fifo_read
  <2>1. CASE UNCHANGED <<fifo, frame, pts>> /\ leave_loop({"cut"})
    BY <1>7, <2>1, AccountedFrame DEF fifo_read, leave_loop
  <2>2. CASE /\ frame' = [pts |-> pts, samples |-> SubSeq(fifo, 1, FrameSize)]
             /\ pts' = pts + FrameSize
             /\ pc' = "send_frame" /\ failed' = failed
    <3>1. UNCHANGED <<encoder, output, lost, accepted>> /\ frame = NoFrame
      BY <1>7 DEF fifo_read, Accounted, FrameFits
    <3>2. FifoFits' /\ InPlace(frame')
      BY <2>2, StoredStep DEF Stored, TimeStampsInPlace, InPlace
    <3>3. FrameSize \in Nat /\ pts + FrameSize <= accepted
      BY <1>0, <2>2, <3>1, <3>2 DEF FifoFits
    <3>4. Numbers(fifo') = pts + FrameSize + 1 .. accepted
      <4> DEFINE m == accepted' - pts'
      <4>1. m \in Nat /\ pts' + m = accepted /\ fifo' = Run(pts', m) /\ pts' \in Nat
        BY <1>0, <2>2, <3>1, <3>2, <3>3 DEF FifoFits, FifoIsTheTail
      <4> HIDE DEF m
      <4>2. Numbers(fifo') = pts' + 1 .. accepted
        BY <4>1, RunNumbers
      <4>. QED
        BY <2>2, <4>2
    <3>5. Held(frame') = pts + 1 .. pts + FrameSize
      BY <1>0, <2>2, <3>2, <3>3, RunNumbers DEF InPlace, Held
    <3>6. Held(frame) = {}
      BY <3>1 DEF NoFrame, Held, Numbers
    <3>7. /\ Numbers(fifo) = Numbers(fifo') \cup Held(frame')
          /\ Numbers(fifo') \cap Held(frame') = {}
      BY <1>0, <3>3, <3>4, <3>5
    <3>8. Placed'
      BY <3>1, <3>6, <3>7 DEF Accounted, Placed, Partition
    <3>9. Distinct' /\ FrameFits' /\ LossNeedsFailure'
      BY <2>2, <3>1 DEF Accounted, Distinct, FrameFits, LossNeedsFailure, Held
    <3>. QED
      BY <3>8, <3>9 DEF Accounted
  <2>. QED
    BY <1>7, <2>1, <2>2 DEF fifo_read
<1>8. CASE send_frame
  <2>1. /\ UNCHANGED <<fifo, output, accepted>> /\ frame' = NoFrame /\ Held(frame') = {}
        /\ FrameFits'
    BY <1>8 DEF send_frame, NoFrame, Held, Numbers, FrameFits
  <2>2. CASE /\ leave_loop(IF HasPacket THEN {} ELSE {"cut", "send"})
             /\ lost' = lost \cup Numbers(frame.samples)
             /\ UNCHANGED encoder
    <3>1. lost' = lost \cup Held(frame)
      BY <2>2 DEF Held
    <3>2. Placed'
      BY <2>1, <2>2, <3>1 DEF Accounted, Placed, Partition
    <3>3. HasPacket => "receive" \in failed
      BY <1>8 DEF send_frame, Stored, Drained
    <3>4. LossNeedsFailure'
      BY <2>2, <3>3 DEF leave_loop, LossNeedsFailure
    <3>5. Distinct'
      BY <2>2 DEF Accounted, Distinct, Held
    <3>. QED
      BY <2>1, <3>2, <3>4, <3>5 DEF Accounted
  <2>3. CASE encoder' = Append(encoder, frame) /\ UNCHANGED <<lost, failed>>
    <3>1. InFrames(encoder') = InFrames(encoder) \cup Held(frame)
      BY <1>0, <2>3, FramesAppend
    <3>2. Placed'
      BY <2>1, <2>3, <3>1 DEF Accounted, Placed, Partition
    <3>3. LossNeedsFailure'
      BY <2>3 DEF Accounted, LossNeedsFailure
    <3>4. Distinct'
      <4>1. /\ DOMAIN encoder' = 1..(Len(encoder) + 1) /\ DOMAIN encoder = 1..Len(encoder)
            /\ Len(encoder) \in Nat
            /\ \A i \in 1..Len(encoder) : encoder'[i] = encoder[i]
            /\ encoder'[Len(encoder) + 1] = frame
        BY <1>0, <2>3, AppendProperties
      <4>2. \A i \in DOMAIN encoder : Held(encoder[i]) \cap Held(frame) = {}
        BY DEF Accounted, Placed, Partition, InFrames
      <4>3. \A i \in DOMAIN encoder' : i \in DOMAIN encoder \/ i = Len(encoder) + 1
        BY <4>1
      <4>4. ASSUME NEW i \in DOMAIN encoder', NEW j \in DOMAIN encoder', i # j
            PROVE  Held(encoder'[i]) \cap Held(encoder'[j]) = {}
        <5>1. CASE i \in DOMAIN encoder /\ j \in DOMAIN encoder
          BY <4>1, <4>4, <5>1 DEF Accounted, Distinct
        <5>2. CASE i \in DOMAIN encoder /\ j = Len(encoder) + 1
          BY <4>1, <4>2, <5>2
        <5>3. CASE i = Len(encoder) + 1 /\ j \in DOMAIN encoder
          BY <4>1, <4>2, <5>3
        <5>. QED
          BY <4>3, <4>4, <5>1, <5>2, <5>3
      <4>. QED
        BY <4>4 DEF Distinct, Held
    <3>. QED
      BY <2>1, <3>2, <3>3, <3>4 DEF Accounted
  <2>. QED
    BY <1>8, <2>2, <2>3 DEF send_frame
<1>9. CASE receive_packet
  <2>1. /\ UNCHANGED <<fifo, frame, accepted>> /\ FrameFits' /\ failed \subseteq failed'
    BY <1>9 DEF receive_packet, Accounted, FrameFits
  <2>2. CASE UNCHANGED <<encoder, output, lost>>
    BY <1>9, <2>1, <2>2, AccountedFrame DEF receive_packet
  <2>3. CASE /\ encoder # << >> /\ encoder' = Tail(encoder)
             /\ \/ output' = Append(output, Head(encoder)) /\ UNCHANGED <<lost, failed>>
                \/ /\ lost' = lost \cup Numbers(Head(encoder).samples) /\ UNCHANGED output
                   /\ failed' \cap {"receive", "write"} # {}
    <3>1. /\ InFrames(encoder) = Held(Head(encoder)) \cup InFrames(encoder')
          /\ Head(encoder) \in Frame
      BY <1>0, <2>3, FramesTail, HeadTailProperties
    <3>2. Held(Head(encoder)) \cap InFrames(encoder') = {} /\ Distinct'
      BY <1>0, <2>3, HeadApart DEF Accounted, Distinct, Held
    <3>3. CASE output' = Append(output, Head(encoder)) /\ UNCHANGED <<lost, failed>>
      <4>1. InFrames(output') = InFrames(output) \cup Held(Head(encoder))
        BY <1>0, <3>1, <3>3, FramesAppend
      <4>2. Placed'
        BY <2>1, <3>1, <3>2, <3>3, <4>1 DEF Accounted, Placed, Partition
      <4>3. LossNeedsFailure'
        BY <3>3 DEF Accounted, LossNeedsFailure
      <4>. QED
        BY <2>1, <3>2, <4>2, <4>3 DEF Accounted
    <3>4. CASE /\ lost' = lost \cup Numbers(Head(encoder).samples) /\ UNCHANGED output
               /\ failed' \cap {"receive", "write"} # {}
      <4>1. lost' = lost \cup Held(Head(encoder))
        BY <3>4 DEF Held
      <4>2. Placed'
        BY <2>1, <3>1, <3>2, <3>4, <4>1 DEF Accounted, Placed, Partition
      <4>3. LossNeedsFailure'
        BY <3>4 DEF LossNeedsFailure
      <4>. QED
        BY <2>1, <3>2, <4>2, <4>3 DEF Accounted
    <3>. QED
      BY <2>3, <3>3, <3>4
  <2>4. HasPacket => encoder # << >>
    BY DEF HasPacket
  <2>. QED
    BY <1>9, <2>2, <2>3, <2>4 DEF receive_packet
<1>10. CASE UNCHANGED vars
  BY <1>10, AccountedFrame DEF vars
<1>. QED
  BY <1>1, <1>2, <1>3, <1>4, <1>5, <1>6, <1>7, <1>8, <1>9, <1>10 DEF Next, Handler

\* The samples are accounted for in every reachable state.
LEMMA AccountedInvariant == Spec => []Accounted
<1>1. Counted /\ Stored /\ Accounted /\ [Next]_vars => Accounted'
  BY AccountedStep
<1>. QED
  BY <1>1, AccountedInit, PipelineInvariant, PTL DEF Spec

(***************************************************************************)
(* EachSampleOnce: whatever fails, every accepted sample is in exactly one *)
(* of the FIFO, the frame, the encoder, the file and the losses.           *)
(***************************************************************************)
THEOREM SamplesAccounted == Spec => []EachSampleOnce
<1>1. Accounted => EachSampleOnce
  BY PlacedIsEachSampleOnce DEF Accounted
<1>. QED
  BY <1>1, AccountedInvariant, PTL

(***************************************************************************)
(* LossNeedsFailure: an encoder without room is the consequence of an      *)
(* earlier failure to receive, so that no sample is lost without one.      *)
(***************************************************************************)
THEOREM NoSilentLoss == Spec => []LossNeedsFailure
<1>1. Accounted => LossNeedsFailure
  BY DEF Accounted
<1>. QED
  BY <1>1, AccountedInvariant, PTL
-----------------------------------------------------------------------------
(***************************************************************************)
(* Pipeline implements Stream.                                             *)
(***************************************************************************)

\* The names of a sequence of frames.
LEMMA StartsOf ==
    ASSUME NEW s \in Seq(Frame)
    PROVE  /\ Starts(s) \in Seq(Nat) /\ Len(Starts(s)) = Len(s)
           /\ \A i \in 1..Len(s) : Starts(s)[i] = s[i].pts
<1>1. Len(s) \in Nat /\ \A i \in 1..Len(s) : s[i].pts \in Nat
  <2>1. Len(s) \in Nat
    BY LenProperties
  <2>2. \A i \in 1..Len(s) : s[i] \in Frame
    BY ElementOfSeq
  <2>. QED
    BY <2>1, <2>2 DEF Frame
<1>2. Starts(s) = [i \in 1..Len(s) |-> s[i].pts]
  BY DEF Starts
<1>3. Starts(s) \in [1..Len(s) -> Nat]
  BY <1>1, <1>2
<1>4. Starts(s) \in Seq(Nat) /\ Len(Starts(s)) = Len(s)
  BY <1>1, <1>3
<1>. QED
  BY <1>2, <1>4

LEMMA StartsOfAppend ==
    ASSUME NEW s \in Seq(Frame), NEW f \in Frame
    PROVE  Starts(Append(s, f)) = Append(Starts(s), f.pts)
<1>1. f.pts \in Nat
  BY DEF Frame
<1>2. /\ Append(s, f) \in Seq(Frame) /\ Len(Append(s, f)) = Len(s) + 1 /\ Len(s) \in Nat
      /\ \A i \in 1..Len(s) : Append(s, f)[i] = s[i]
      /\ Append(s, f)[Len(s) + 1] = f
  BY AppendProperties
<1>3. /\ Starts(s) \in Seq(Nat) /\ Len(Starts(s)) = Len(s)
      /\ \A i \in 1..Len(s) : Starts(s)[i] = s[i].pts
  BY StartsOf
<1>4. /\ Starts(Append(s, f)) \in Seq(Nat) /\ Len(Starts(Append(s, f))) = Len(s) + 1
      /\ \A i \in 1..(Len(s) + 1) : Starts(Append(s, f))[i] = Append(s, f)[i].pts
  BY <1>2, StartsOf
<1>5. /\ Append(Starts(s), f.pts) \in Seq(Nat)
      /\ Len(Append(Starts(s), f.pts)) = Len(s) + 1
      /\ \A i \in 1..Len(s) : Append(Starts(s), f.pts)[i] = Starts(s)[i]
      /\ Append(Starts(s), f.pts)[Len(s) + 1] = f.pts
  BY <1>1, <1>3, AppendProperties
<1>6. ASSUME NEW i \in 1..(Len(s) + 1)
      PROVE  Starts(Append(s, f))[i] = Append(Starts(s), f.pts)[i]
  <2>1. i \in 1..Len(s) \/ i = Len(s) + 1
    BY <1>2
  <2>2. CASE i \in 1..Len(s)
    BY <1>2, <1>3, <1>4, <1>5, <2>2
  <2>3. CASE i = Len(s) + 1
    BY <1>2, <1>4, <1>5, <2>3
  <2>. QED
    BY <2>1, <2>2, <2>3
<1>. QED
  BY <1>4, <1>5, <1>6, SeqEqual

LEMMA StartsOfTail ==
    ASSUME NEW s \in Seq(Frame), s # << >>
    PROVE  /\ Starts(s) # << >>
           /\ Head(Starts(s)) = Head(s).pts
           /\ Starts(Tail(s)) = Tail(Starts(s))
<1>1. /\ Len(s) \in Nat /\ Len(s) # 0 /\ Head(s) = s[1]
      /\ Tail(s) \in Seq(Frame) /\ Len(Tail(s)) = Len(s) - 1
      /\ \A i \in 1..Len(Tail(s)) : Tail(s)[i] = s[i + 1]
  BY HeadTailProperties, EmptySeq
<1>2. /\ Starts(s) \in Seq(Nat) /\ Len(Starts(s)) = Len(s)
      /\ \A i \in 1..Len(s) : Starts(s)[i] = s[i].pts
  BY StartsOf
<1>3. Starts(s) # << >>
  BY <1>1, <1>2
<1>4. /\ Tail(Starts(s)) \in Seq(Nat) /\ Len(Tail(Starts(s))) = Len(s) - 1
      /\ \A i \in 1..(Len(s) - 1) : Tail(Starts(s))[i] = Starts(s)[i + 1]
      /\ Head(Starts(s)) = Starts(s)[1]
  BY <1>2, <1>3, HeadTailProperties
<1>5. /\ Starts(Tail(s)) \in Seq(Nat) /\ Len(Starts(Tail(s))) = Len(s) - 1
      /\ \A i \in 1..(Len(s) - 1) : Starts(Tail(s))[i] = Tail(s)[i].pts
  BY <1>1, StartsOf
<1>6. ASSUME NEW i \in 1..(Len(s) - 1) PROVE Starts(Tail(s))[i] = Tail(Starts(s))[i]
  <2>1. i + 1 \in 1..Len(s)
    BY <1>1
  <2>. QED
    BY <1>1, <1>2, <1>4, <1>5, <2>1
<1>7. Starts(Tail(s)) = Tail(Starts(s))
  BY <1>4, <1>5, <1>6, SeqEqual
<1>. QED
  BY <1>1, <1>2, <1>3, <1>4, <1>7

\* The frames in flight.
LEMMA FlightIs ==
    ASSUME TypeOK
    PROVE  /\ pc # "send_frame" => Flight = encoder
           /\ pc = "send_frame" => Flight = Append(encoder, frame)
<1>1. encoder \in Seq(Frame) /\ frame \in Frame
  BY DEF TypeOK
<1>2. encoder \o << >> = encoder /\ encoder \o <<frame>> = Append(encoder, frame)
  BY <1>1, ConcatEmptySeq, AppendIsConcat
<1>. QED
  BY <1>2 DEF Flight

\* The frame appended last is the last one.
LEMMA FrontOfAppend ==
    ASSUME NEW s \in Seq(Nat), NEW x \in Nat
    PROVE  /\ Append(s, x) # << >>
           /\ SubSeq(Append(s, x), 1, Len(Append(s, x)) - 1) = s
<1>1. /\ Append(s, x) \in Seq(Nat) /\ Len(Append(s, x)) = Len(s) + 1 /\ Len(s) \in Nat
      /\ \A i \in 1..Len(s) : Append(s, x)[i] = s[i]
  BY AppendProperties
<1>2. Append(s, x) # << >>
  BY <1>1
<1>3. SubSeq(Append(s, x), 1, Len(s)) = [i \in 1..Len(s) |-> Append(s, x)[i]]
  BY <1>1
<1>4. /\ SubSeq(Append(s, x), 1, Len(s)) \in Seq(Nat)
      /\ Len(SubSeq(Append(s, x), 1, Len(s))) = Len(s)
      /\ \A i \in 1..Len(s) : SubSeq(Append(s, x), 1, Len(s))[i] = s[i]
  BY <1>1, <1>3
<1>5. SubSeq(Append(s, x), 1, Len(s)) = s
  BY <1>4, SeqEqual
<1>. QED
  BY <1>1, <1>2, <1>5
-----------------------------------------------------------------------------
(***************************************************************************)
(* The refinement mapping.                                                 *)
(***************************************************************************)
AbstractStutter == UNCHANGED <<accepted, pts, Starts(Flight), Starts(output)>>

LEMMA HandlerRefines ==
    ASSUME Counted, Stored, Counted', [Next]_vars
    PROVE  [Abstract!Next]_(Abstract!vars)
<1>0. TypeOK /\ TypeOK'
  BY DEF Counted
<1>1. /\ encoder \in Seq(Frame) /\ output \in Seq(Frame) /\ frame \in Frame
      /\ pts \in Nat /\ accepted \in Nat /\ block \in Nat /\ accepted' \in Nat
  BY <1>0 DEF TypeOK
<1>2. /\ pc # "send_frame" => Flight = encoder
      /\ pc = "send_frame" => Flight = Append(encoder, frame)
      /\ pc' # "send_frame" => Flight' = encoder'
      /\ pc' = "send_frame" => Flight' = Append(encoder', frame')
  <2>1. /\ pc' # "send_frame" => Flight' = encoder'
        /\ pc' = "send_frame" => Flight' = Append(encoder', frame')
    <3>1. encoder' \in Seq(Frame) /\ frame' \in Frame
      BY <1>0 DEF TypeOK
    <3>2. encoder' \o << >> = encoder' /\ encoder' \o <<frame'>> = Append(encoder', frame')
      BY <3>1, ConcatEmptySeq, AppendIsConcat
    <3>. QED
      BY <3>2 DEF Flight
  <2>. QED
    BY <1>0, <2>1, FlightIs
<1>3. ASSUME AbstractStutter PROVE UNCHANGED Abstract!vars
  BY <1>3 DEF AbstractStutter, Abstract!vars
<1>4. ASSUME pc # "send_frame", pc' # "send_frame", UNCHANGED <<accepted, pts, encoder, output>>
      PROVE  UNCHANGED Abstract!vars
  BY <1>2, <1>3, <1>4 DEF AbstractStutter
<1>5. ASSUME NEW n \in BlockSizes, Begin(n) PROVE UNCHANGED Abstract!vars
  BY <1>4, <1>5 DEF Begin, stream
<1>6. CASE init_converted_samples
  BY <1>4, <1>6 DEF init_converted_samples, send_data, stream
<1>7. CASE convert_samples
  BY <1>4, <1>7 DEF convert_samples, Crash, send_data, stream
<1>8. CASE add_samples_to_fifo
  <2>1. pc # "send_frame" /\ pc' # "send_frame" /\ UNCHANGED <<pts, encoder, output>>
    BY <1>8 DEF add_samples_to_fifo, Crash, send_data
  <2>2. CASE accepted' = accepted
    BY <1>4, <2>1, <2>2
  <2>3. CASE accepted' # accepted
    <3>1. accepted' = accepted + block
      BY <1>8, <2>3 DEF add_samples_to_fifo
    <3>2. accepted' > accepted
      BY <1>1, <2>3, <3>1
    <3>3. UNCHANGED <<pts, Starts(Flight), Starts(output)>>
      BY <1>2, <2>1
    <3>. QED
      BY <1>1, <3>2, <3>3 DEF Abstract!Next, Abstract!Receive
  <2>. QED
    BY <2>2, <2>3
<1>9. CASE fifo_size
  BY <1>4, <1>9 DEF fifo_size, send_data, stream
<1>10. CASE init_output_frame
  BY <1>4, <1>10 DEF init_output_frame, leave_loop, send_data, stream
<1>11. CASE fifo_read
  <2>1. CASE pc' # "send_frame"
    BY <1>4, <1>11, <2>1 DEF fifo_read, leave_loop, send_data
  <2>2. CASE pc' = "send_frame"
    <3>1. /\ pc = "fifo_read" /\ frame'.pts = pts /\ pts' = pts + FrameSize
          /\ UNCHANGED <<encoder, output, accepted>>
      BY <1>11, <2>2 DEF fifo_read, leave_loop, send_data
    <3>2. accepted - pts >= FrameSize
      <4>1. Len(fifo) > FrameSize /\ accepted - pts \in Nat /\ fifo = Run(pts, accepted - pts)
        BY <1>1, <3>1 DEF Stored, FifoFits, FifoIsTheTail
      <4>2. Len(fifo) = accepted - pts
        BY <1>1, <4>1, RunProperties
      <4>. QED
        BY <4>1, <4>2
    <3>3. frame' \in Frame
      BY <1>0 DEF TypeOK
    <3>4. Starts(Flight)' = Append(Starts(Flight), pts)
      BY <1>1, <1>2, <2>2, <3>1, <3>3, StartsOfAppend
    <3>5. UNCHANGED Starts(output)
      BY <3>1
    <3>. QED
      BY <3>1, <3>2, <3>4, <3>5 DEF Abstract!Next, Abstract!Cut
  <2>. QED
    BY <2>1, <2>2
<1>12. CASE send_frame
  <2>1. /\ pc = "send_frame" /\ pc' # "send_frame" /\ UNCHANGED <<accepted, pts, output>>
    BY <1>12 DEF send_frame, leave_loop, send_data
  <2>2. CASE encoder' = Append(encoder, frame)
    BY <1>2, <1>3, <2>1, <2>2 DEF AbstractStutter
  <2>3. CASE encoder' = encoder
    <3>1. frame.pts \in Nat
      BY <1>1 DEF Frame
    <3>2. Starts(Flight) = Append(Starts(encoder), frame.pts) /\ Starts(Flight)' = Starts(encoder)
      BY <1>1, <1>2, <2>1, <2>3, StartsOfAppend
    <3>3. /\ Starts(Flight) # << >>
          /\ Starts(Flight)' = SubSeq(Starts(Flight), 1, Len(Starts(Flight)) - 1)
      BY <1>1, <3>1, <3>2, StartsOf, FrontOfAppend
    <3>4. UNCHANGED Starts(output)
      BY <2>1
    <3>. QED
      BY <2>1, <3>3, <3>4 DEF Abstract!Next, Abstract!Lose
  <2>. QED
    BY <1>12, <2>2, <2>3 DEF send_frame
<1>13. CASE receive_packet
  <2>1. pc # "send_frame" /\ pc' # "send_frame" /\ UNCHANGED <<accepted, pts>>
    BY <1>13 DEF receive_packet
  <2>2. CASE UNCHANGED <<encoder, output>>
    BY <1>4, <2>1, <2>2
  <2>3. CASE encoder # << >> /\ encoder' = Tail(encoder) /\ output' = Append(output, Head(encoder))
    <3>1. Head(encoder) \in Frame
      BY <1>1, <2>3, HeadTailProperties
    <3>2. Starts(output)' = Append(Starts(output), Head(encoder).pts)
      BY <1>1, <2>3, <3>1, StartsOfAppend
    <3>3. /\ Starts(Flight) # << >>
          /\ Head(Starts(Flight)) = Head(encoder).pts
          /\ Starts(Flight)' = Tail(Starts(Flight))
      BY <1>1, <1>2, <2>1, <2>3, StartsOfTail
    <3>. QED
      BY <2>1, <3>2, <3>3 DEF Abstract!Next, Abstract!Write
  <2>4. CASE encoder # << >> /\ encoder' = Tail(encoder) /\ output' = output
    <3>1. /\ Starts(Flight) # << >>
          /\ Starts(Flight)' = Tail(Starts(Flight))
      BY <1>1, <1>2, <2>1, <2>4, StartsOfTail
    <3>2. UNCHANGED Starts(output)
      BY <2>4
    <3>. QED
      BY <2>1, <3>1, <3>2 DEF Abstract!Next, Abstract!Lose
  <2>5. HasPacket => encoder # << >>
    BY <1>1, EmptySeq DEF HasPacket
  <2>. QED
    BY <1>13, <2>2, <2>3, <2>4, <2>5 DEF receive_packet
<1>14. CASE UNCHANGED vars
  BY <1>2, <1>3, <1>14 DEF vars, AbstractStutter, Flight
<1>. QED
  BY <1>5, <1>6, <1>7, <1>8, <1>9, <1>10, <1>11, <1>12, <1>13, <1>14 DEF Next, Handler

LEMMA StreamInit == Init => Abstract!Init
<1> SUFFICES ASSUME Init PROVE Abstract!Init
  OBVIOUS
<1>1. TypeOK
  BY PipelineInit DEF Counted
<1>2. Flight = << >> /\ output = << >> /\ accepted = 0 /\ pts = 0
  BY <1>1, FlightIs DEF Init
<1>3. Starts(<< >>) = << >>
  BY DEF Starts
<1>. QED
  BY <1>2, <1>3 DEF Abstract!Init

(***************************************************************************)
(* Pipeline implements Stream: whatever fails in whatever block, the file   *)
(* is a sequence of frames cut in order from one gapless stream.            *)
(***************************************************************************)
THEOREM PipelineImplementsStream == Spec => ImplementsStream
<1>1. Counted /\ Stored /\ Counted' /\ [Next]_vars => [Abstract!Next]_(Abstract!vars)
  BY HandlerRefines
<1>. QED
  BY <1>1, StreamInit, PipelineInvariant, PTL DEF Spec, ImplementsStream, Abstract!Spec
=============================================================================
