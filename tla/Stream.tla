------------------------------- MODULE Stream -------------------------------
(***************************************************************************)
(* What the audio pipeline makes of the samples it receives, without       *)
(* buffers, errors or answers: samples are received, cut into frames from  *)
(* the front without a gap, and the frames written in order, some of them  *)
(* lost.  A frame is named by the place of its first sample.  Pipeline.tla *)
(* implements it.                                                          *)
(***************************************************************************)
EXTENDS Naturals, Sequences

CONSTANT FrameSize

VARIABLES
    received,       \* how many samples have been received
    cut,            \* how many of them have been cut into frames
    flight,         \* the frames cut, not yet written
    written         \* the frames written

vars == <<received, cut, flight, written>>

Init == received = 0 /\ cut = 0 /\ flight = << >> /\ written = << >>

Receive == /\ received' \in Nat /\ received' > received
           /\ UNCHANGED <<cut, flight, written>>

Cut ==
    /\ received - cut >= FrameSize
    /\ cut' = cut + FrameSize
    /\ flight' = Append(flight, cut)
    /\ UNCHANGED <<received, written>>

Write ==
    /\ flight # << >>
    /\ written' = Append(written, Head(flight))
    /\ flight' = Tail(flight)
    /\ UNCHANGED <<received, cut>>

\* The oldest or the newest frame is lost.
Lose ==
    /\ flight # << >>
    /\ flight' \in {Tail(flight), SubSeq(flight, 1, Len(flight) - 1)}
    /\ UNCHANGED <<received, cut, written>>

Next == Receive \/ Cut \/ Write \/ Lose

Spec == Init /\ [][Next]_vars
=============================================================================
