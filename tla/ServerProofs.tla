---------------------------- MODULE ServerProofs ----------------------------
(***************************************************************************)
(* Proofs about Server, for any clients, any number of failing accepts and *)
(* with or without close.                                                  *)
(***************************************************************************)
EXTENDS Server, SequenceTheorems, TLAPS

USE ServerAssumption

(***************************************************************************)
(* The inductive invariant.                                                *)
(***************************************************************************)

Before == DOMAIN Then \cup {"opened", "failed"}

\* The members open_output_file sets, and the pointers a session then gets.
Opened == Members \ {"fifo"}
Handed == Opened \cup {"pts"}

\* Which members are set follows from how far open_output_file has come.
HeldFits ==
    /\ held \subseteq Opened
    /\ allocated \cap Members \subseteq held
    /\ allocated \cap Owned # {} => "output" \in held
    /\ main \in (DOMAIN Then) \ {"alloc_output_context"} => "output" \in held
    /\ main \in {"open_encoder", "parameters", "init_resampler"} => "encoder" \in held
    /\ main \in {"new_program", "avio_open", "write_header", "opened", "returned"}
         => held = Opened
    /\ main = "alloc_output_context" => allocated = {}

\* Nothing moves before open has succeeded, and everything that moves is complete.
Started ==
    /\ main \in Before => /\ io = "none" /\ ~is_working_
                          /\ accepts = << >> /\ completions = << >>
    /\ io = "none" => Active = {}
    /\ Active # {} => main \in {"asleep", "crashed"}
    /\ is_working_ \/ io = "restart" => held = Opened
    /\ main = "returned" => io = "none"
    /\ closer # "no" => main \in {"asleep", "crashed"}
    /\ \A i \in 1..Len(accepts) : accepts[i] = Handed
    /\ \A i \in 1..Len(completions) : completions[i].context = Handed
    /\ \A c \in Active : context[c] = Handed

\* The accept under way, and the one session that may still come from it.
Flow ==
    /\ OneAccept
    /\ closer # "no" => ~is_working_
    /\ io = "ended" => accepts = << >> /\ completions = << >>
    /\ closer = "no" => late = 0
    /\ closer # "no" =>
         late + Len(accepts) + Len(completions) + (IF io = "restart" THEN 1 ELSE 0) <= 1

Inv == TypeOK /\ HeldFits /\ Started /\ Flow
-----------------------------------------------------------------------------
(***************************************************************************)
(* The operations on the acceptor.                                         *)
(***************************************************************************)

\* Where each call of open_output_file leads, and what it makes.
LEMMA Order ==
    /\ DOMAIN Then = {"alloc_output_context", "codec_name", "new_stream", "find_encoder",
                      "alloc_encoder", "open_encoder", "parameters", "init_resampler",
                      "new_program", "avio_open", "write_header"}
    /\ Then["alloc_output_context"] = "codec_name"
    /\ Then["codec_name"] = "new_stream"
    /\ Then["new_stream"] = "find_encoder"
    /\ Then["find_encoder"] = "alloc_encoder"
    /\ Then["alloc_encoder"] = "open_encoder"
    /\ Then["open_encoder"] = "parameters"
    /\ Then["parameters"] = "init_resampler"
    /\ Then["init_resampler"] = "new_program"
    /\ Then["new_program"] = "avio_open"
    /\ Then["avio_open"] = "write_header"
    /\ Then["write_header"] = "opened"
BY DEF Then

\* An accept that is started joins one queue or the other, with the pointers it copies.
LEMMA StartAccept ==
    ASSUME TypeOK, start_accept, held = Opened,
           \A i \in 1..Len(accepts) : accepts[i] = Handed,
           \A i \in 1..Len(completions) : completions[i].context = Handed
    PROVE  /\ accepts' \in Seq(SUBSET Copied) /\ completions' \in Seq(Completion)
           /\ Len(accepts') + Len(completions') = Len(accepts) + Len(completions) + 1
           /\ \A i \in 1..Len(accepts') : accepts'[i] = Handed
           /\ \A i \in 1..Len(completions') : completions'[i].context = Handed
<1> DEFINE new == [client |-> NoClient, context |-> pointers]
<1>1. pointers = Handed /\ Handed \in SUBSET Copied
  BY DEF pointers, Handed, Opened, Copied
<1>2. new \in Completion /\ new.context = Handed
  BY <1>1 DEF Completion
<1> HIDE DEF new
<1>3. CASE acceptor = "listening"
  <2>1. accepts' = Append(accepts, Handed) /\ completions' = completions
    BY <1>1, <1>3 DEF start_accept
  <2>2. Handed \in SUBSET Copied /\ accepts \in Seq(SUBSET Copied)
    BY <1>1 DEF TypeOK
  <2>3. accepts' \in Seq(SUBSET Copied) /\ Len(accepts') = Len(accepts) + 1
        /\ \A i \in 1..Len(accepts') :
              accepts'[i] = IF i <= Len(accepts) THEN accepts[i] ELSE Handed
    BY <2>1, <2>2, AppendProperties
  <2>. QED
    BY <2>1, <2>2, <2>3 DEF TypeOK
<1>4. CASE acceptor = "closed"
  <2>1. accepts' = accepts /\ completions' = Append(completions, new)
    BY <1>4 DEF start_accept, new
  <2>. QED
    BY <1>2, <2>1, AppendProperties DEF TypeOK
<1>. QED
  BY <1>3, <1>4 DEF TypeOK

\* A completion moves from one queue to the other.
LEMMA CompleteMoves ==
    ASSUME TypeOK, NEW client \in Clients \cup {NoClient}, Complete(client), accepts # << >>,
           \A i \in 1..Len(accepts) : accepts[i] = Handed,
           \A i \in 1..Len(completions) : completions[i].context = Handed
    PROVE  /\ accepts' \in Seq(SUBSET Copied) /\ completions' \in Seq(Completion)
           /\ Len(accepts') + Len(completions') = Len(accepts) + Len(completions)
           /\ \A i \in 1..Len(accepts') : accepts'[i] = Handed
           /\ \A i \in 1..Len(completions') : completions'[i].context = Handed
<1> DEFINE new == [client |-> client, context |-> Head(accepts)]
<1>1. Len(accepts) > 0 /\ Head(accepts) = accepts[1] /\ accepts[1] = Handed
  BY DEF TypeOK
<1>2. new \in Completion /\ new.context = Handed
  BY <1>1 DEF TypeOK, Completion
<1> HIDE DEF new
<1>3. completions' = Append(completions, new) /\ accepts' = Tail(accepts)
  BY DEF Complete, new
<1>4. accepts' \in Seq(SUBSET Copied) /\ Len(accepts') = Len(accepts) - 1
      /\ \A i \in 1..Len(accepts') : accepts'[i] = accepts[i + 1]
  BY <1>1, <1>3, HeadTailProperties DEF TypeOK
<1>5. completions' \in Seq(Completion) /\ Len(completions') = Len(completions) + 1
      /\ \A i \in 1..Len(completions') :
            completions'[i] = IF i <= Len(completions) THEN completions[i] ELSE new
  BY <1>2, <1>3, AppendProperties DEF TypeOK
<1>6. /\ \A i \in 1..Len(accepts') : accepts'[i] = Handed
      /\ Len(accepts') + Len(completions') = Len(accepts) + Len(completions)
  BY <1>4, <1>5 DEF TypeOK
<1>7. \A i \in 1..Len(completions') : completions'[i].context = Handed
  BY <1>2, <1>5 DEF TypeOK
<1>. QED
  BY <1>4, <1>5, <1>6, <1>7

\* close turns pending accepts into completions.
LEMMA CloseMoves ==
    ASSUME TypeOK, close_acceptor,
           \A i \in 1..Len(accepts) : accepts[i] = Handed,
           \A i \in 1..Len(completions) : completions[i].context = Handed
    PROVE  /\ accepts' = << >> /\ completions' \in Seq(Completion)
           /\ Len(completions') = Len(accepts) + Len(completions)
           /\ \A i \in 1..Len(completions') : completions'[i].context = Handed
<1> DEFINE cancelled == [i \in DOMAIN accepts |->
                            [client |-> NoClient, context |-> accepts[i]]]
<1>1. DOMAIN accepts = 1..Len(accepts) /\ Len(accepts) \in Nat
  BY DEF TypeOK
<1>2. \A i \in 1..Len(accepts) : cancelled[i] \in Completion /\ cancelled[i].context = Handed
  BY <1>1 DEF TypeOK, Completion
<1>3. cancelled \in Seq(Completion) /\ Len(cancelled) = Len(accepts)
  BY <1>1, <1>2
<1> HIDE DEF cancelled
<1>4. accepts' = << >> /\ completions' = completions \o cancelled
  BY DEF close_acceptor, cancelled
<1>5. completions \in Seq(Completion)
  BY DEF TypeOK
<1>6. /\ completions' \in Seq(Completion)
      /\ Len(completions') = Len(completions) + Len(cancelled)
      /\ \A i \in 1..Len(completions') :
            completions'[i] = IF i <= Len(completions) THEN completions[i]
                              ELSE cancelled[i - Len(completions)]
  <2>1. \A i \in 1..Len(completions) + Len(cancelled) : (completions \o cancelled)[i] =
           IF i <= Len(completions) THEN completions[i] ELSE cancelled[i - Len(completions)]
    BY <1>3, <1>5, ConcatProperties
  <2>2. /\ completions \o cancelled \in Seq(Completion)
        /\ Len(completions \o cancelled) = Len(completions) + Len(cancelled)
    BY <1>3, <1>5, ConcatProperties
  <2>. QED
    BY <1>4, <2>1, <2>2
<1>7. ASSUME NEW i \in 1..Len(completions') PROVE completions'[i].context = Handed
  <2>1. CASE i <= Len(completions)
    <3>1. Len(completions) \in Nat /\ Len(completions') \in Nat
      BY <1>5, <1>6
    <3>2. i \in 1..Len(completions)
      BY <2>1, <3>1
    <3>3. completions'[i] = completions[i]
      BY <1>6, <2>1
    <3>. QED
      BY <3>2, <3>3
  <2>2. CASE ~(i <= Len(completions))
    <3>1. i - Len(completions) \in 1..Len(accepts)
      BY <1>1, <1>3, <1>6, <2>2 DEF TypeOK
    <3>. QED
      BY <1>2, <1>6, <2>2, <3>1
  <2>. QED
    BY <2>1, <2>2
<1>. QED
  BY <1>1, <1>3, <1>4, <1>6, <1>7 DEF TypeOK
-----------------------------------------------------------------------------
(***************************************************************************)
(* Every step keeps the invariant.                                         *)
(***************************************************************************)

LEMMA InvInit == Init => Inv
<1> SUFFICES ASSUME Init PROVE Inv
  OBVIOUS
<1>1. main \in DOMAIN Then /\ main = "alloc_output_context"
  BY Order DEF Init
<1>2. TypeOK
  <2>1. /\ backlog \in Seq(Clients) /\ accepts \in Seq(SUBSET Copied)
        /\ completions \in Seq(Completion)
    BY DEF Init
  <2>2. /\ session \in [Clients -> {"none", "active", "ended"}]
        /\ context \in [Clients -> SUBSET Copied]
    BY DEF Init
  <2>. QED
    BY <1>1, <2>1, <2>2 DEF Init, TypeOK, Locations
<1>3. HeldFits
  BY <1>1 DEF Init, HeldFits, Members
<1>4. Started /\ Flow
  BY DEF Init, Started, Flow, Before, Active, OneAccept, Loops, InHandler
<1>. QED
  BY <1>2, <1>3, <1>4 DEF Inv

LEMMA OpenOutputFileKeeps == ASSUME Inv, open_output_file PROVE Inv'
<1> USE DEF Inv
<1>1. /\ main \in DOMAIN Then
      /\ UNCHANGED <<accepting, backlog, io, closer, sessions, errors>>
  BY DEF open_output_file
<1>2. /\ main \in Before /\ main \notin {"asleep", "crashed", "returned"}
      /\ io = "none" /\ ~is_working_ /\ closer = "no" /\ Active = {}
      /\ accepts = << >> /\ completions = << >>
  BY <1>1, Order DEF Before, Started
<1>3. CASE main' = Then[main] /\ allocated' = allocated \cup Made(main)
           /\ held' = held \cup Kept(main)
  <2>1. main' \in Before \cup {"opened"} /\ main' # "alloc_output_context"
    BY <1>1, <1>3, Order DEF Before
  <2>2. TypeOK'
    <3>1. Made(main) \in SUBSET Objects /\ Kept(main) \in SUBSET Members
      BY DEF Made, Kept, Objects, Members, Owned
    <3>. QED
      BY <1>1, <1>3, <2>1, <3>1
         DEF TypeOK, Locations, Before, accepting, sessions
  <2>3. HeldFits'
    <3>1. /\ allocated' \cap Members \subseteq held'
          /\ main' # "alloc_output_context"
      BY <1>3, <2>1 DEF HeldFits, Kept
    <3>5. held' \subseteq Opened
      BY <1>3 DEF HeldFits, Kept, Made, Opened, Members
    <3>2. "output" \in held'
      BY <1>1, <1>3 DEF HeldFits, Kept, Made, Members
    <3>3. main' \in {"open_encoder", "parameters", "init_resampler"} => "encoder" \in held'
      BY <1>1, <1>3, Order DEF HeldFits, Kept, Made, Members
    <3>4. main' \in {"new_program", "avio_open", "write_header", "opened", "returned"}
            => held' = Opened
      <4>1. main = "init_resampler" => held' = Opened
        <5>1. main = "init_resampler" => {"output", "encoder"} \subseteq held /\ held \subseteq Opened
          BY <1>1 DEF HeldFits
        <5>2. main = "init_resampler" => held' = held \cup {"resampler"}
          BY <1>3 DEF Kept, Made, Members
        <5>. QED
          BY <5>1, <5>2 DEF Opened, Members
      <4>2. main \in {"new_program", "avio_open", "write_header"} => held' = Opened
        BY <1>3 DEF HeldFits, Kept, Made, Opened, Members
      <4>3. main' \in {"new_program", "avio_open", "write_header", "opened", "returned"}
              => main \in {"init_resampler", "new_program", "avio_open", "write_header"}
        BY <1>1, <1>3, Order
      <4>. QED
        BY <4>1, <4>2, <4>3
    <3>. QED
      BY <3>1, <3>2, <3>3, <3>4, <3>5 DEF HeldFits
  <2>4. Started'
    BY <1>1, <1>2, <2>1 DEF Started, Active, accepting, sessions
  <2>5. Flow'
    BY <1>1, <1>2 DEF Flow, OneAccept, Loops, InHandler, accepting, sessions
  <2>. QED
    BY <2>2, <2>3, <2>4, <2>5
<1>4. CASE main' = (IF main = "new_program" THEN "crashed" ELSE "failed") /\ UNCHANGED opening
  <2>1. main' \in {"crashed", "failed"} /\ "failed" \notin DOMAIN Then /\ "crashed" \notin DOMAIN Then
    BY <1>4, Order
  <2>2. TypeOK'
    BY <1>1, <1>4, <2>1 DEF TypeOK, Locations, opening, accepting, sessions
  <2>3. HeldFits'
    BY <1>4, <2>1 DEF HeldFits, opening
  <2>4. Started'
    BY <1>1, <1>4, <1>2, <2>1 DEF Started, Before, Active, opening, accepting, sessions
  <2>5. Flow'
    BY <1>1, <1>2 DEF Flow, OneAccept, Loops, InHandler, accepting, sessions
  <2>. QED
    BY <2>2, <2>3, <2>4, <2>5
<1>. QED
  BY <1>3, <1>4 DEF open_output_file

LEMMA OpenKeeps == ASSUME Inv, open PROVE Inv'
<1> USE DEF Inv
<1>1. /\ main = "opened" /\ main' = "returned" /\ is_working_' = TRUE
      /\ UNCHANGED <<opening, acceptor, backlog, io, closer, sessions, errors>>
      /\ start_accept
  BY DEF open
<1>2. /\ held = Opened /\ io = "none" /\ accepts = << >> /\ completions = << >>
      /\ closer = "no" /\ Active = {}
  BY <1>1 DEF HeldFits, Started, Before
<1>3. /\ accepts' \in Seq(SUBSET Copied) /\ completions' \in Seq(Completion)
      /\ Len(accepts') + Len(completions') = 1
      /\ \A i \in 1..Len(accepts') : accepts'[i] = Handed
      /\ \A i \in 1..Len(completions') : completions'[i].context = Handed
  BY <1>1, <1>2, StartAccept DEF Started
<1>4. main' \notin DOMAIN Then
  BY <1>1, Order
<1>5. TypeOK'
  BY <1>1, <1>3 DEF TypeOK, Locations, opening, sessions
<1>6. HeldFits'
  BY <1>1, <1>2, <1>4 DEF HeldFits, opening
<1>7. Started'
  BY <1>1, <1>2, <1>3, <1>4 DEF Started, Before, Active, opening, sessions
<1>8. Flow'
  BY <1>1, <1>2, <1>3 DEF Flow, OneAccept, Loops, InHandler, sessions
<1>. QED
  BY <1>5, <1>6, <1>7, <1>8

LEMMA RunThreadKeeps == ASSUME Inv, run_thread PROVE Inv'
<1> USE DEF Inv
<1>1. /\ main \in {"returned", "failed"} /\ main' = "asleep" /\ io' = "idle"
      /\ UNCHANGED <<opening, accepting, backlog, closer, sessions, errors>>
  BY DEF run_thread
<1>2. main' \notin DOMAIN Then
  BY <1>1, Order
<1>3. io = "none" /\ Active = {}
  BY <1>1 DEF Started, Before
<1>4. TypeOK'
  BY <1>1 DEF TypeOK, Locations, opening, accepting, sessions
<1>5. HeldFits'
  BY <1>1, <1>2 DEF HeldFits, opening
<1>6. Started'
  BY <1>1, <1>2, <1>3 DEF Started, Before, Active, opening, accepting, sessions
<1>7. Flow'
  BY <1>1, <1>3 DEF Flow, OneAccept, Loops, InHandler, accepting, sessions
<1>. QED
  BY <1>4, <1>5, <1>6, <1>7

LEMMA HandleAcceptKeeps == ASSUME Inv, handle_accept PROVE Inv'
<1> USE DEF Inv
<1> DEFINE done == Head(completions)
<1>1. /\ Up /\ io = "idle" /\ completions # << >> /\ completions' = Tail(completions)
      /\ io' = "handled"
      /\ UNCHANGED <<main, opening, is_working_, acceptor, accepts, backlog, closer, errors>>
  BY DEF handle_accept
<1>2. /\ Len(completions) > 0 /\ done \in Completion /\ done.context = Handed
      /\ completions' \in Seq(Completion) /\ Len(completions') = Len(completions) - 1
      /\ \A i \in 1..Len(completions') : completions'[i].context = Handed
  <2>1. completions \in Seq(Completion) /\ completions # << >>
    BY <1>1 DEF TypeOK
  <2>2. done = completions[1] /\ Len(completions) > 0
    BY <2>1
  <2>3. completions' \in Seq(Completion) /\ Len(completions') = Len(completions) - 1
        /\ \A i \in 1..Len(completions') : completions'[i] = completions[i + 1]
    BY <1>1, <2>1, HeadTailProperties
  <2>. QED
    BY <2>1, <2>2, <2>3 DEF Started
<1> HIDE DEF done
<1>3. main \notin Before /\ main \in Locations /\ main # "returned" /\ main = "asleep"
  BY <1>1 DEF Started, Before, TypeOK, Locations, Up
<1>4. /\ TypeOK' /\ \A c \in Active' : context'[c] = Handed
      /\ closer = "no" => late' = 0
      /\ late' <= late + 1
  <2>1. CASE done.client # NoClient
    <3>1. /\ session' = [session EXCEPT ![done.client] = "active"]
          /\ context' = [context EXCEPT ![done.client] = done.context]
          /\ late' = IF closer = "no" THEN late ELSE late + 1
      BY <2>1 DEF handle_accept, done
    <3>2. done.client \in Clients /\ done.context \in SUBSET Copied
      BY <1>2, <2>1 DEF Completion
    <3>. QED
      BY <1>1, <1>2, <3>1, <3>2 DEF TypeOK, Active, Started, Flow, opening
  <2>2. CASE done.client = NoClient
    <3>1. UNCHANGED sessions
      BY <2>2 DEF handle_accept, done
    <3>. QED
      BY <1>1, <1>2, <3>1 DEF TypeOK, Active, Started, Flow, opening, sessions
  <2>. QED
    BY <2>1, <2>2
<1>5. HeldFits'
  BY <1>1 DEF HeldFits, opening
<1>6. Started'
  BY <1>1, <1>2, <1>3, <1>4 DEF Started, Before, opening
<1>7. Flow'
  BY <1>1, <1>2, <1>4 DEF Flow, OneAccept, Loops, InHandler, TypeOK
<1>. QED
  BY <1>4, <1>5, <1>6, <1>7

LEMMA CheckWorkingKeeps == ASSUME Inv, check_working PROVE Inv'
<1> USE DEF Inv
<1>1. /\ io = "handled" /\ io' = IF is_working_ THEN "restart" ELSE "idle"
      /\ UNCHANGED <<main, opening, accepting, backlog, closer, sessions, errors>>
  BY DEF check_working
<1>2. main \notin Before /\ main # "returned"
  BY <1>1 DEF Started
<1>3. TypeOK'
  BY <1>1 DEF TypeOK, opening, accepting, sessions
<1>4. HeldFits'
  BY <1>1 DEF HeldFits, opening
<1>5. Started'
  BY <1>1, <1>2 DEF Started, Before, Active, opening, accepting, sessions, TypeOK
<1>6. Flow'
  BY <1>1 DEF Flow, OneAccept, Loops, InHandler, accepting, sessions, TypeOK
<1>. QED
  BY <1>3, <1>4, <1>5, <1>6

LEMMA AcceptAgainKeeps == ASSUME Inv, accept_again PROVE Inv'
<1> USE DEF Inv
<1>1. /\ io = "restart" /\ io' = "idle" /\ start_accept
      /\ UNCHANGED <<main, opening, is_working_, acceptor, backlog, closer, sessions, errors>>
  BY DEF accept_again
<1>2. main \notin Before /\ main # "returned" /\ held = Opened
  BY <1>1 DEF Started
<1>3. /\ accepts' \in Seq(SUBSET Copied) /\ completions' \in Seq(Completion)
      /\ Len(accepts') + Len(completions') = Len(accepts) + Len(completions) + 1
      /\ \A i \in 1..Len(accepts') : accepts'[i] = Handed
      /\ \A i \in 1..Len(completions') : completions'[i].context = Handed
  BY <1>1, <1>2, StartAccept DEF Started
<1>4. TypeOK'
  BY <1>1, <1>3 DEF TypeOK, opening, sessions
<1>5. HeldFits'
  BY <1>1 DEF HeldFits, opening
<1>6. Started'
  BY <1>1, <1>2, <1>3 DEF Started, Before, Active, opening, sessions
<1>7. Flow'
  BY <1>1, <1>3 DEF Flow, OneAccept, Loops, InHandler, sessions, TypeOK
<1>. QED
  BY <1>4, <1>5, <1>6, <1>7

LEMMA RunReturnsKeeps == ASSUME Inv, run_returns PROVE Inv'
<1> USE DEF Inv
<1>1. /\ io = "idle" /\ io' = "ended" /\ accepts = << >> /\ completions = << >>
      /\ UNCHANGED <<main, opening, accepting, backlog, closer, sessions, errors>>
  BY DEF run_returns
<1>2. ~is_working_
  BY <1>1 DEF Flow, OneAccept, Loops, InHandler
<1>3. TypeOK'
  BY <1>1 DEF TypeOK, opening, accepting, sessions
<1>4. HeldFits'
  BY <1>1 DEF HeldFits, opening
<1>5. Started'
  BY <1>1 DEF Started, Before, Active, opening, accepting, sessions
<1>6. Flow'
  BY <1>1, <1>2 DEF Flow, OneAccept, Loops, InHandler, accepting, sessions
<1>. QED
  BY <1>3, <1>4, <1>5, <1>6

LEMMA SessionEndsKeeps == ASSUME Inv, NEW c \in Clients, SessionEnds(c) PROVE Inv'
<1> USE DEF Inv
<1>1. /\ io = "idle"
      /\ UNCHANGED <<opening, accepting, backlog, io, closer, context, late, errors>>
      /\ \/ session' = [session EXCEPT ![c] = "ended"] /\ UNCHANGED main
         \/ main' = "crashed" /\ UNCHANGED session
  BY DEF SessionEnds
<1>2. Active' \subseteq Active
  BY <1>1 DEF Active, TypeOK
<1>3. main \notin Before /\ (main' = main \/ main' = "crashed") /\ "crashed" \notin Before
  BY <1>1, Order DEF Started, Before
<1>4. TypeOK'
  BY <1>1 DEF TypeOK, Locations, opening, accepting
<1>5. HeldFits'
  BY <1>1, <1>3 DEF HeldFits, opening, Before
<1>6. Started'
  BY <1>1, <1>2, <1>3 DEF Started, opening, accepting
<1>7. Flow'
  BY <1>1 DEF Flow, OneAccept, Loops, InHandler, accepting
<1>. QED
  BY <1>4, <1>5, <1>6, <1>7

LEMMA CloseFlagKeeps == ASSUME Inv, close_flag PROVE Inv'
<1> USE DEF Inv
<1>1. /\ main = "asleep" /\ closer = "no" /\ closer' = "flagged" /\ is_working_' = FALSE
      /\ UNCHANGED <<main, opening, acceptor, accepts, completions, backlog, io,
                     sessions, errors>>
  BY DEF close_flag
<1>2. TypeOK'
  BY <1>1 DEF TypeOK, opening, sessions
<1>3. HeldFits'
  BY <1>1 DEF HeldFits, opening
<1>4. Started'
  BY <1>1 DEF Started, Before, Active, opening, sessions
<1>5. Flow'
  BY <1>1 DEF Flow, OneAccept, Loops, InHandler, sessions, TypeOK
<1>. QED
  BY <1>2, <1>3, <1>4, <1>5

LEMMA CloseAcceptorKeeps == ASSUME Inv, close_acceptor PROVE Inv'
<1> USE DEF Inv
<1>1. /\ closer = "flagged" /\ closer' = "done" /\ acceptor' = "closed"
      /\ backlog' = << >>
      /\ UNCHANGED <<main, opening, is_working_, io, sessions, errors>>
  BY DEF close_acceptor
<1>2. main \notin Before /\ main # "returned"
  BY <1>1, Order DEF Started, Before
<1>3. /\ accepts' = << >> /\ completions' \in Seq(Completion)
      /\ Len(completions') = Len(accepts) + Len(completions)
      /\ \A i \in 1..Len(completions') : completions'[i].context = Handed
  BY CloseMoves DEF Started
<1>4. TypeOK'
  BY <1>1, <1>3 DEF TypeOK, opening, sessions
<1>5. HeldFits'
  BY <1>1 DEF HeldFits, opening
<1>6. Started'
  BY <1>1, <1>2, <1>3 DEF Started, Active, opening, sessions
<1>7. Flow'
  BY <1>1, <1>3 DEF Flow, OneAccept, Loops, InHandler, sessions, TypeOK
<1>. QED
  BY <1>4, <1>5, <1>6, <1>7

LEMMA AcceptedKeeps == ASSUME Inv, Accepted \/ AcceptFails PROVE Inv'
<1> USE DEF Inv
<1>1. PICK client \in Clients \cup {NoClient} : Complete(client)
  <2>1. CASE Accepted
    <3>1. Head(backlog) \in Clients
      BY <2>1 DEF Accepted, TypeOK
    <3>. QED
      BY <2>1, <3>1 DEF Accepted
  <2>. QED
    BY <2>1 DEF AcceptFails
<1>2. accepts # << >> /\ backlog' \in Seq(Clients) /\ errors' \in Nat
  <2>1. backlog \in Seq(Clients) /\ errors \in Nat
    BY DEF TypeOK
  <2>2. CASE Accepted
    BY <2>1, <2>2, HeadTailProperties DEF Accepted
  <2>3. CASE AcceptFails
    BY <2>1, <2>3 DEF AcceptFails
  <2>. QED
    BY <2>2, <2>3
<1>3. UNCHANGED <<main, opening, is_working_, acceptor, io, closer, sessions>>
  BY <1>1 DEF Complete
<1>4. /\ accepts' \in Seq(SUBSET Copied) /\ completions' \in Seq(Completion)
      /\ Len(accepts') + Len(completions') = Len(accepts) + Len(completions)
      /\ \A i \in 1..Len(accepts') : accepts'[i] = Handed
      /\ \A i \in 1..Len(completions') : completions'[i].context = Handed
  BY <1>1, <1>2, CompleteMoves DEF Started
<1>5. main \notin Before /\ io # "ended"
  BY <1>2 DEF Started, Flow
<1>6. TypeOK'
  BY <1>2, <1>3, <1>4 DEF TypeOK, opening, sessions
<1>7. HeldFits'
  BY <1>3 DEF HeldFits, opening
<1>8. Started'
  BY <1>3, <1>4, <1>5 DEF Started, Active, opening, sessions
<1>9. Flow'
  BY <1>3, <1>4, <1>5 DEF Flow, OneAccept, Loops, InHandler, sessions, TypeOK
<1>. QED
  BY <1>6, <1>7, <1>8, <1>9

LEMMA ConnectKeeps == ASSUME Inv, NEW c \in Clients, Connect(c) PROVE Inv'
<1> USE DEF Inv
<1>1. /\ backlog' = Append(backlog, c)
      /\ UNCHANGED <<main, opening, accepting, io, closer, sessions, errors>>
  BY DEF Connect
<1>2. TypeOK'
  BY <1>1 DEF TypeOK, opening, accepting, sessions
<1>3. HeldFits' /\ Started' /\ Flow'
  BY <1>1 DEF HeldFits, Started, Flow, Before, Active, OneAccept, Loops, InHandler,
              opening, accepting, sessions
<1>. QED
  BY <1>2, <1>3

LEMMA InvStep == Inv /\ [Next]_vars => Inv'
<1> SUFFICES ASSUME Inv, [Next]_vars PROVE Inv'
  OBVIOUS
<1>1. CASE Main
  BY <1>1, OpenOutputFileKeeps, OpenKeeps, RunThreadKeeps DEF Main
<1>2. CASE Io
  BY <1>2, HandleAcceptKeeps, CheckWorkingKeeps, AcceptAgainKeeps, RunReturnsKeeps DEF Io
<1>3. CASE close_flag \/ close_acceptor
  BY <1>3, CloseFlagKeeps, CloseAcceptorKeeps
<1>4. CASE Accepted \/ AcceptFails
  BY <1>4, AcceptedKeeps
<1>5. CASE \E c \in Clients : Connect(c) \/ SessionEnds(c)
  BY <1>5, ConnectKeeps, SessionEndsKeeps
<1>6. CASE UNCHANGED vars
  BY <1>6 DEF Inv, TypeOK, HeldFits, Started, Flow, Before, Active, OneAccept, Loops, InHandler,
              vars, opening, accepting, sessions
<1>. QED
  BY <1>1, <1>2, <1>3, <1>4, <1>5, <1>6 DEF Next

\* The invariant holds in every state of every behaviour.
THEOREM Invariance == Spec => []Inv
BY InvInit, InvStep, PTL DEF Spec
-----------------------------------------------------------------------------
(***************************************************************************)
(* The properties.                                                         *)
(***************************************************************************)

\* Every variable of the server has its type, for any clients.
THEOREM ServerTypeCorrect == Spec => []TypeOK
<1>1. Inv => TypeOK
  BY DEF Inv
<1>. QED
  BY <1>1, Invariance, PTL

\* A working server has exactly one accept under way and a thread to handle it.
THEOREM AcceptsOne == Spec => []OneAccept
<1>1. Inv => OneAccept
  BY DEF Inv, Flow
<1>. QED
  BY <1>1, Invariance, PTL

\* No session starts before open_output_file has succeeded, and each copies five
\* pointers of which audio_fifo_ is null and the others are set.
THEOREM NullFifo == Spec => []OnlyTheFifoIsNull
<1>1. Copied \ Handed = {"fifo"}
  BY DEF Copied, Handed, Opened, Members
<1>2. Inv => OnlyTheFifoIsNull
  BY <1>1 DEF Inv, Started, OnlyTheFifoIsNull
<1>. QED
  BY <1>2, Invariance, PTL

\* Wherever open_output_file gives up, the destructor frees what it has allocated.
THEOREM DestructorFreesAll == Spec => []NothingLost
<1>1. Inv => NothingLost
  BY DEF Inv, HeldFits, NothingLost, Leaked, TypeOK, Objects
<1>. QED
  BY <1>1, Invariance, PTL

\* At most one session starts after close has cleared is_working_.
THEOREM OneLateSession == Spec => []AtMostOneLate
<1>1. Inv => AtMostOneLate
  BY DEF Inv, Flow, AtMostOneLate, TypeOK
<1>. QED
  BY <1>1, Invariance, PTL
=============================================================================
