------------------------------- MODULE Server -------------------------------
(***************************************************************************)
(* class Server (src/Server.h, src/Server.cpp lines 289-351 and 370-470)   *)
(* and main (src/AudioServer.cpp): open_output_file and its failures, the  *)
(* accept loop, and close.                                                 *)
(*                                                                         *)
(* Three threads: main, which opens the server and then sleeps for ever;   *)
(* the one that runs the io_service, started whatever open has returned;   *)
(* and one that may call close.  No code calls close, but is_working_ is   *)
(* volatile for its sake.  A thread's steps are its accesses to what the   *)
(* others can see: is_working_ and the acceptor.  The three operations on  *)
(* the acceptor that may meet, async_accept, close and a completion, are   *)
(* each atomic, as the reactor of asio serialises them.                    *)
(*                                                                         *)
(* A session (Session.tla) is reduced to the pointers it is constructed    *)
(* with, its start and its end.                                            *)
(***************************************************************************)
EXTENDS Naturals, Sequences

CONSTANTS
    Clients,        \* each connects at most once
    Closes,         \* whether another thread calls close
    MaxErrors       \* bound: accepts that fail while the acceptor is open

ASSUME ServerAssumption == Closes \in BOOLEAN /\ MaxErrors \in Nat

VARIABLES
    main,           \* the next call of main, see Then
    allocated,      \* the libav objects that exist
    held,           \* those that a member of Server points to
    is_working_,
    acceptor,       \* acceptor_: "listening" or "closed"
    backlog,        \* connections the kernel has completed
    accepts,        \* async_accepts pending, each with the session it is for
    completions,    \* handle_accepts waiting for the io thread
    io,             \* the io thread
    closer,         \* the thread that calls close: "no", "flagged" or "done"
    session,        \* the session of each client
    context,        \* the pointers in it that are set
    errors,         \* accepts that have failed
    late            \* ghost: sessions started after is_working_ was cleared

opening == <<allocated, held>>
accepting == <<is_working_, acceptor, accepts, completions>>
sessions == <<session, context, late>>
vars == <<main, opening, accepting, backlog, io, closer, sessions, errors>>

(* The calls of open_output_file, in order, each with the one that follows; *)
(* "opened" is the end of it.                                               *)
Then == [alloc_output_context |-> "codec_name", codec_name |-> "new_stream",
         new_stream |-> "find_encoder", find_encoder |-> "alloc_encoder",
         alloc_encoder |-> "open_encoder", open_encoder |-> "parameters",
         parameters |-> "init_resampler", init_resampler |-> "new_program",
         new_program |-> "avio_open", avio_open |-> "write_header",
         write_header |-> "opened"]

\* What a call allocates when it succeeds.
Made(call) ==
    CASE call = "alloc_output_context" -> {"output"}
      [] call = "new_stream" -> {"stream"}
      [] call = "alloc_encoder" -> {"encoder"}
      [] call = "init_resampler" -> {"resampler"}
      [] call = "new_program" -> {"program"}
      [] call = "avio_open" -> {"file"}
      [] OTHER -> {}

\* ofmt_ctx_, enc_ctx_, resample_context_, and audio_fifo_, which no code ever sets.
Members == {"output", "encoder", "resampler", "fifo"}
\* The pointers a session is constructed with: the members and the address of pts_.
Copied == Members \cup {"pts"}
\* What avio_closep and avformat_free_context free with ofmt_ctx_.
Owned == {"stream", "program", "file"}
Objects == Members \cup Owned

\* Mutant: enc_ctx_ is set when the encoder has been opened.
Kept_late(call) ==
    IF call = "open_encoder" THEN {"encoder"} ELSE Made(call) \cap (Members \ {"encoder"})

\* Mutant: the stream, which the context owns, is kept in a member as well.
Kept_stream(call) == Made(call) \cap (Members \cup {"stream"})

\* What a call leaves in a member of Server.
Kept(call) == Made(call) \cap Members

Locations == DOMAIN Then \cup {"opened", "returned", "failed", "asleep", "crashed"}
Up == main # "crashed"

\* An accept that failed has no client.
NoClient == "none"
Completion == [client : Clients \cup {NoClient}, context : SUBSET Copied]

\* The constructor: the acceptor listens before anything is opened.
Init ==
    /\ main = "alloc_output_context" /\ allocated = {} /\ held = {}
    /\ is_working_ = FALSE /\ acceptor = "listening"
    /\ backlog = << >> /\ accepts = << >> /\ completions = << >>
    /\ io = "none" /\ closer = "no"
    /\ session = [c \in Clients |-> "none"]
    /\ context = [c \in Clients |-> {}]
    /\ errors = 0 /\ late = 0
-----------------------------------------------------------------------------
(***************************************************************************)
(* main                                                                    *)
(***************************************************************************)

(* A call of open_output_file succeeds, or fails and makes it return false; *)
(* the result of av_new_program is used unchecked.  init_resampler frees    *)
(* what it has allocated when it fails.  MPEG-TS always needs a file.       *)
open_output_file ==
    /\ main \in DOMAIN Then
    /\ \/ /\ main' = Then[main]
          /\ allocated' = allocated \cup Made(main)
          /\ held' = held \cup Kept(main)
       \/ /\ main' = IF main = "new_program" THEN "crashed" ELSE "failed"
          /\ UNCHANGED opening
    /\ UNCHANGED <<accepting, backlog, io, closer, sessions, errors>>

\* The pointers that are set in a session constructed now; the others are null.
pointers == held \cup {"pts"}

(* start_accept: the new session gets copies of the members; an accept on a *)
(* closed acceptor fails at once.                                           *)
start_accept ==
    \/ /\ acceptor = "listening"
       /\ accepts' = Append(accepts, pointers)
       /\ UNCHANGED completions
    \/ /\ acceptor = "closed"
       /\ completions' = Append(completions, [client |-> NoClient, context |-> pointers])
       /\ UNCHANGED accepts

\* Mutant: the result of open_output_file is not looked at.
open_unchecked ==
    /\ main \in {"opened", "failed"} /\ main' = "returned"
    /\ is_working_' = TRUE /\ start_accept
    /\ UNCHANGED <<opening, acceptor, backlog, io, closer, sessions, errors>>

open ==
    /\ main = "opened" /\ main' = "returned"
    /\ is_working_' = TRUE /\ start_accept
    /\ UNCHANGED <<opening, acceptor, backlog, io, closer, sessions, errors>>

\* main starts the io thread, whether open has returned 0 or -1.
run_thread ==
    /\ main \in {"returned", "failed"} /\ main' = "asleep"
    /\ io' = "idle"
    /\ UNCHANGED <<opening, accepting, backlog, closer, sessions, errors>>

Main == open_output_file \/ open \/ run_thread
-----------------------------------------------------------------------------
(***************************************************************************)
(* The io thread                                                           *)
(***************************************************************************)

\* Mutant: an accept that failed ends the loop.
handle_accept_once ==
    /\ Up /\ io = "idle" /\ completions # << >>
    /\ LET done == Head(completions) IN
          \/ /\ done.client # NoClient
             /\ session' = [session EXCEPT ![done.client] = "active"]
             /\ context' = [context EXCEPT ![done.client] = done.context]
             /\ late' = IF closer = "no" THEN late ELSE late + 1
             /\ io' = "handled"
          \/ done.client = NoClient /\ io' = "idle" /\ UNCHANGED sessions
    /\ completions' = Tail(completions)
    /\ UNCHANGED <<main, opening, is_working_, acceptor, accepts, backlog, closer, errors>>

\* The first half of handle_accept: the session starts unless the accept failed.
handle_accept ==
    /\ Up /\ io = "idle" /\ completions # << >>
    /\ LET done == Head(completions) IN
          \/ /\ done.client # NoClient
             /\ session' = [session EXCEPT ![done.client] = "active"]
             /\ context' = [context EXCEPT ![done.client] = done.context]
             /\ late' = IF closer = "no" THEN late ELSE late + 1
          \/ done.client = NoClient /\ UNCHANGED sessions
    /\ completions' = Tail(completions) /\ io' = "handled"
    /\ UNCHANGED <<main, opening, is_working_, acceptor, accepts, backlog, closer, errors>>

\* Mutant: the loop goes on as long as the acceptor lives.
check_working_never ==
    /\ Up /\ io = "handled"
    /\ io' = IF acceptor = "listening" THEN "restart" ELSE "idle"
    /\ UNCHANGED <<main, opening, accepting, backlog, closer, sessions, errors>>

\* The second half: is_working_ is read, and start_accept called after that.
check_working ==
    /\ Up /\ io = "handled"
    /\ io' = IF is_working_ THEN "restart" ELSE "idle"
    /\ UNCHANGED <<main, opening, accepting, backlog, closer, sessions, errors>>

\* Mutant: a second accept is kept in reserve.
accept_again_twice ==
    /\ Up /\ io = "restart" /\ io' \in {"idle", "handled"}
    /\ start_accept
    /\ UNCHANGED <<main, opening, is_working_, acceptor, backlog, closer, sessions, errors>>

accept_again ==
    /\ Up /\ io = "restart" /\ io' = "idle"
    /\ start_accept
    /\ UNCHANGED <<main, opening, is_working_, acceptor, backlog, closer, sessions, errors>>

Active == {c \in Clients : session[c] = "active"}

\* io_service::run returns when nothing is pending: no accept, no session.
run_returns ==
    /\ Up /\ io = "idle" /\ io' = "ended"
    /\ accepts = << >> /\ completions = << >> /\ Active = {}
    /\ UNCHANGED <<main, opening, accepting, backlog, closer, sessions, errors>>

\* A session ends, or takes the process with it (Session.tla says when).
SessionEnds(c) ==
    /\ Up /\ io = "idle" /\ c \in Active
    /\ \/ session' = [session EXCEPT ![c] = "ended"] /\ UNCHANGED main
       \/ main' = "crashed" /\ UNCHANGED session
    /\ UNCHANGED <<opening, accepting, backlog, io, closer, context, late, errors>>

Io == handle_accept \/ check_working \/ accept_again \/ run_returns
-----------------------------------------------------------------------------
(***************************************************************************)
(* close, called by another thread once main has nothing left to do        *)
(***************************************************************************)

\* Mutant: the flag is left as it is.
close_flag_kept ==
    /\ Up /\ Closes /\ main = "asleep" /\ closer = "no"
    /\ closer' = "flagged"
    /\ UNCHANGED <<main, opening, accepting, backlog, io, sessions, errors>>

close_flag ==
    /\ Up /\ Closes /\ main = "asleep" /\ closer = "no"
    /\ closer' = "flagged" /\ is_working_' = FALSE
    /\ UNCHANGED <<main, opening, acceptor, accepts, completions, backlog, io,
                   sessions, errors>>

(* acceptor_.close() cancels the pending accepts, whose handlers still run, *)
(* and resets the connections that were not accepted.                       *)
close_acceptor ==
    /\ Up /\ closer = "flagged" /\ closer' = "done"
    /\ acceptor' = "closed"
    /\ completions' = completions \o [i \in DOMAIN accepts |->
                                        [client |-> NoClient, context |-> accepts[i]]]
    /\ accepts' = << >> /\ backlog' = << >>
    /\ UNCHANGED <<main, opening, is_working_, io, sessions, errors>>
-----------------------------------------------------------------------------
(***************************************************************************)
(* The kernel and the clients                                              *)
(***************************************************************************)

Waiting(c) == \E i \in DOMAIN backlog : backlog[i] = c
Completing(c) == \E i \in DOMAIN completions : completions[i].client = c

\* The kernel completes connections as long as the acceptor listens.
Connect(c) ==
    /\ Up /\ acceptor = "listening"
    /\ session[c] = "none" /\ ~Waiting(c) /\ ~Completing(c)
    /\ backlog' = Append(backlog, c)
    /\ UNCHANGED <<main, opening, accepting, io, closer, sessions, errors>>

Complete(client) ==
    /\ completions' = Append(completions, [client |-> client, context |-> Head(accepts)])
    /\ accepts' = Tail(accepts)
    /\ UNCHANGED <<main, opening, is_working_, acceptor, io, closer, sessions>>

Accepted ==
    /\ Up /\ accepts # << >> /\ backlog # << >>
    /\ Complete(Head(backlog)) /\ backlog' = Tail(backlog)
    /\ UNCHANGED errors

\* No file descriptor is left, or the connection was reset before the accept.
AcceptFails ==
    /\ Up /\ accepts # << >> /\ backlog # << >> /\ errors < MaxErrors
    /\ Complete(NoClient) /\ errors' = errors + 1
    /\ UNCHANGED backlog

Next ==
    \/ Main
    \/ Io
    \/ close_flag
    \/ close_acceptor
    \/ Accepted
    \/ AcceptFails
    \/ \E c \in Clients : Connect(c) \/ SessionEnds(c)

Spec == Init /\ [][Next]_vars

(* Threads that can go on do, and the kernel hands over connections.        *)
(* Nobody has to connect, to leave or to call close.                        *)
FairSpec ==
    /\ Spec
    /\ WF_vars(Main) /\ WF_vars(Io) /\ WF_vars(close_acceptor) /\ WF_vars(Accepted)
-----------------------------------------------------------------------------
(***************************************************************************)
(* Properties.                                                             *)
(***************************************************************************)

\* Every variable of the server has its type.
TypeOK ==
    /\ main \in Locations
    /\ allocated \in SUBSET Objects /\ held \in SUBSET Members
    /\ is_working_ \in BOOLEAN
    /\ acceptor \in {"listening", "closed"}
    /\ backlog \in Seq(Clients)
    /\ accepts \in Seq(SUBSET Copied)
    /\ completions \in Seq(Completion)
    /\ io \in {"none", "idle", "handled", "restart", "ended"}
    /\ closer \in {"no", "flagged", "done"}
    /\ session \in [Clients -> {"none", "active", "ended"}]
    /\ context \in [Clients -> SUBSET Copied]
    /\ errors \in Nat /\ late \in Nat

InHandler == IF io \in {"handled", "restart"} THEN 1 ELSE 0
\* How many accepts are pending, completed or being handled.
Loops == Len(accepts) + Len(completions) + InHandler

(* A working server has exactly one accept under way, whatever fails: with  *)
(* none it would be deaf and run would return, with two a session would     *)
(* outlive close.  A server that does not work has at most one.             *)
OneAccept == Loops <= 1 /\ (is_working_ => Loops = 1 /\ io # "ended")

(* A session never starts before open_output_file has succeeded, and of the *)
(* five pointers it copied when its accept was started exactly one is null: *)
(* audio_fifo_, which the constructor clears and nothing sets.  That is the *)
(* pointer whose use ends the process in Pipeline, without FifoAllocated.   *)
OnlyTheFifoIsNull ==
    Active # {} => /\ main \in {"returned", "asleep", "crashed"}
                   /\ \A c \in Active : Copied \ context[c] = {"fifo"}

\* What ~Server leaves allocated: it frees what the members point to.
Leaked == allocated \ (held \cup IF "output" \in held THEN Owned ELSE {})

(* Wherever open_output_file returns, the destructor frees what has been    *)
(* allocated so far.                                                        *)
NothingLost == Leaked = {}

(* After close has cleared is_working_ at most one more session starts, the *)
(* one whose accept was under way.                                          *)
AtMostOneLate == late <= 1

(* A working server serves everybody who connects, also after accepts that  *)
(* have failed, unless it is closed or dies.                                *)
Served ==
    \A c \in Clients :
        is_working_ /\ Waiting(c) ~> session[c] # "none" \/ closer # "no" \/ ~Up

\* Once the acceptor has been closed the accept loop ends for good.
LoopEnds == closer = "done" ~> [](Loops = 0 \/ ~Up)

(* A client that has connected is received (README.md line 3: "Monitor a    *)
(* tcp/ip port, receive a connection from a client").  When open has failed *)
(* the port is still monitored, by nobody.                                  *)
ConnectionsAreReceived ==
    \A c \in Clients : Waiting(c) ~> session[c] # "none" \/ ~Up
=============================================================================
