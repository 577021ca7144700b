------------------------------ MODULE Exchange ------------------------------
(***************************************************************************)
(* What a connection promises its client, without reads, writes or         *)
(* buffers: questions are answered in the order in which they were asked,  *)
(* each by an answer of its own kind; a report wants no answer; a farewell *)
(* or garbage ends the connection, and so may anything else at any time.   *)
(* Session.tla implements it.                                              *)
(***************************************************************************)
EXTENDS Naturals, Sequences

CONSTANTS
    Clients,
    MaxQuestions    \* bound: questions a client may ask

VARIABLES
    asked,          \* the questions each client has asked completely
    answered,       \* the answers it has received, each with its question's number
    over            \* whether its connection has ended

vars == <<asked, answered, over>>

Questions == {"test", "report", "block", "unknown", "farewell", "garbage"}

\* The answers that suit a question.
Suits(question) ==
    CASE question = "test" -> {"status"}
      [] question = "block" -> {"response", "refusal"}
      [] question = "unknown" -> {"unknown"}
      [] OTHER -> {}

Init ==
    /\ asked = [c \in Clients |-> << >>]
    /\ answered = [c \in Clients |-> << >>]
    /\ over = [c \in Clients |-> FALSE]

\* The number of the question answered last.
Last(c) == IF answered[c] = << >> THEN 0 ELSE answered[c][Len(answered[c])].to

Ask(c, question) ==
    /\ Len(asked[c]) < MaxQuestions
    /\ asked' = [asked EXCEPT ![c] = Append(@, question)]
    /\ UNCHANGED <<answered, over>>

\* Only reports are passed over.
Answer(c) ==
    /\ ~over[c]
    /\ \E k \in Last(c) + 1 .. Len(asked[c]) : \E kind \in Suits(asked[c][k]) :
          /\ \A j \in Last(c) + 1 .. k - 1 : asked[c][j] = "report"
          /\ answered' = [answered EXCEPT ![c] = Append(@, [to |-> k, kind |-> kind])]
    /\ UNCHANGED <<asked, over>>

\* One connection ends, or all those of a process that dies.
End ==
    /\ \E C \in SUBSET Clients : over' = [c \in Clients |-> over[c] \/ c \in C]
    /\ UNCHANGED <<asked, answered>>

Next == End \/ \E c \in Clients : Answer(c) \/ \E q \in Questions : Ask(c, q)

Spec == Init /\ [][Next]_vars

\* A question that wants an answer gets one, or the connection ends.
Live ==
    \A c \in Clients : \A k \in 1..MaxQuestions :
        (Len(asked[c]) >= k /\ asked[c][k] # "report") ~> (Last(c) >= k \/ over[c])
=============================================================================
