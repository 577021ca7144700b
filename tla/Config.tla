------------------------------- MODULE Config -------------------------------
(***************************************************************************)
(* class System (src/System.h, src/System.cpp): the configuration, read    *)
(* from config.json by the constructor of a singleton before main does     *)
(* anything else.                                                          *)
(*                                                                         *)
(* Seven values are read in a fixed order over their defaults.  The first  *)
(* read that throws ends the reading, and what has been read stays.  A     *)
(* step is one read.  Of a value only its origin is kept; of an entry of   *)
(* the file whether root.get finds it and can translate it: a number that  *)
(* the type of the member cannot hold is "bad", like a word.               *)
(***************************************************************************)
EXTENDS Naturals, Sequences, TLAPS

\* The keys in the order in which the constructor reads them.
Keys == <<"server_port", "output_url", "codec_name", "bitrate", "channels",
          "bits_per_sample", "sample_rate">>
Entries == {"good", "missing", "bad"}

VARIABLES
    file,       \* whether read_json succeeds
    entries,    \* the entry of each key in config.json
    values,     \* where the member of each key has its value from
    next        \* the number of the next key to read; 0 before read_json

vars == <<file, entries, values, next>>

\* The catch clause, or the end of the try block.
Done == Len(Keys) + 1

Init ==
    /\ file \in {"readable", "unreadable"}
    /\ entries \in [1..Len(Keys) -> Entries]
    /\ values = [k \in 1..Len(Keys) |-> "default"]
    /\ next = 0

read_json ==
    /\ next = 0 /\ next' = IF file = "readable" THEN 1 ELSE Done
    /\ UNCHANGED <<file, entries, values>>

\* Mutant: a value that cannot be read keeps its default and the rest is read.
get_each ==
    /\ next \in 1..Len(Keys) /\ next' = next + 1
    /\ values' = IF entries[next] = "good" THEN [values EXCEPT ![next] = "file"] ELSE values
    /\ UNCHANGED <<file, entries>>

get ==
    /\ next \in 1..Len(Keys)
    /\ \/ /\ entries[next] = "good"
          /\ values' = [values EXCEPT ![next] = "file"]
          /\ next' = next + 1
       \/ /\ entries[next] # "good"
          /\ next' = Done
          /\ UNCHANGED values
    /\ UNCHANGED <<file, entries>>

Next == read_json \/ get

Spec == Init /\ [][Next]_vars
-----------------------------------------------------------------------------
\* Every variable of the configuration has its type.
TypeOK ==
    /\ file \in {"readable", "unreadable"}
    /\ entries \in [1..Len(Keys) -> Entries]
    /\ values \in [1..Len(Keys) -> {"default", "file"}]
    /\ next \in 0..Done

\* A key comes from the file when it and every key read before it are good.
GoodUpTo(k) == file = "readable" /\ \A j \in 1..k : entries[j] = "good"

(* Wherever the reading stops, the values of the file are those in front of *)
(* the first entry that cannot be read, and all the others are defaults:    *)
(* what main sees when the constructor has returned depends on the order of *)
(* the reads, but is never a value from behind an exception.                *)
FileThenDefaults ==
    next = Done => \A k \in DOMAIN values : values[k] = "file" <=> GoodUpTo(k)
-----------------------------------------------------------------------------
(***************************************************************************)
(* Proofs.  While the constructor reads, everything in front of the next   *)
(* key has been good.                                                      *)
(***************************************************************************)
SoFar ==
    /\ TypeOK
    /\ next \in 1..Len(Keys) => GoodUpTo(next - 1)
    /\ \A k \in 1..Len(Keys) :
          values[k] = "file" <=> GoodUpTo(k) /\ (next # Done => k < next)

LEMMA SevenKeys == Len(Keys) = 7 /\ Done = 8
BY DEF Keys, Done

LEMMA SoFarStep == SoFar /\ [Next]_vars => SoFar'
<1> SUFFICES ASSUME SoFar, [Next]_vars PROVE SoFar'
  OBVIOUS
<1>1. CASE read_json
  BY <1>1, SevenKeys DEF read_json, SoFar, TypeOK, GoodUpTo
<1>2. CASE get /\ entries[next] = "good"
  <2>1. next \in 1..7 /\ next' = next + 1 /\ values' = [values EXCEPT ![next] = "file"]
        /\ UNCHANGED <<file, entries>>
    BY <1>2, SevenKeys DEF get
  <2>2. GoodUpTo(next - 1) /\ GoodUpTo(next)
    BY <1>2, <2>1, SevenKeys DEF SoFar, GoodUpTo
  <2>3. TypeOK'
    BY <2>1, SevenKeys DEF SoFar, TypeOK
  <2>4. \A k \in 1..7 : k <= next => GoodUpTo(k)
    BY <2>1, <2>2 DEF GoodUpTo
  <2>5. ASSUME NEW k \in 1..7
        PROVE  values'[k] = "file" <=> GoodUpTo(k)' /\ (next' # Done => k < next')
    <3>1. GoodUpTo(k)' <=> GoodUpTo(k)
      BY <2>1 DEF GoodUpTo
    <3>2. (k < next') <=> k <= next
      BY <2>1
    <3>3. k = next => values'[k] = "file"
      BY <2>1, SevenKeys DEF SoFar, TypeOK
    <3>4. k # next => values'[k] = values[k]
      BY <2>1, SevenKeys DEF SoFar, TypeOK
    <3>5. values[k] = "file" <=> GoodUpTo(k) /\ k < next
      BY <2>1, SevenKeys DEF SoFar
    <3>6. next' = Done => k <= next
      BY <2>1, SevenKeys
    <3>. QED
      BY <2>1, <2>4, <3>1, <3>2, <3>3, <3>4, <3>5, <3>6
  <2>. QED
    BY <2>1, <2>2, <2>3, <2>5, SevenKeys DEF SoFar, GoodUpTo
<1>3. CASE get /\ entries[next] # "good"
  <2>1. \A k \in 1..7 : GoodUpTo(k) => k < next
    BY <1>3, SevenKeys DEF get, GoodUpTo
  <2>. QED
    BY <1>3, <2>1, SevenKeys DEF get, SoFar, TypeOK, GoodUpTo
<1>4. CASE UNCHANGED vars
  BY <1>4 DEF vars, SoFar, TypeOK, GoodUpTo
<1>. QED
  BY <1>1, <1>2, <1>3, <1>4 DEF Next, get

\* TypeOK: a member is never left with anything but a default or a value read.
THEOREM ConfigTypeCorrect == Spec => []TypeOK
<1>1. Init => SoFar
  BY SevenKeys DEF Init, SoFar, TypeOK, GoodUpTo
<1>2. SoFar => TypeOK
  BY DEF SoFar
<1>. QED
  BY <1>1, <1>2, SoFarStep, PTL DEF Spec

(***************************************************************************)
(* FileThenDefaults: the values of the file are a prefix of the reads.     *)
(***************************************************************************)
THEOREM PrefixOfTheFile == Spec => []FileThenDefaults
<1>1. Init => SoFar
  BY SevenKeys DEF Init, SoFar, TypeOK, GoodUpTo
<1>2. SoFar => FileThenDefaults
  BY DEF SoFar, TypeOK, FileThenDefaults
<1>. QED
  BY <1>1, <1>2, SoFarStep, PTL DEF Spec
=============================================================================
