------------------------------ MODULE Dictionary ----------------------------
(***************************************************************************)
(* What a hash map on disk promises the threads that look keys up in it    *)
(* (bighashmap/BigHashMap.hpp): every lookup of a key that was put in when *)
(* the map was built returns its value.  A lookup of another key finds     *)
(* nothing, unless its checksum is that of a key in the map.               *)
(***************************************************************************)
CONSTANTS
  Keys,       \* keys that are looked up
  Known,      \* keys that were put in
  Checksum,   \* the checksum of each key
  ValueOf,    \* the value of each known key
  Threads,
  None,       \* no lookup, no result
  Missing     \* the result that reports that there is no value

VARIABLES
  lookup,     \* per thread: the key of its last lookup
  result      \* the result of that lookup, None while there is none

Init ==
  /\ lookup = [t \in Threads |-> None]
  /\ result = [t \in Threads |-> None]

Answers(k) ==
  IF k \in Known THEN {ValueOf[k]}
  ELSE {Missing} \cup {ValueOf[j] : j \in {j \in Known : Checksum[j] = Checksum[k]}}

Pending(t) == lookup[t] # None /\ result[t] = None

Ask(t, k) ==
  /\ ~ Pending(t)
  /\ lookup' = [lookup EXCEPT ![t] = k]
  /\ result' = [result EXCEPT ![t] = None]

Answer(t) ==
  /\ Pending(t)
  /\ \E answer \in Answers(lookup[t]) : result' = [result EXCEPT ![t] = answer]
  /\ UNCHANGED lookup

Next == \E t \in Threads : Answer(t) \/ \E k \in Keys : Ask(t, k)

Spec == Init /\ [][Next]_<<lookup, result>>

=============================================================================
