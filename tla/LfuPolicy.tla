----------------------------- MODULE LfuPolicy ------------------------------
(***************************************************************************)
(* What a cache "with LFU policy" promises (util/LfuCache.hpp), without    *)
(* its heap and its counters: a bounded map that knows how often each of   *)
(* its entries has been found since it was stored, and that makes room by  *)
(* giving up an entry that was found least often.                          *)
(***************************************************************************)
EXTENDS Integers, FiniteSets

CONSTANTS Keys, Values, None

VARIABLES
  contents,   \* the value of each key, or None
  uses,       \* how often each entry was found since it was stored
  room        \* how many entries fit

vars == <<contents, uses, room>>

Present == {k \in Keys : contents[k] # None}

(* Removing exactly the entries of some keys.                              *)
Remove(gone) ==
  /\ contents' = [k \in Keys |-> IF k \in gone THEN None ELSE contents[k]]
  /\ uses' = [k \in Keys |-> IF k \in gone THEN 0 ELSE uses[k]]

LeastUsed(k) == \A j \in Present : uses[k] <= uses[j]

Init ==
  /\ contents = [k \in Keys |-> None]
  /\ uses = [k \in Keys |-> 0]
  /\ room = 0

(* A new entry fits, or takes the place of a least used one.               *)
Add(k, v) ==
  /\ k \notin Present
  /\ room > 0
  /\ \/ /\ Cardinality(Present) < room
        /\ contents' = [contents EXCEPT ![k] = v]
        /\ uses' = [uses EXCEPT ![k] = 0]
     \/ \E victim \in Present :
          /\ Cardinality(Present) = room
          /\ LeastUsed(victim)
          /\ contents' = [contents EXCEPT ![victim] = None, ![k] = v]
          /\ uses' = [uses EXCEPT ![victim] = 0, ![k] = 0]
  /\ UNCHANGED room

(* Storing a new value starts a new life of the entry.                     *)
Replace(k, v) ==
  /\ k \in Present
  /\ contents' = [contents EXCEPT ![k] = v]
  /\ uses' = [uses EXCEPT ![k] = 0]
  /\ UNCHANGED room

Use(k) ==
  /\ k \in Present
  /\ uses' = [uses EXCEPT ![k] = @ + 1]
  /\ UNCHANGED <<contents, room>>

Drop(k) ==
  /\ k \in Present
  /\ Remove({k})
  /\ UNCHANGED room

DropAll ==
  /\ Remove(Keys)
  /\ UNCHANGED room

Grow ==
  /\ room' \in Nat
  /\ room' > room
  /\ UNCHANGED <<contents, uses>>

Next ==
  \/ \E k \in Keys, v \in Values : Add(k, v) \/ Replace(k, v)
  \/ \E k \in Keys : Use(k) \/ Drop(k)
  \/ DropAll
  \/ Grow

Spec == Init /\ [][Next]_vars

=============================================================================
