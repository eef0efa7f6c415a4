------------------------------ MODULE LfuCache ------------------------------
(***************************************************************************)
(* The object cache with LFU policy of util/LfuCache.hpp.                  *)
(*                                                                         *)
(* The class keeps the same entries twice: storage_ maps a key to its      *)
(* value, and policy_ is a heap of (key, priority) pairs whose top is the  *)
(* next entry to go.  Both are kept here, as total functions with None for *)
(* a key that is absent, so that their agreement is a property and not an  *)
(* assumption.  The heap is abstracted to the set of its least pairs:      *)
(* which of several least pairs is on top depends on the heap's layout,    *)
(* so RemoveTop may take any of them.                                      *)
(*                                                                         *)
(* Every operation runs under mutex_ and is one atomic step.               *)
(***************************************************************************)
EXTENDS Integers, FiniteSets

CONSTANTS
  Keys,           \* keys that clients use
  Values,         \* values that clients store
  None,           \* no value, no priority
  PriorityLimit,  \* number of values of a priority (2^32: it is an unsigned)
  Capacities,     \* bound: the capacities that reserve() is called with
  MaxAccesses     \* bound: how often find() is called

ASSUME KeysAssumption  == IsFiniteSet(Keys)
ASSUME NoneAssumption  == None \notin Values /\ None \notin Int
ASSUME LimitAssumption == PriorityLimit \in Nat /\ PriorityLimit >= 2
ASSUME BoundsAssumption == Capacities \subseteq Nat /\ MaxAccesses \in Nat

VARIABLES
  storage,    \* storage_: the value of each key, or None
  policy,     \* policy_: the priority of each key, or None
  capacity,   \* policy_.capacity()
  accCount,   \* acc_count_
  hitCount    \* hit_count_

vars == <<storage, policy, capacity, accCount, hitCount>>

Priorities == 0 .. PriorityLimit - 1

TypeOK ==
  /\ storage \in [Keys -> Values \cup {None}]
  /\ policy \in [Keys -> Priorities \cup {None}]
  /\ capacity \in Nat
  /\ accCount \in Nat
  /\ hitCount \in Nat

Stored == {k \in Keys : storage[k] # None}
Ranked == {k \in Keys : policy[k] # None}

(* size() *)
Size == Cardinality(Ranked)

(* LfuCache(0), the constructor that the search engine uses.               *)
Init ==
  /\ storage = [k \in Keys |-> None]
  /\ policy = [k \in Keys |-> None]
  /\ capacity = 0
  /\ accCount = 0
  /\ hitCount = 0

-----------------------------------------------------------------------------

(* A fault: the heap is ordered the other way round.                       *)
MostUsed(priority) ==
  {k \in Keys : /\ priority[k] # None
                /\ \A j \in Keys : priority[j] # None => priority[k] >= priority[j]}

(* The keys that may be on top of a heap with the given priorities.        *)
Tops(priority) ==
  {k \in Keys : /\ priority[k] # None
                /\ \A j \in Keys : priority[j] # None => priority[k] <= priority[j]}

(* A function without its entries for the given keys.                      *)
Without(f, gone) == [k \in Keys |-> IF k \in gone THEN None ELSE f[k]]

(* What remove_top_() takes away to make room for one more entry.          *)
Victims == IF Size = capacity THEN {{top} : top \in Tops(policy)} ELSE {{}}

(* insert_() of a key that is absent.  The new key enters storage_ before  *)
(* remove_top_() and policy_ after it, so it is never its own victim.      *)
InsertNew(k, v) ==
  \E gone \in Victims :
    /\ storage' = [Without(storage, gone) EXCEPT ![k] = v]
    /\ policy' = [Without(policy, gone) EXCEPT ![k] = 1]

(* insert(): a present key keeps its value and its priority.               *)
Insert(k, v) ==
  /\ IF capacity = 0 \/ k \in Stored
       THEN UNCHANGED <<storage, policy>>
       ELSE InsertNew(k, v)
  /\ UNCHANGED <<capacity, accCount, hitCount>>

(* A fault: an update counts as a use.                                     *)
UpdateAsUse(k, v) ==
  /\ capacity # 0
  /\ IF k \in Stored
       THEN /\ storage' = [storage EXCEPT ![k] = v]
            /\ policy' = [policy EXCEPT ![k] = @ + 1]
       ELSE InsertNew(k, v)
  /\ UNCHANGED <<capacity, accCount, hitCount>>

(* update(): overwrites the value of a present key, resets its priority.   *)
Update(k, v) ==
  /\ CASE capacity = 0 -> UNCHANGED <<storage, policy>>
       [] capacity # 0 /\ k \in Stored ->
            /\ storage' = [storage EXCEPT ![k] = v]
            /\ policy' = [policy EXCEPT ![k] = 1]
       [] OTHER -> InsertNew(k, v)
  /\ UNCHANGED <<capacity, accCount, hitCount>>

(* A fault: only a key that is present can be looked up.                   *)
FindPresent(k) ==
  /\ k \in Stored
  /\ policy' = [policy EXCEPT ![k] = (@ + 1) % PriorityLimit]
  /\ hitCount' = hitCount + 1
  /\ accCount' = accCount + 1
  /\ UNCHANGED <<storage, capacity>>

(* find(): returns storage[k]; a hit raises the priority, which wraps.     *)
Find(k) ==
  /\ IF k \in Stored
       THEN /\ policy' = [policy EXCEPT ![k] = (@ + 1) % PriorityLimit]
            /\ hitCount' = hitCount + 1
       ELSE UNCHANGED <<policy, hitCount>>
  /\ accCount' = accCount + 1
  /\ UNCHANGED <<storage, capacity>>

(* erase(): gives the key the least priority, then removes the top of the  *)
(* heap, whichever key that is.                                            *)
Erase(k) ==
  /\ k \in Stored
  /\ \E top \in Tops([policy EXCEPT ![k] = 0]) :
       /\ storage' = Without(storage, {top})
       /\ policy' = Without([policy EXCEPT ![k] = 0], {top})
  /\ UNCHANGED <<capacity, accCount, hitCount>>

(* reserve(): the capacity only grows.                                     *)
Reserve(n) ==
  /\ n > capacity
  /\ capacity' = n
  /\ UNCHANGED <<storage, policy, accCount, hitCount>>

(* A fault: only one of the containers is cleared.                         *)
ClearStorage ==
  /\ storage' = [k \in Keys |-> None]
  /\ UNCHANGED <<policy, capacity, accCount, hitCount>>

(* clear(): keeps the counters.                                            *)
Clear ==
  /\ storage' = [k \in Keys |-> None]
  /\ policy' = [k \in Keys |-> None]
  /\ UNCHANGED <<capacity, accCount, hitCount>>

Next ==
  \/ \E k \in Keys, v \in Values : Insert(k, v)
  \/ \E k \in Keys, v \in Values : Update(k, v)
  \/ \E k \in Keys : accCount < MaxAccesses /\ Find(k)
  \/ \E k \in Keys : Erase(k)
  \/ \E n \in Capacities : Reserve(n)
  \/ Clear

Spec == Init /\ [][Next]_vars

-----------------------------------------------------------------------------

(* The two containers hold the same keys, never more than the capacity:    *)
(* LfuCache.hpp dereferences, without a check, the entry that each of them *)
(* says the other one has.                                                 *)
ContainersAgree ==
  /\ Stored = Ranked
  /\ Size <= capacity

(* Every priority point above the first was earned by a counted hit, and   *)
(* every hit was an access: what hit_rate() and list() report of the       *)
(* entries that are still there can be traced to find() calls.             *)
Earned == {p \in Keys \X Priorities : policy[p[1]] # None /\ 0 < p[2] /\ p[2] < policy[p[1]]}
HitsAccountForPriorities ==
  /\ Cardinality(Earned) <= hitCount
  /\ hitCount <= accCount

(* The finds of each entry, read off its priority.                         *)
Uses == [k \in Keys |-> IF policy[k] = None THEN 0 ELSE policy[k] - 1]

(* What the class promises its clients: see LfuPolicy.                     *)
Abstract == INSTANCE LfuPolicy WITH contents <- storage, uses <- Uses, room <- capacity

(* The cache implements a least-frequently-used policy: the entry that     *)
(* makes room has been found least often since it was stored, erase()      *)
(* removes its key and no other, and find() and insert() of a present key  *)
(* never change a value.                                                   *)
ImplementsLfuPolicy == Abstract!Spec

=============================================================================
