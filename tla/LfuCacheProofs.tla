--------------------------- MODULE LfuCacheProofs ---------------------------
(***************************************************************************)
(* Proofs about LfuCache, for every set of keys and values, every capacity *)
(* and every width of a priority.                                          *)
(***************************************************************************)
EXTENDS LfuCache, FiniteSetTheorems, TLAPS

(* One more entry in place of at most one other: how InsertNew changes the *)
(* entries of either container.                                            *)
LEMMA InsertNewKeys ==
  ASSUME TypeOK, NEW k \in Keys, NEW v \in Values, k \notin Stored,
         InsertNew(k, v), Stored = Ranked
  PROVE  \E gone \in Victims :
           /\ gone \subseteq Ranked
           /\ Stored' = (Stored \ gone) \cup {k}
           /\ Ranked' = (Ranked \ gone) \cup {k}
<1>1. PICK gone \in Victims :
        /\ storage' = [Without(storage, gone) EXCEPT ![k] = v]
        /\ policy' = [Without(policy, gone) EXCEPT ![k] = 1]
  BY DEF InsertNew
<1>2. gone \subseteq Ranked
  BY DEF Victims, Tops, Ranked
<1>3. Stored' = (Stored \ gone) \cup {k}
  BY <1>1, NoneAssumption DEF Stored, Without, TypeOK
<1>4. Ranked' = (Ranked \ gone) \cup {k}
  BY <1>1, NoneAssumption DEF Ranked, Without, TypeOK
<1>5. QED
  BY <1>2, <1>3, <1>4

-----------------------------------------------------------------------------

(* TypeOK alone is not inductive: find() raises the priority of a key that *)
(* it met in storage_, so that key must be in policy_ as well.             *)
InductiveInv == TypeOK /\ ContainersAgree

LEMMA RankedFinite == IsFiniteSet(Ranked) /\ Size \in Nat
  BY KeysAssumption, FS_Subset, FS_CardinalityType DEF Ranked, Size

(* insert_() of an absent key preserves the invariant.                     *)
LEMMA InsertNewPreserves ==
  ASSUME InductiveInv, NEW k \in Keys, NEW v \in Values, k \notin Stored,
         capacity # 0, UNCHANGED <<capacity, accCount, hitCount>>, InsertNew(k, v)
  PROVE  InductiveInv'
<1> USE DEF InductiveInv, ContainersAgree
<1>1. TypeOK'
  BY NoneAssumption, LimitAssumption DEF TypeOK, Priorities, InsertNew, Without
<1>2. PICK gone \in Victims :
        /\ gone \subseteq Ranked
        /\ Stored' = (Stored \ gone) \cup {k}
        /\ Ranked' = (Ranked \ gone) \cup {k}
  BY InsertNewKeys
<1>3. Stored' = Ranked'
  BY <1>2
<1>4. Size' <= capacity'
  <2>1. CASE Size = capacity
    <3>1. PICK top \in Ranked : gone = {top}
      BY <1>2, <2>1 DEF Victims
    <3>2. /\ IsFiniteSet(Ranked \ {top})
          /\ Cardinality(Ranked \ {top}) = Size - 1
      BY <3>1, RankedFinite, FS_RemoveElement DEF Size
    <3> DEFINE Rest == Ranked \ {top}
    <3>3. Cardinality(Rest \cup {k}) =
            IF k \in Rest THEN Cardinality(Rest) ELSE Cardinality(Rest) + 1
      BY <3>2, FS_AddElement
    <3>4. Ranked' = Rest \cup {k}
      BY <1>2, <3>1
    <3>5. Cardinality(Ranked') <= Size
      BY <3>2, <3>3, <3>4, RankedFinite
    <3>6. QED
      BY <2>1, <3>5 DEF Size
  <2>2. CASE Size # capacity
    <3>1. gone = {}
      BY <2>2 DEF Victims
    <3>2. Cardinality(Ranked \cup {k}) =
            IF k \in Ranked THEN Cardinality(Ranked) ELSE Cardinality(Ranked) + 1
      BY RankedFinite, FS_AddElement
    <3>3. Size + 1 <= capacity
      BY <2>2, RankedFinite DEF TypeOK
    <3>4. Ranked' = Ranked \cup {k}
      BY <1>2, <3>1
    <3>5. Size' \in Nat /\ Size' <= Size + 1
      BY <3>2, <3>4, RankedFinite DEF Size
    <3>6. QED
      BY <3>3, <3>5, RankedFinite DEF TypeOK
  <2>3. QED
    BY <2>1, <2>2
<1>5. QED
  BY <1>1, <1>3, <1>4

(* An operation that removes entries from both containers at once, or that *)
(* leaves their keys alone, preserves their agreement.                     *)
LEMMA FewerEntriesAgree ==
  ASSUME InductiveInv, Stored' = Ranked', Ranked' \subseteq Ranked,
         capacity' \in Nat, capacity <= capacity'
  PROVE  ContainersAgree'
<1>1. Cardinality(Ranked') <= Cardinality(Ranked) /\ Cardinality(Ranked') \in Nat
  BY RankedFinite, FS_Subset, FS_CardinalityType
<1>2. QED
  BY <1>1, RankedFinite DEF InductiveInv, ContainersAgree, TypeOK, Size

THEOREM InvariantStep == InductiveInv /\ [Next]_vars => InductiveInv'
<1> SUFFICES ASSUME InductiveInv, [Next]_vars PROVE InductiveInv'
  OBVIOUS
<1> USE NoneAssumption, LimitAssumption
<1>1. ASSUME NEW k \in Keys, NEW v \in Values, Insert(k, v) PROVE InductiveInv'
  <2>1. CASE capacity = 0 \/ k \in Stored
    BY <1>1, <2>1, RankedFinite
       DEF Insert, InductiveInv, TypeOK, ContainersAgree, Stored, Ranked, Size
  <2>2. CASE ~(capacity = 0 \/ k \in Stored)
    BY <1>1, <2>2, InsertNewPreserves DEF Insert
  <2>3. QED
    BY <2>1, <2>2
<1>2. ASSUME NEW k \in Keys, NEW v \in Values, Update(k, v) PROVE InductiveInv'
  <2>1. CASE capacity = 0
    BY <1>2, <2>1, RankedFinite
       DEF Update, InductiveInv, TypeOK, ContainersAgree, Stored, Ranked, Size
  <2>2. CASE capacity # 0 /\ k \in Stored
    <3>1. /\ storage' = [storage EXCEPT ![k] = v]
          /\ policy' = [policy EXCEPT ![k] = 1]
          /\ UNCHANGED <<capacity, accCount, hitCount>>
      BY <1>2, <2>2 DEF Update
    <3>2. TypeOK'
      BY <3>1 DEF InductiveInv, TypeOK, Priorities
    <3>3. Stored' = Stored /\ Ranked' = Ranked
      BY <2>2, <3>1 DEF InductiveInv, TypeOK, ContainersAgree, Stored, Ranked
    <3>4. QED
      BY <3>1, <3>2, <3>3 DEF InductiveInv, ContainersAgree, Size
  <2>3. CASE capacity # 0 /\ k \notin Stored
    BY <1>2, <2>3, InsertNewPreserves DEF Update
  <2>4. QED
    BY <2>1, <2>2, <2>3
<1>3. ASSUME NEW k \in Keys, Find(k) PROVE InductiveInv'
  <2>1. CASE k \in Stored
    <3>1. policy[k] \in Priorities
      BY <2>1 DEF InductiveInv, TypeOK, ContainersAgree, Ranked
    <3>2. (policy[k] + 1) % PriorityLimit \in Priorities
      BY <3>1 DEF Priorities
    <3>3. TypeOK'
      BY <1>3, <2>1, <3>2 DEF Find, InductiveInv, TypeOK
    <3>4. Stored' = Stored /\ Ranked' = Ranked
      BY <1>3, <2>1, <3>2
         DEF Find, InductiveInv, TypeOK, ContainersAgree, Stored, Ranked, Priorities
    <3>5. QED
      BY <1>3, <3>3, <3>4 DEF Find, InductiveInv, ContainersAgree, Size
  <2>2. CASE k \notin Stored
    <3>1. UNCHANGED <<storage, policy, capacity, hitCount>> /\ accCount' = accCount + 1
      BY <1>3, <2>2 DEF Find
    <3>2. TypeOK'
      BY <3>1 DEF InductiveInv, TypeOK
    <3>3. Stored' = Stored /\ Ranked' = Ranked
      BY <3>1 DEF Stored, Ranked
    <3>4. QED
      BY <3>1, <3>2, <3>3 DEF InductiveInv, ContainersAgree, Size
  <2>3. QED
    BY <2>1, <2>2
<1>4. ASSUME NEW k \in Keys, Erase(k) PROVE InductiveInv'
  <2>1. PICK top \in Keys :
          /\ storage' = Without(storage, {top})
          /\ policy' = Without([policy EXCEPT ![k] = 0], {top})
    BY <1>4 DEF Erase, Tops
  <2>2. TypeOK'
    BY <1>4, <2>1 DEF Erase, Without, InductiveInv, TypeOK, Priorities
  <2>3. Stored' = Stored \ {top} /\ Ranked' = Ranked \ {top}
    BY <1>4, <2>1 DEF Erase, Without, InductiveInv, TypeOK, ContainersAgree, Stored, Ranked
  <2>4. ContainersAgree'
    BY <1>4, <2>2, <2>3, FewerEntriesAgree DEF Erase, InductiveInv, ContainersAgree, TypeOK
  <2>5. QED
    BY <2>2, <2>4 DEF InductiveInv
<1>5. ASSUME NEW n \in Capacities, Reserve(n) PROVE InductiveInv'
  <2>1. TypeOK'
    BY <1>5, BoundsAssumption DEF Reserve, InductiveInv, TypeOK
  <2>2. Stored' = Stored /\ Ranked' = Ranked
    BY <1>5 DEF Reserve, Stored, Ranked
  <2>3. ContainersAgree'
    BY <1>5, <2>1, <2>2, FewerEntriesAgree
       DEF Reserve, InductiveInv, ContainersAgree, TypeOK
  <2>4. QED
    BY <2>1, <2>3 DEF InductiveInv
<1>6. CASE Clear
  <2>1. TypeOK'
    BY <1>6 DEF Clear, InductiveInv, TypeOK
  <2>2. Stored' = {} /\ Ranked' = {}
    BY <1>6 DEF Clear, Stored, Ranked
  <2>3. ContainersAgree'
    BY <1>6, <2>1, <2>2, FewerEntriesAgree DEF Clear, TypeOK
  <2>4. QED
    BY <2>1, <2>3 DEF InductiveInv
<1>7. CASE UNCHANGED vars
  BY <1>7 DEF vars, InductiveInv, TypeOK, ContainersAgree, Stored, Ranked, Size
<1>8. QED
  BY <1>1, <1>2, <1>3, <1>4, <1>5, <1>6, <1>7 DEF Next

(* The fields of the cache keep their types, a priority never leaves the   *)
(* width of its unsigned, and storage_ and policy_ always hold the same    *)
(* keys, at most as many as the capacity.                                  *)
THEOREM CacheConsistent == Spec => [](TypeOK /\ ContainersAgree)
<1>1. Init => InductiveInv
  <2>1. Init => TypeOK
    BY DEF Init, TypeOK
  <2>2. Init => Stored = {} /\ Ranked = {}
    BY DEF Init, Stored, Ranked
  <2>3. Init => ContainersAgree
    BY <2>2, FS_EmptySet DEF Init, ContainersAgree, Size
  <2>4. QED
    BY <2>1, <2>3 DEF InductiveInv
<1>2. InductiveInv => TypeOK /\ ContainersAgree
  BY DEF InductiveInv
<1>3. QED
  BY <1>1, <1>2, InvariantStep, PTL DEF Spec

-----------------------------------------------------------------------------
(* Hits and priorities, wrapped or not.                                    *)

(* The points of the entries can be counted.                               *)
LEMMA EarnedFinite == IsFiniteSet(Earned) /\ Cardinality(Earned) \in Nat
<1>1. IsFiniteSet(Priorities)
  <2>1. PriorityLimit - 1 \in Int /\ 0 \in Int
    BY LimitAssumption
  <2> QED
    BY <2>1, FS_Interval DEF Priorities
<1>2. IsFiniteSet(Keys \X Priorities)
  BY <1>1, KeysAssumption, FS_Product
<1>3. Earned \subseteq Keys \X Priorities
  BY DEF Earned
<1> QED
  BY <1>2, <1>3, FS_Subset, FS_CardinalityType

(* No entry has a higher priority than before, and no hit is forgotten.    *)
LEMMA NothingEarned ==
  ASSUME HitsAccountForPriorities, hitCount \in Nat, UNCHANGED hitCount, accCount' \in Nat,
         accCount \in Nat, accCount <= accCount', Earned' \subseteq Earned
  PROVE  HitsAccountForPriorities'
<1>1. Cardinality(Earned') <= Cardinality(Earned) /\ Cardinality(Earned') \in Nat
  BY EarnedFinite, FS_Subset, FS_CardinalityType
<1> QED
  BY <1>1, EarnedFinite DEF HitsAccountForPriorities

(* A hit earns at most one point.                                          *)
LEMMA HitEarnsOne ==
  ASSUME InductiveInv, HitsAccountForPriorities, NEW k \in Stored, Find(k)
  PROVE  HitsAccountForPriorities'
<1>1. /\ k \in Keys /\ policy[k] # None /\ policy[k] \in Priorities
      /\ policy' = [policy EXCEPT ![k] = (policy[k] + 1) % PriorityLimit]
      /\ hitCount' = hitCount + 1 /\ accCount' = accCount + 1
      /\ hitCount \in Nat /\ accCount \in Nat
  BY DEF Find, InductiveInv, ContainersAgree, TypeOK, Stored, Ranked
<1> DEFINE new == (policy[k] + 1) % PriorityLimit
<1>2. new = 0 \/ new = policy[k] + 1
  <2>1. policy[k] + 1 < PriorityLimit \/ policy[k] + 1 = PriorityLimit
    BY <1>1, LimitAssumption DEF Priorities
  <2>2. CASE policy[k] + 1 < PriorityLimit
    BY <1>1, <2>2, LimitAssumption DEF Priorities
  <2>3. CASE policy[k] + 1 = PriorityLimit
    BY <2>3, LimitAssumption
  <2> QED
    BY <2>1, <2>2, <2>3
<1> HIDE DEF new
<1>3. \A j \in Keys : policy'[j] = IF j = k THEN new ELSE policy[j]
  BY <1>1 DEF InductiveInv, TypeOK, new
<1>4. Earned' \subseteq Earned \cup {<<k, policy[k]>>}
  <2> SUFFICES ASSUME NEW j \in Keys, NEW n \in Priorities, <<j, n>> \in Earned'
               PROVE  <<j, n>> \in Earned \cup {<<k, policy[k]>>}
    BY DEF Earned
  <2>1. policy'[j] # None /\ 0 < n /\ n < policy'[j]
    BY DEF Earned
  <2>2. CASE j # k
    BY <1>3, <2>1, <2>2 DEF Earned
  <2>3. CASE j = k
    <3>1. n < policy[k] + 1
      BY <1>1, <1>2, <1>3, <2>1, <2>3 DEF Priorities
    <3>2. n < policy[k] \/ n = policy[k]
      BY <1>1, <3>1 DEF Priorities
    <3> QED
      BY <1>1, <2>1, <2>3, <3>2 DEF Earned
  <2> QED
    BY <2>2, <2>3
<1>5. Cardinality(Earned \cup {<<k, policy[k]>>}) <= Cardinality(Earned) + 1
  BY EarnedFinite, FS_AddElement
<1>6. IsFiniteSet(Earned \cup {<<k, policy[k]>>})
  BY EarnedFinite, FS_AddElement
<1>7. Cardinality(Earned') <= Cardinality(Earned \cup {<<k, policy[k]>>})
  BY <1>4, <1>6, FS_Subset
<1>8. Cardinality(Earned') \in Nat /\ Cardinality(Earned \cup {<<k, policy[k]>>}) \in Nat
  BY <1>4, <1>6, FS_Subset, FS_CardinalityType
<1> QED
  BY <1>1, <1>5, <1>7, <1>8, EarnedFinite DEF HitsAccountForPriorities

(* The points of a step that gives every key its old priority, none, or    *)
(* one without points.                                                     *)
LEMMA FewerPoints ==
  ASSUME \A k \in Keys : policy'[k] \in {policy[k], None, 0, 1}
  PROVE  Earned' \subseteq Earned
<1> SUFFICES ASSUME NEW k \in Keys, NEW n \in Priorities, <<k, n>> \in Earned'
             PROVE  <<k, n>> \in Earned
  BY DEF Earned
<1>1. policy'[k] # None /\ 0 < n /\ n < policy'[k] /\ n \in Nat
  BY LimitAssumption DEF Earned, Priorities
<1>2. policy'[k] # 0 /\ policy'[k] # 1
  BY <1>1
<1>3. policy'[k] = policy[k]
  BY <1>1, <1>2
<1> QED
  BY <1>1, <1>3 DEF Earned

(* No step adds points but a hit.                                          *)
LEMMA HitsAccountStep ==
  ASSUME InductiveInv, HitsAccountForPriorities, [Next]_vars
  PROVE  HitsAccountForPriorities'
<1>0. /\ policy \in [Keys -> Priorities \cup {None}] /\ hitCount \in Nat /\ accCount \in Nat
  BY DEF InductiveInv, TypeOK
<1>1. ASSUME UNCHANGED <<hitCount, accCount>>, \A k \in Keys : policy'[k] \in {policy[k], None, 0, 1}
      PROVE  HitsAccountForPriorities'
  BY <1>0, <1>1, FewerPoints, NothingEarned
<1>2. ASSUME NEW k \in Keys, NEW v \in Values, InsertNew(k, v), UNCHANGED <<hitCount, accCount>>
      PROVE  HitsAccountForPriorities'
  <2>1. PICK gone \in Victims : policy' = [Without(policy, gone) EXCEPT ![k] = 1]
    BY <1>2 DEF InsertNew
  <2>2. \A j \in Keys : policy'[j] \in {policy[j], None, 0, 1}
    BY <2>1 DEF Without
  <2> QED
    BY <1>1, <1>2, <2>2
<1>3. ASSUME NEW k \in Keys, NEW v \in Values, Insert(k, v) PROVE HitsAccountForPriorities'
  <2>1. CASE capacity = 0 \/ k \in Stored
    BY <1>1, <1>3, <2>1 DEF Insert
  <2>2. CASE ~ (capacity = 0 \/ k \in Stored)
    BY <1>2, <1>3, <2>2 DEF Insert
  <2> QED
    BY <2>1, <2>2
<1>4. ASSUME NEW k \in Keys, NEW v \in Values, Update(k, v) PROVE HitsAccountForPriorities'
  <2>1. UNCHANGED <<hitCount, accCount>>
    BY <1>4 DEF Update
  <2>2. CASE capacity = 0
    BY <1>1, <1>4, <2>1, <2>2 DEF Update
  <2>3. CASE capacity # 0 /\ k \in Stored
    <3>1. policy' = [policy EXCEPT ![k] = 1]
      BY <1>4, <2>3 DEF Update
    <3>2. \A j \in Keys : policy'[j] \in {policy[j], None, 0, 1}
      BY <1>0, <3>1
    <3> QED
      BY <1>1, <2>1, <3>2
  <2>4. CASE capacity # 0 /\ k \notin Stored
    BY <1>2, <1>4, <2>1, <2>4 DEF Update
  <2> QED
    BY <2>2, <2>3, <2>4
<1>5. ASSUME NEW k \in Keys, Find(k) PROVE HitsAccountForPriorities'
  <2>1. CASE k \in Stored
    BY <1>5, <2>1, HitEarnsOne
  <2>2. CASE k \notin Stored
    <3>1. UNCHANGED <<policy, hitCount>> /\ accCount' = accCount + 1
      BY <1>5, <2>2 DEF Find
    <3>2. Earned' \subseteq Earned
      BY <3>1 DEF Earned
    <3> QED
      BY <1>0, <3>1, <3>2, NothingEarned
  <2> QED
    BY <2>1, <2>2
<1>6. ASSUME NEW k \in Keys, Erase(k) PROVE HitsAccountForPriorities'
  <2>1. PICK top : policy' = Without([policy EXCEPT ![k] = 0], {top})
    BY <1>6 DEF Erase
  <2>2. \A j \in Keys : policy'[j] \in {policy[j], None, 0, 1}
    BY <1>0, <2>1 DEF Without
  <2>3. UNCHANGED <<hitCount, accCount>>
    BY <1>6 DEF Erase
  <2> QED
    BY <1>1, <2>2, <2>3
<1>7. ASSUME (\E n \in Capacities : Reserve(n)) \/ UNCHANGED vars PROVE HitsAccountForPriorities'
  BY <1>1, <1>7 DEF Reserve, vars
<1>8. ASSUME Clear PROVE HitsAccountForPriorities'
  BY <1>1, <1>8 DEF Clear
<1> QED
  BY <1>3, <1>4, <1>5, <1>6, <1>7, <1>8 DEF Next

(* Every point of a priority above the first was earned by a hit, also     *)
(* where priorities have wrapped: what hit_rate() and list() report can be *)
(* traced to calls of find().                                              *)
THEOREM HitsAreAccountedFor == Spec => []HitsAccountForPriorities
<1>1. Init => HitsAccountForPriorities
  <2>1. Init => Earned = {}
    BY DEF Init, Earned
  <2> QED
    BY <2>1, FS_EmptySet DEF Init, HitsAccountForPriorities
<1>2. Init => InductiveInv
  <2>1. Init => TypeOK
    BY DEF Init, TypeOK
  <2>2. Init => Stored = {} /\ Ranked = {}
    BY DEF Init, Stored, Ranked
  <2> QED
    BY <2>1, <2>2, FS_EmptySet DEF Init, InductiveInv, ContainersAgree, Size
<1>3. InductiveInv /\ HitsAccountForPriorities /\ [Next]_vars => HitsAccountForPriorities'
  BY HitsAccountStep
<1> QED
  BY <1>1, <1>2, <1>3, InvariantStep, PTL DEF Spec

-----------------------------------------------------------------------------
(***************************************************************************)
(* The cache implements LfuPolicy as long as no priority wraps, that is,   *)
(* while find() has been called less often than an unsigned can count.     *)
(***************************************************************************)

(* A priority counts the finds of its key, starting from one.              *)
PrioritiesCount ==
  /\ accCount <= MaxAccesses
  /\ \A k \in Ranked : policy[k] \in 1 .. accCount + 1

(* Without a wrap, priority 0 belongs to the key that is being erased.     *)
LEMMA ErasedKeyIsTop ==
  ASSUME InductiveInv, PrioritiesCount, NEW k \in Stored
  PROVE  Tops([policy EXCEPT ![k] = 0]) = {k}
<1>1. k \in Ranked /\ k \in Keys
  BY DEF InductiveInv, ContainersAgree, Stored
<1>2. \A j \in Keys : policy[j] # None => policy[j] \in 1 .. accCount + 1
  BY DEF PrioritiesCount, Ranked
<1> DEFINE lowered == [policy EXCEPT ![k] = 0]
<1>3. lowered[k] = 0 /\ \A j \in Keys \ {k} : lowered[j] = policy[j]
  BY <1>1 DEF InductiveInv, TypeOK
<1>4. 0 # None
  BY NoneAssumption
<1>5. \A j \in Keys : lowered[j] # None => 0 <= lowered[j]
  BY <1>2, <1>3 DEF InductiveInv, TypeOK
<1>6. k \in Tops(lowered)
  BY <1>1, <1>3, <1>4, <1>5 DEF Tops
<1>7. ASSUME NEW j \in Tops(lowered), j # k PROVE FALSE
  <2>1. j \in Keys /\ lowered[j] # None /\ lowered[j] <= lowered[k]
    BY <1>1, <1>3, <1>4, <1>7 DEF Tops
  <2>2. policy[j] <= 0 /\ policy[j] # None
    BY <1>3, <1>7, <2>1
  <2>3. QED
    BY <1>2, <2>1, <2>2 DEF InductiveInv, TypeOK
<1>8. QED
  BY <1>6, <1>7

LEMMA PrioritiesCountStep ==
  ASSUME InductiveInv, PrioritiesCount, [Next]_vars, MaxAccesses + 1 < PriorityLimit
  PROVE  PrioritiesCount'
<1> USE NoneAssumption, BoundsAssumption, LimitAssumption
<1>1. ASSUME UNCHANGED accCount,
             \A j \in Keys : policy'[j] \in {None, 1} \/ policy'[j] = policy[j]
      PROVE  PrioritiesCount'
  BY <1>1 DEF PrioritiesCount, Ranked, InductiveInv, TypeOK
<1>2. ASSUME NEW k \in Keys, NEW v \in Values, InsertNew(k, v)
      PROVE  \A j \in Keys : policy'[j] \in {None, 1} \/ policy'[j] = policy[j]
  BY <1>2 DEF InsertNew, Without
<1>3. ASSUME NEW k \in Keys, NEW v \in Values, Insert(k, v) PROVE PrioritiesCount'
  BY <1>1, <1>2, <1>3 DEF Insert
<1>4. ASSUME NEW k \in Keys, NEW v \in Values, Update(k, v) PROVE PrioritiesCount'
  <2>1. CASE capacity # 0 /\ k \in Stored
    <3>1. policy' = [policy EXCEPT ![k] = 1] /\ UNCHANGED accCount
      BY <1>4, <2>1 DEF Update
    <3>2. QED
      BY <1>1, <3>1 DEF InductiveInv, TypeOK
  <2>2. CASE capacity = 0
    <3>1. UNCHANGED <<policy, accCount>>
      BY <1>4, <2>2 DEF Update
    <3>2. QED
      BY <1>1, <3>1
  <2>3. CASE capacity # 0 /\ k \notin Stored
    <3>1. InsertNew(k, v) /\ UNCHANGED accCount
      BY <1>4, <2>3 DEF Update
    <3>2. QED
      BY <1>1, <1>2, <3>1
  <2>4. QED
    BY <2>1, <2>2, <2>3
<1>5. ASSUME NEW k \in Keys, accCount < MaxAccesses, Find(k) PROVE PrioritiesCount'
  <2>1. accCount' = accCount + 1 /\ accCount' <= MaxAccesses
    BY <1>5 DEF Find, InductiveInv, TypeOK
  <2>2. CASE k \notin Stored
    BY <1>5, <2>1, <2>2 DEF Find, PrioritiesCount, Ranked, InductiveInv, TypeOK
  <2>3. CASE k \in Stored
    <3>1. policy[k] \in 1 .. accCount + 1
      BY <2>3 DEF PrioritiesCount, InductiveInv, ContainersAgree
    <3>2. (policy[k] + 1) % PriorityLimit = policy[k] + 1
      BY <1>5, <3>1 DEF InductiveInv, TypeOK
    <3>3. policy' = [policy EXCEPT ![k] = policy[k] + 1]
      BY <1>5, <2>3, <3>2 DEF Find
    <3>4. policy'[k] \in 1 .. accCount' + 1
      BY <2>1, <3>1, <3>3 DEF InductiveInv, TypeOK
    <3>5. \A j \in Keys \ {k} : policy'[j] = policy[j]
      BY <3>3 DEF InductiveInv, TypeOK
    <3>6. \A j \in Keys \ {k} : policy[j] # None => policy[j] \in 1 .. accCount' + 1
      BY <2>1 DEF PrioritiesCount, Ranked, InductiveInv, TypeOK
    <3>7. QED
      BY <2>1, <3>4, <3>5, <3>6 DEF PrioritiesCount, Ranked
  <2>4. QED
    BY <2>2, <2>3
<1>6. ASSUME NEW k \in Keys, Erase(k) PROVE PrioritiesCount'
  <2>1. policy' = Without([policy EXCEPT ![k] = 0], {k}) /\ UNCHANGED accCount
    BY <1>6, ErasedKeyIsTop DEF Erase
  <2>2. QED
    BY <1>1, <2>1 DEF Without, InductiveInv, TypeOK
<1>7. ASSUME NEW n \in Capacities, Reserve(n) PROVE PrioritiesCount'
  BY <1>1, <1>7 DEF Reserve
<1>8. CASE Clear
  BY <1>1, <1>8 DEF Clear
<1>9. CASE UNCHANGED vars
  BY <1>1, <1>9 DEF vars
<1>10. QED
  BY <1>3, <1>4, <1>5, <1>6, <1>7, <1>8, <1>9 DEF Next

(* Setting a priority to one starts the count of its entry anew.           *)
LEMMA EntryRestarts ==
  ASSUME InductiveInv, NEW k \in Keys, policy' = [policy EXCEPT ![k] = 1]
  PROVE  Uses' = [Uses EXCEPT ![k] = 0]
<1>1. policy'[k] = 1 /\ \A j \in Keys \ {k} : policy'[j] = policy[j]
  BY DEF InductiveInv, TypeOK
<1>2. Uses'[k] = 0 /\ \A j \in Keys \ {k} : Uses'[j] = Uses[j]
  BY <1>1, NoneAssumption DEF Uses
<1>3. QED
  BY <1>2 DEF Uses

(* LfuPolicy counts entries as FiniteSets does.                            *)
LEMMA SameCardinality == \A S : Abstract!Cardinality(S) = Cardinality(S)
  BY DEF Abstract!Cardinality, Cardinality

(* A new entry is an Add: it fits, or its victim is a least used entry.    *)
LEMMA InsertNewIsAdd ==
  ASSUME InductiveInv, PrioritiesCount, NEW k \in Keys, NEW v \in Values,
         k \notin Stored, capacity # 0, UNCHANGED capacity, InsertNew(k, v)
  PROVE  Abstract!Add(k, v)
<1> USE NoneAssumption
<1>1. PICK gone \in Victims :
        /\ storage' = [Without(storage, gone) EXCEPT ![k] = v]
        /\ policy' = [Without(policy, gone) EXCEPT ![k] = 1]
  BY DEF InsertNew
<1>2. Abstract!Present = Stored /\ Stored = Ranked
  BY DEF Abstract!Present, Stored, InductiveInv, ContainersAgree
<1>3. capacity > 0 /\ Size <= capacity /\ Size \in Nat
  BY RankedFinite DEF InductiveInv, TypeOK, ContainersAgree
<1>4. CASE Size # capacity
  <2>1. gone = {}
    BY <1>4 DEF Victims
  <2>2. storage' = [storage EXCEPT ![k] = v]
    BY <1>1, <2>1 DEF Without, InductiveInv, TypeOK
  <2>3. policy' = [policy EXCEPT ![k] = 1]
    BY <1>1, <2>1 DEF Without, InductiveInv, TypeOK
  <2>4. Uses' = [Uses EXCEPT ![k] = 0]
    BY <2>3, EntryRestarts
  <2>5. Abstract!Cardinality(Abstract!Present) < capacity
    BY SameCardinality, <1>2, <1>3, <1>4 DEF Size, InductiveInv, TypeOK
  <2>6. QED
    BY <1>2, <1>3, <2>2, <2>4, <2>5 DEF Abstract!Add
<1>5. CASE Size = capacity
  <2>1. PICK top \in Tops(policy) : gone = {top}
    BY <1>5 DEF Victims
  <2>2. top \in Stored /\ top \in Keys /\ top # k
    BY <1>2, <2>1 DEF Tops, Ranked
  <2>3. storage' = [storage EXCEPT ![top] = None, ![k] = v]
    BY <1>1, <2>1, <2>2 DEF Without, InductiveInv, TypeOK
  <2>4. Uses' = [Uses EXCEPT ![top] = 0, ![k] = 0]
    <3>1. /\ policy'[k] = 1 /\ policy'[top] = None
          /\ \A j \in Keys \ {k, top} : policy'[j] = policy[j]
      BY <1>1, <2>1, <2>2 DEF Without
    <3>2. Uses'[k] = 0 /\ Uses'[top] = 0
      BY <2>2, <3>1 DEF Uses
    <3>3. \A j \in Keys \ {k, top} : Uses'[j] = Uses[j]
      BY <3>1 DEF Uses
    <3>4. QED
      BY <2>2, <3>2, <3>3 DEF Uses
  <2>5. \A j \in Stored : Uses[top] <= Uses[j]
    <3>1. SUFFICES ASSUME NEW j \in Stored PROVE Uses[top] <= Uses[j]
      OBVIOUS
    <3>2. /\ j \in Keys /\ policy[j] # None /\ policy[j] \in Int
          /\ policy[top] # None /\ policy[top] \in Int
      BY <1>2, <2>2 DEF Ranked, PrioritiesCount, InductiveInv, TypeOK, Priorities
    <3>3. policy[top] <= policy[j]
      BY <2>1, <3>2 DEF Tops
    <3>4. QED
      BY <2>2, <3>2, <3>3 DEF Uses
  <2>6. Abstract!Cardinality(Abstract!Present) = capacity
    BY SameCardinality, <1>2, <1>5 DEF Size
  <2>7. QED
    BY <1>2, <1>3, <2>2, <2>3, <2>4, <2>5, <2>6 DEF Abstract!Add, Abstract!LeastUsed
<1>6. QED
  BY <1>4, <1>5

(* Every step of the cache is a step of the abstract cache or none.        *)
LEMMA StepRefines ==
  ASSUME InductiveInv, PrioritiesCount, [Next]_vars, MaxAccesses + 1 < PriorityLimit
  PROVE  [Abstract!Next]_(Abstract!vars)
<1> USE NoneAssumption
<1>0. Abstract!Present = Stored /\ Stored = Ranked
  BY DEF Abstract!Present, Stored, InductiveInv, ContainersAgree
<1>1. ASSUME UNCHANGED <<storage, policy, capacity>> PROVE UNCHANGED Abstract!vars
  BY <1>1 DEF Abstract!vars, Uses
<1>2. ASSUME NEW k \in Keys, NEW v \in Values, Insert(k, v)
      PROVE  [Abstract!Next]_(Abstract!vars)
  <2>1. CASE capacity = 0 \/ k \in Stored
    BY <1>1, <1>2, <2>1 DEF Insert
  <2>2. CASE ~(capacity = 0 \/ k \in Stored)
    BY <1>2, <2>2, InsertNewIsAdd DEF Insert, Abstract!Next
  <2>3. QED
    BY <2>1, <2>2
<1>3. ASSUME NEW k \in Keys, NEW v \in Values, Update(k, v)
      PROVE  [Abstract!Next]_(Abstract!vars)
  <2>1. CASE capacity = 0
    BY <1>1, <1>3, <2>1 DEF Update
  <2>2. CASE capacity # 0 /\ k \in Stored
    <3>1. /\ storage' = [storage EXCEPT ![k] = v]
          /\ policy' = [policy EXCEPT ![k] = 1]
          /\ UNCHANGED capacity
      BY <1>3, <2>2 DEF Update
    <3>2. Uses' = [Uses EXCEPT ![k] = 0]
      BY <3>1, EntryRestarts
    <3>3. Abstract!Replace(k, v)
      BY <1>0, <2>2, <3>1, <3>2 DEF Abstract!Replace
    <3>4. QED
      BY <3>3 DEF Abstract!Next
  <2>3. CASE capacity # 0 /\ k \notin Stored
    BY <1>3, <2>3, InsertNewIsAdd DEF Update, Abstract!Next
  <2>4. QED
    BY <2>1, <2>2, <2>3
<1>4. ASSUME NEW k \in Keys, accCount < MaxAccesses, Find(k)
      PROVE  [Abstract!Next]_(Abstract!vars)
  <2>1. CASE k \notin Stored
    BY <1>1, <1>4, <2>1 DEF Find
  <2>2. CASE k \in Stored
    <3>1. policy[k] \in 1 .. accCount + 1 /\ policy[k] # None
      BY <1>0, <2>2 DEF PrioritiesCount, Ranked
    <3>2. (policy[k] + 1) % PriorityLimit = policy[k] + 1
      BY <1>4, <3>1, LimitAssumption, BoundsAssumption DEF InductiveInv, TypeOK
    <3>3. /\ policy' = [policy EXCEPT ![k] = policy[k] + 1]
          /\ UNCHANGED <<storage, capacity>>
      BY <1>4, <2>2, <3>2 DEF Find
    <3>4. policy[k] + 1 # None /\ (policy[k] + 1) - 1 = (policy[k] - 1) + 1
      BY <3>1 DEF InductiveInv, TypeOK
    <3>5. Uses' = [Uses EXCEPT ![k] = @ + 1]
      <4>1. policy'[k] = policy[k] + 1 /\ \A j \in Keys \ {k} : policy'[j] = policy[j]
        BY <3>3 DEF InductiveInv, TypeOK
      <4>2. Uses'[k] = Uses[k] + 1 /\ \A j \in Keys \ {k} : Uses'[j] = Uses[j]
        BY <3>1, <3>4, <4>1 DEF Uses
      <4>3. QED
        BY <4>2 DEF Uses
    <3>6. Abstract!Use(k)
      BY <1>0, <2>2, <3>3, <3>5 DEF Abstract!Use
    <3>7. QED
      BY <3>6 DEF Abstract!Next
  <2>3. QED
    BY <2>1, <2>2
<1>5. ASSUME NEW k \in Keys, Erase(k) PROVE [Abstract!Next]_(Abstract!vars)
  <2>1. /\ k \in Stored
        /\ storage' = Without(storage, {k})
        /\ policy' = Without([policy EXCEPT ![k] = 0], {k})
        /\ UNCHANGED capacity
    BY <1>5, ErasedKeyIsTop DEF Erase
  <2>2. Uses' = [j \in Keys |-> IF j \in {k} THEN 0 ELSE Uses[j]]
    <3>1. policy'[k] = None /\ \A j \in Keys \ {k} : policy'[j] = policy[j]
      BY <2>1 DEF Without, InductiveInv, TypeOK
    <3>2. QED
      BY <3>1 DEF Uses
  <2>3. Abstract!Drop(k)
    BY <1>0, <2>1, <2>2 DEF Abstract!Drop, Abstract!Remove, Without
  <2>4. QED
    BY <2>3 DEF Abstract!Next
<1>6. ASSUME NEW n \in Capacities, Reserve(n) PROVE [Abstract!Next]_(Abstract!vars)
  <2>1. Abstract!Grow
    BY <1>6, BoundsAssumption DEF Reserve, Abstract!Grow, Uses
  <2>2. QED
    BY <2>1 DEF Abstract!Next
<1>7. CASE Clear
  <2>1. Abstract!DropAll
    BY <1>7 DEF Clear, Abstract!DropAll, Abstract!Remove, Uses
  <2>2. QED
    BY <2>1 DEF Abstract!Next
<1>8. CASE UNCHANGED vars
  BY <1>1, <1>8 DEF vars
<1>9. QED
  BY <1>2, <1>3, <1>4, <1>5, <1>6, <1>7, <1>8 DEF Next

(* LfuCache keeps the promise of its class comment, a cache "with LFU      *)
(* policy": every behaviour in which no priority wraps is a behaviour of   *)
(* LfuPolicy, for all keys, values and capacities.                         *)
THEOREM CacheImplementsLfuPolicy ==
  ASSUME MaxAccesses + 1 < PriorityLimit
  PROVE  Spec => ImplementsLfuPolicy
<1>1. Init => InductiveInv /\ PrioritiesCount
  <2>1. Init => Stored = {} /\ Ranked = {}
    BY DEF Init, Stored, Ranked
  <2>2. Init => InductiveInv
    <3>1. Init => TypeOK
      BY DEF Init, TypeOK
    <3>2. Init => ContainersAgree
      BY <2>1, FS_EmptySet DEF Init, ContainersAgree, Size
    <3> QED
      BY <3>1, <3>2 DEF InductiveInv
  <2>3. Init => PrioritiesCount
    BY <2>1, BoundsAssumption DEF Init, PrioritiesCount
  <2>4. QED
    BY <2>2, <2>3
<1>2. Init => Abstract!Init
  BY DEF Init, Abstract!Init, Uses
<1>3. /\ InductiveInv /\ PrioritiesCount
      /\ [Next]_vars
      => /\ (InductiveInv /\ PrioritiesCount)'
         /\ [Abstract!Next]_(Abstract!vars)
  BY InvariantStep, PrioritiesCountStep, StepRefines
<1>4. QED
  BY <1>1, <1>2, <1>3, PTL DEF Spec, ImplementsLfuPolicy, Abstract!Spec

=============================================================================
