------------------------ MODULE NetspeakSearchProofs ------------------------
(***************************************************************************)
(* Proofs about NetspeakSearch, for any number of threads, any requests,   *)
(* any capacity of the cache, any failed reads, and any query processor    *)
(* as it is assumed there; at the end, that the processor of Retrieval is  *)
(* such a one.  Only that last part is about Retrieval and its constants.  *)
(***************************************************************************)
EXTENDS NetspeakSearch, RetrievalProofs, SequenceTheorems

-----------------------------------------------------------------------------
(* Lists of references: what std::set_union makes of them.                 *)

RefLists == Seq([id : Nat, freq : Nat])

(* The parts of SetUnion(s, t): the elements of t that it takes, the items *)
(* <<0, i>> for s[i] and <<1, j>> for t[j], what they stand for, and their *)
(* order.                                                                  *)
Extra(s, t) ==
  {j \in DOMAIN t : CountUpTo(t, j, t[j].freq) > CountUpTo(s, Len(s), t[j].freq)}
Items(s, t) == {<<0, i>> : i \in DOMAIN s} \cup {<<1, j>> : j \in Extra(s, t)}
At(s, t, x) == IF x[1] = 0 THEN s[x[2]] ELSE t[x[2]]
Goes(s, t, x, y) ==
  \/ Before(At(s, t, x), At(s, t, y))
  \/ ~ Before(At(s, t, y), At(s, t, x)) /\ x[1] < y[1]
  \/ ~ Before(At(s, t, y), At(s, t, x)) /\ x[1] = y[1] /\ x[2] < y[2]
ItemOrder(s, t) == {xy \in Items(s, t) \X Items(s, t) : Goes(s, t, xy[1], xy[2])}

(* SetUnion lists what the items stand for.                                *)
LEMMA SetUnionItems ==
  ASSUME NEW s, NEW t
  PROVE  LET order == Ordered(Items(s, t), ItemOrder(s, t))
         IN SetUnion(s, t) = [n \in DOMAIN order |-> At(s, t, order[n])]
BY DEF SetUnion, Extra, Items, At, Goes, ItemOrder

(* An item is an element of one of the lists.                              *)
LEMMA ItemType ==
  ASSUME NEW S, \A x \in S : x.freq \in Nat, NEW s \in Seq(S), NEW t \in Seq(S),
         NEW x \in Items(s, t)
  PROVE  /\ x = <<x[1], x[2]>> /\ x[1] \in Nat /\ x[2] \in Nat
         /\ At(s, t, x) \in S /\ At(s, t, x).freq \in Nat
         /\ At(s, t, x) \in Range(s) \cup Range(t)
<1>1. /\ DOMAIN s \subseteq Nat /\ DOMAIN t \subseteq Nat
      /\ \A i \in DOMAIN s : s[i] \in S
      /\ \A j \in DOMAIN t : t[j] \in S
  OBVIOUS
<1>2. CASE \E i \in DOMAIN s : x = <<0, i>>
  <2>1. PICK i \in DOMAIN s : x = <<0, i>>
    BY <1>2
  <2>2. At(s, t, x) = s[i]
    BY <2>1 DEF At
  <2> QED
    BY <1>1, <2>1, <2>2 DEF Range
<1>3. CASE \E j \in Extra(s, t) : x = <<1, j>>
  <2>1. PICK j \in DOMAIN t : x = <<1, j>>
    BY <1>3 DEF Extra
  <2>2. At(s, t, x) = t[j]
    BY <2>1 DEF At
  <2> QED
    BY <1>1, <2>1, <2>2 DEF Range
<1> QED
  BY <1>2, <1>3 DEF Items

(* There are finitely many items, in a strict order.                       *)
LEMMA ItemsOrdered ==
  ASSUME NEW S, \A x \in S : x.freq \in Nat, NEW s \in Seq(S), NEW t \in Seq(S)
  PROVE  IsFiniteSet(Items(s, t)) /\ StrictlyOrders(ItemOrder(s, t), Items(s, t))
<1> DEFINE X == Items(s, t)
<1>1. IsFiniteSet(X)
  <2>1. DOMAIN s = 1 .. Len(s) /\ DOMAIN t = 1 .. Len(t) /\ Len(s) \in Nat /\ Len(t) \in Nat
    OBVIOUS
  <2>2. IsFiniteSet(DOMAIN s) /\ IsFiniteSet(DOMAIN t)
    BY <2>1, FS_Interval
  <2>3. IsFiniteSet({<<0, i>> : i \in DOMAIN s})
    <3>1. [i \in DOMAIN s |-> <<0, i>>] \in Surjection(DOMAIN s, {<<0, i>> : i \in DOMAIN s})
      BY DEF Surjection
    <3> QED
      BY <2>2, <3>1, FS_Surjection
  <2>4. IsFiniteSet(Extra(s, t))
    BY <2>2, FS_Subset DEF Extra
  <2>5. IsFiniteSet({<<1, j>> : j \in Extra(s, t)})
    <3> DEFINE E == Extra(s, t)
    <3>1. [j \in E |-> <<1, j>>] \in Surjection(E, {<<1, j>> : j \in E})
      BY DEF Surjection
    <3> QED
      BY <2>4, <3>1, FS_Surjection
  <2> QED
    BY <2>3, <2>5, FS_Union DEF Items
<1>2. \A x \in X : /\ x = <<x[1], x[2]>> /\ x[1] \in Nat /\ x[2] \in Nat
                   /\ At(s, t, x).freq \in Nat
  BY ItemType
<1>3. \A x, y \in X : <<x, y>> \in ItemOrder(s, t) <=> Goes(s, t, x, y)
  BY DEF ItemOrder
<1> HIDE DEF X
<1>4. ASSUME NEW x \in X PROVE ~ Goes(s, t, x, x)
  BY <1>2 DEF Goes, Before
<1>5. ASSUME NEW x \in X, NEW y \in X, x # y PROVE Goes(s, t, x, y) \/ Goes(s, t, y, x)
  <2>1. x[1] # y[1] \/ x[2] # y[2]
    BY <1>2, <1>5
  <2> QED
    BY <1>2, <2>1 DEF Goes, Before
<1>6. ASSUME NEW x \in X, NEW y \in X, NEW z \in X, Goes(s, t, x, y), Goes(s, t, y, z)
      PROVE  Goes(s, t, x, z)
  BY <1>2, <1>6 DEF Goes, Before
<1>7. StrictlyOrders(ItemOrder(s, t), X)
  BY <1>3, <1>4, <1>5, <1>6 DEF StrictlyOrders
<1> QED
  BY <1>1, <1>7 DEF X

(* The union is a list of elements of the two lists.                       *)
LEMMA SetUnionType ==
  ASSUME NEW S, \A x \in S : x.freq \in Nat, NEW s \in Seq(S), NEW t \in Seq(S)
  PROVE  /\ SetUnion(s, t) \in Seq(S)
         /\ Range(SetUnion(s, t)) \subseteq Range(s) \cup Range(t)
<1> DEFINE X == Items(s, t)
           order == Ordered(X, ItemOrder(s, t))
           u == [n \in DOMAIN order |-> At(s, t, order[n])]
<1>1. SetUnion(s, t) = u
  BY SetUnionItems
<1>2. order \in Seq(X)
  BY ItemsOrdered, OrderedListing
<1>3. \A x \in X : At(s, t, x) \in S /\ At(s, t, x) \in Range(s) \cup Range(t)
  BY ItemType
<1> HIDE DEF order, X
<1>4. order \in [1 .. Len(order) -> X] /\ Len(order) \in Nat
  BY <1>2
<1>5. u \in Seq(S)
  BY <1>3, <1>4
<1>6. Range(u) \subseteq Range(s) \cup Range(t)
  BY <1>3, <1>4 DEF Range
<1> QED
  BY <1>1, <1>5, <1>6

-----------------------------------------------------------------------------
(* The union of two parts of one list.                                     *)

Sorted(s) == \A i, j \in DOMAIN s : i < j => ~ Before(s[j], s[i])

(* Of the elements with one frequency, a part has the first ones.          *)
GroupClosed(s, I) ==
  \A i \in I, j \in DOMAIN s : j < i /\ s[j].freq = s[i].freq => j \in I

(* The positions in I of elements with frequency f.                        *)
Group(s, I, f) == {i \in I : s[i].freq = f}

(* References have frequencies.                                            *)
LEMMA RefListType ==
  ASSUME NEW s \in RefLists
  PROVE  /\ \A i \in DOMAIN s : s[i] \in [id : Nat, freq : Nat] /\ s[i].freq \in Nat
         /\ DOMAIN s = 1 .. Len(s) /\ Len(s) \in Nat /\ IsFiniteSet(DOMAIN s)
<1> DEFINE R == [id : Nat, freq : Nat]
<1>1. \A x \in R : x.freq \in Nat
  OBVIOUS
<1>2. s \in Seq(R)
  BY DEF RefLists
<1> HIDE DEF R
<1>3. DOMAIN s = 1 .. Len(s) /\ Len(s) \in Nat /\ \A i \in DOMAIN s : s[i] \in R
  BY <1>2
<1>4. IsFiniteSet(1 .. Len(s))
  BY <1>3, FS_Interval
<1> QED
  BY <1>1, <1>3, <1>4 DEF R

(* A sequence is as long as another with the same positions.               *)
LEMMA SameLen ==
  ASSUME NEW m \in Nat, NEW n \in Nat, 1 .. m = 1 .. n
  PROVE  m = n
<1>1. \A i \in Int : i \in 1 .. m <=> i \in 1 .. n
  OBVIOUS
<1>2. ~ m < n
  <2>1. n \in 1 .. n => n \in 1 .. m
    BY <1>1
  <2> QED
    BY <2>1
<1>3. ~ n < m
  <2>1. m \in 1 .. m => m \in 1 .. n
    BY <1>1
  <2> QED
    BY <2>1
<1> QED
  BY <1>2, <1>3

(* Elements of a frequency are counted by their positions in the list.     *)
LEMMA CountedInPart ==
  ASSUME NEW s \in RefLists, NEW I \in SUBSET (DOMAIN s),
         NEW n \in 0 .. Len(ElementsAt(s, I)), NEW f
  PROVE  CountUpTo(ElementsAt(s, I), n, f)
           = Cardinality(Group(s, {Ascending(I)[i] : i \in 1 .. n}, f))
<1> DEFINE e == ElementsAt(s, I)
           p == Ascending(I)
           counted == {i \in 1 .. n : e[i].freq = f}
           group == Group(s, {p[i] : i \in 1 .. n}, f)
           h == [i \in counted |-> p[i]]
<1>1. /\ p \in Seq(I) /\ e = [i \in DOMAIN p |-> s[p[i]]] /\ DOMAIN e = DOMAIN p
      /\ \A i, j \in DOMAIN p : i < j => p[i] < p[j]
  BY ElementsAtPositions DEF RefLists
<1>2. I \in SUBSET Nat
  BY PositionsFinite DEF RefLists
<1>3. Len(e) = Len(p) /\ Len(p) \in Nat /\ DOMAIN p = 1 .. Len(p)
  <2>1. e \in Seq([id : Nat, freq : Nat])
    BY ElementsAtType DEF RefLists
  <2> HIDE DEF e, p
  <2>2. DOMAIN e = 1 .. Len(e) /\ Len(e) \in Nat /\ DOMAIN p = 1 .. Len(p) /\ Len(p) \in Nat
    BY <1>1, <2>1
  <2> QED
    BY <1>1, <2>2, SameLen
<1>4. n \in Nat /\ 1 .. n \subseteq DOMAIN p
  BY <1>3
<1> HIDE DEF e, p
<1>5. \A i \in 1 .. n : p[i] \in I /\ p[i] \in Nat /\ e[i] = s[p[i]]
  BY <1>1, <1>2, <1>4
<1>6. IsFiniteSet(counted)
  <2>1. IsFiniteSet(1 .. n)
    BY <1>4, FS_Interval
  <2> QED
    BY <2>1, FS_Subset
<1>7. h \in [counted -> group]
  BY <1>5 DEF Group
<1>8. \A g \in group : \E i \in counted : h[i] = g
  BY <1>5 DEF Group
<1>9. \A i, j \in counted : h[i] = h[j] => i = j
  <2> SUFFICES ASSUME NEW i \in counted, NEW j \in counted, p[i] = p[j] PROVE i = j
    OBVIOUS
  <2>1. i \in Nat /\ j \in Nat /\ i \in DOMAIN p /\ j \in DOMAIN p /\ p[i] \in Nat
    BY <1>4, <1>5
  <2>2. ~ i < j /\ ~ j < i
    BY <1>1, <2>1
  <2> QED
    BY <2>1, <2>2
<1> HIDE DEF counted, group, h
<1>10. h \in Bijection(counted, group)
  BY <1>7, <1>8, <1>9, Fun_IsBij
<1>11. Cardinality(counted) = Cardinality(group)
  BY <1>6, <1>10, FS_Bijection DEF ExistsBijection
<1> QED
  BY <1>11 DEF CountUpTo, counted, group, e, p

(* What a part adds to another one are its elements at other positions.    *)
LEMMA ExtraElements ==
  ASSUME NEW s \in RefLists, NEW I \in SUBSET (DOMAIN s), NEW J \in SUBSET (DOMAIN s),
         GroupClosed(s, I), GroupClosed(s, J), NEW j \in DOMAIN Ascending(J)
  PROVE  LET f == s[Ascending(J)[j]].freq
         IN CountUpTo(ElementsAt(s, J), j, f)
              > CountUpTo(ElementsAt(s, I), Len(ElementsAt(s, I)), f)
            <=> Ascending(J)[j] \notin I
<1> DEFINE p == Ascending(J)
           q == Ascending(I)
           k == p[j]
           f == s[k].freq
           upto == {i \in DOMAIN s : i <= k /\ s[i].freq = f}
           mine == Group(s, I, f)
<1>1. /\ p \in Seq(J) /\ DOMAIN ElementsAt(s, J) = DOMAIN p
      /\ \A i \in J : \E n \in DOMAIN p : p[n] = i
      /\ \A i, n \in DOMAIN p : i < n => p[i] < p[n]
  BY ElementsAtPositions DEF RefLists
<1>2. /\ q \in Seq(I) /\ DOMAIN ElementsAt(s, I) = DOMAIN q
      /\ \A i \in I : \E n \in DOMAIN q : q[n] = i
  BY ElementsAtPositions DEF RefLists
<1>3. ElementsAt(s, I) \in RefLists /\ ElementsAt(s, J) \in RefLists
  BY ElementsAtType DEF RefLists
<1>4. /\ DOMAIN ElementsAt(s, I) = 1 .. Len(ElementsAt(s, I)) /\ Len(ElementsAt(s, I)) \in Nat
      /\ DOMAIN ElementsAt(s, J) = 1 .. Len(ElementsAt(s, J)) /\ Len(ElementsAt(s, J)) \in Nat
  BY <1>3, RefListType
<1>5. DOMAIN s \subseteq Nat /\ IsFiniteSet(DOMAIN s)
  BY RefListType
<1> HIDE DEF p, q
<1>6. k \in J /\ k \in DOMAIN s /\ k \in Nat /\ j \in Nat
      /\ j \in 0 .. Len(ElementsAt(s, J)) /\ Len(ElementsAt(s, I)) \in 0 .. Len(ElementsAt(s, I))
  <2>1. j \in DOMAIN p
    BY DEF p
  <2>2. k \in J
    BY <1>1, <2>1
  <2>3. j \in 1 .. Len(ElementsAt(s, J))
    BY <1>1, <1>4, <2>1
  <2> QED
    BY <1>4, <1>5, <2>2, <2>3
<1>7. {q[i] : i \in 1 .. Len(ElementsAt(s, I))} = I
  <2>1. DOMAIN q = 1 .. Len(ElementsAt(s, I))
    BY <1>2, <1>4
  <2>2. q \in Seq(I)
    BY <1>2
  <2>3. \A i \in DOMAIN q : q[i] \in I
    BY <2>2
  <2>4. \A i \in I : \E n \in DOMAIN q : q[n] = i
    BY <1>2
  <2> QED
    BY <2>1, <2>3, <2>4
<1>8. CountUpTo(ElementsAt(s, I), Len(ElementsAt(s, I)), f) = Cardinality(mine)
  BY <1>6, <1>7, CountedInPart DEF q
<1>9. Group(s, {p[i] : i \in 1 .. j}, f) = upto
  <2>1. ASSUME NEW i \in 1 .. j PROVE p[i] \in DOMAIN s /\ p[i] <= k
    <3>1. i \in DOMAIN p /\ j \in DOMAIN p /\ i \in Nat /\ i <= j
      BY <1>1, <1>4, <1>6 DEF p
    <3>2. p[i] \in J /\ p[i] \in Nat
      BY <1>1, <1>5, <3>1
    <3>3. i = j \/ p[i] < p[j]
      BY <1>1, <1>6, <3>1
    <3> QED
      BY <1>6, <3>2, <3>3
  <2>2. ASSUME NEW i \in upto PROVE \E n \in 1 .. j : p[n] = i
    <3>1. i \in DOMAIN s /\ i \in Nat /\ i <= k /\ s[i].freq = s[k].freq
      BY <1>5
    <3>2. i \in J
      BY <1>6, <3>1 DEF GroupClosed
    <3>3. PICK n \in DOMAIN p : p[n] = i
      BY <1>1, <3>2
    <3>4. n \in Nat /\ n >= 1 /\ j \in DOMAIN p
      BY <1>1, <1>4, <1>6 DEF p
    <3>5. ~ j < n
      BY <1>1, <1>6, <3>1, <3>3, <3>4
    <3> QED
      BY <1>6, <3>3, <3>4, <3>5
  <2> QED
    BY <2>1, <2>2 DEF Group
<1>10. CountUpTo(ElementsAt(s, J), j, f) = Cardinality(upto)
  <2>1. CountUpTo(ElementsAt(s, J), j, f) = Cardinality(Group(s, {p[i] : i \in 1 .. j}, f))
    <3> HIDE DEF upto, mine, f
    <3> QED
      BY <1>6, CountedInPart DEF p
  <2> QED
    BY <1>9, <2>1
<1>11. /\ IsFiniteSet(upto) /\ IsFiniteSet(mine)
       /\ Cardinality(upto) \in Nat /\ Cardinality(mine) \in Nat
  <2>1. upto \in SUBSET (DOMAIN s) /\ mine \in SUBSET (DOMAIN s)
    BY DEF Group
  <2> QED
    BY <1>5, <2>1, FS_Subset, FS_CardinalityType
<1>12. CASE k \in I
  <2>1. upto \in SUBSET mine
    BY <1>5, <1>6, <1>12 DEF GroupClosed, Group
  <2>2. Cardinality(upto) <= Cardinality(mine)
    BY <1>11, <2>1, FS_Subset
  <2> QED
    BY <1>8, <1>10, <1>11, <1>12, <2>2 DEF p
<1>13. CASE k \notin I
  <2>1. ASSUME NEW i \in mine PROVE i \in upto \ {k}
    <3>1. i \in I /\ i \in DOMAIN s /\ i \in Nat /\ s[i].freq = s[k].freq
      BY <1>5 DEF Group
    <3>2. ~ k < i /\ k # i
      BY <1>6, <1>13, <3>1 DEF GroupClosed
    <3> QED
      BY <1>6, <3>1, <3>2
  <2>2. mine \in SUBSET (upto \ {k}) /\ k \in upto
    BY <1>6, <2>1
  <2> HIDE DEF upto, mine
  <2>3. IsFiniteSet(upto \ {k}) /\ Cardinality(upto \ {k}) = Cardinality(upto) - 1
    BY <1>11, <2>2, FS_RemoveElement
  <2>4. Cardinality(mine) <= Cardinality(upto \ {k})
    BY <2>2, <2>3, FS_Subset
  <2>5. Cardinality(upto) > Cardinality(mine)
    BY <1>11, <2>3, <2>4
  <2> QED
    BY <1>8, <1>10, <1>13, <2>5 DEF p
<1> QED
  BY <1>12, <1>13

(* merge() of two lists that are parts of one list, each with the first    *)
(* elements of every frequency, is the part of that list with the elements *)
(* of both: nothing is lost and nothing is there twice.                    *)
THEOREM UnionOfParts ==
  ASSUME NEW s \in RefLists, Sorted(s),
         NEW I \in SUBSET (DOMAIN s), NEW J \in SUBSET (DOMAIN s),
         GroupClosed(s, I), GroupClosed(s, J)
  PROVE  SetUnion(ElementsAt(s, I), ElementsAt(s, J)) = ElementsAt(s, I \cup J)
<1> DEFINE a == ElementsAt(s, I)
           b == ElementsAt(s, J)
           p == Ascending(I)
           r == Ascending(J)
           X == Items(a, b)
           R == ItemOrder(a, b)
           K == I \cup J
           h == [x \in X |-> IF x[1] = 0 THEN p[x[2]] ELSE r[x[2]]]
<1>1. /\ p \in Seq(I) /\ a = [i \in DOMAIN p |-> s[p[i]]] /\ DOMAIN a = DOMAIN p
      /\ \A i \in I : \E n \in DOMAIN p : p[n] = i
      /\ \A i, j \in DOMAIN p : i < j => p[i] < p[j]
  BY ElementsAtPositions DEF RefLists
<1>2. /\ r \in Seq(J) /\ b = [i \in DOMAIN r |-> s[r[i]]] /\ DOMAIN b = DOMAIN r
      /\ \A j \in J : \E n \in DOMAIN r : r[n] = j
      /\ \A i, j \in DOMAIN r : i < j => r[i] < r[j]
  BY ElementsAtPositions DEF RefLists
<1>3. a \in RefLists /\ b \in RefLists
  BY ElementsAtType DEF RefLists
<1>4. Extra(a, b) = {j \in DOMAIN r : r[j] \notin I}
  <2>1. ASSUME NEW j \in DOMAIN r
        PROVE  CountUpTo(b, j, b[j].freq) > CountUpTo(a, Len(a), b[j].freq) <=> r[j] \notin I
    <3>1. b[j] = s[r[j]]
      BY <1>2
    <3> QED
      BY <3>1, ExtraElements
  <2> HIDE DEF a, b, p, r
  <2> QED
    BY <1>2, <2>1 DEF Extra
<1>5. /\ DOMAIN s \subseteq Nat
      /\ \A i \in DOMAIN s : s[i].freq \in Nat
  BY RefListType
<1>6. IsFiniteSet(X) /\ StrictlyOrders(R, X)
  <2>1. \A x \in [id : Nat, freq : Nat] : x.freq \in Nat
    OBVIOUS
  <2> HIDE DEF a, b
  <2> QED
    BY <1>3, <2>1, ItemsOrdered DEF RefLists
<1>7. /\ K \in SUBSET (DOMAIN s) /\ IsFiniteSet(K) /\ StrictlyOrders(Less, K)
      /\ ElementsAt(s, K) = [n \in DOMAIN Ascending(K) |-> s[Ascending(K)[n]]]
  <2>1. K \in SUBSET (DOMAIN s)
    OBVIOUS
  <2> HIDE DEF K
  <2> QED
    BY <2>1, PositionsFinite, ElementsAtPositions DEF RefLists
<1>8. /\ DOMAIN p \subseteq Nat /\ \A i \in DOMAIN p : p[i] \in I /\ p[i] \in Nat
      /\ DOMAIN r \subseteq Nat /\ \A j \in DOMAIN r : r[j] \in J /\ r[j] \in Nat
  <2> HIDE DEF p, r
  <2> QED
    BY <1>1, <1>2, <1>5
<1> HIDE DEF a, b, p, r
<1>9. ASSUME NEW x \in X
      PROVE  \/ \E i \in DOMAIN p : x = <<0, i>> /\ h[x] = p[i] /\ At(a, b, x) = s[p[i]]
             \/ \E j \in DOMAIN r : x = <<1, j>> /\ h[x] = r[j] /\ r[j] \notin I
                                    /\ At(a, b, x) = s[r[j]]
  <2>1. CASE \E i \in DOMAIN a : x = <<0, i>>
    <3>1. PICK i \in DOMAIN p : x = <<0, i>>
      BY <1>1, <2>1
    <3>2. h[x] = p[i] /\ At(a, b, x) = s[p[i]]
      BY <1>1, <3>1 DEF At
    <3> QED
      BY <3>1, <3>2
  <2>2. CASE \E j \in Extra(a, b) : x = <<1, j>>
    <3>1. PICK j \in DOMAIN r : x = <<1, j>> /\ r[j] \notin I
      BY <1>4, <2>2
    <3>2. h[x] = r[j] /\ At(a, b, x) = s[r[j]]
      BY <1>2, <3>1 DEF At
    <3> QED
      BY <3>1, <3>2
  <2> QED
    BY <2>1, <2>2 DEF Items
<1>10. ASSUME NEW k \in K PROVE \E x \in X : h[x] = k
  <2>1. CASE k \in I
    <3>1. PICK i \in DOMAIN p : p[i] = k
      BY <1>1, <2>1
    <3>2. <<0, i>> \in X
      BY <1>1, <3>1 DEF Items
    <3>3. h[<<0, i>>] = k
      BY <3>1, <3>2
    <3> QED
      BY <3>2, <3>3
  <2>2. CASE k \notin I
    <3>1. PICK j \in DOMAIN r : r[j] = k
      BY <1>2, <2>2
    <3>2. <<1, j>> \in X
      BY <1>4, <2>2, <3>1 DEF Items
    <3>3. h[<<1, j>>] = k
      BY <3>1, <3>2
    <3> QED
      BY <3>2, <3>3
  <2> QED
    BY <2>1, <2>2
<1>11. \A x \in X : h[x] \in K /\ h[x] \in DOMAIN s /\ At(a, b, x) = s[h[x]]
  BY <1>8, <1>9
<1>12. h \in [X -> K]
  BY <1>11
<1>13. \A x, y \in X : <<x, y>> \in R <=> Goes(a, b, x, y)
  BY DEF ItemOrder
<1>14. ASSUME NEW x \in X, NEW y \in X, Goes(a, b, x, y)
       PROVE  h[x] < h[y]
  <2>1. /\ h[x] \in DOMAIN s /\ h[x] \in Nat /\ h[y] \in DOMAIN s /\ h[y] \in Nat
        /\ At(a, b, x) = s[h[x]] /\ At(a, b, y) = s[h[y]]
        /\ s[h[x]].freq \in Nat /\ s[h[y]].freq \in Nat
    BY <1>5, <1>11
  <2>2. CASE s[h[x]].freq > s[h[y]].freq
    <3>1. ~ h[y] < h[x]
      BY <2>1, <2>2 DEF Sorted, Before
    <3>2. h[x] # h[y]
      BY <2>1, <2>2
    <3> QED
      BY <2>1, <3>1, <3>2
  <2>3. CASE ~ s[h[x]].freq > s[h[y]].freq
    <3>1. /\ s[h[x]].freq = s[h[y]].freq
          /\ x[1] < y[1] \/ (x[1] = y[1] /\ x[2] < y[2])
      BY <1>14, <2>1, <2>3 DEF Goes, Before
    <3>2. CASE \E i \in DOMAIN p, j \in DOMAIN r :
                 /\ x = <<0, i>> /\ h[x] = p[i]
                 /\ y = <<1, j>> /\ h[y] = r[j] /\ r[j] \notin I
      <4>1. h[x] \in I /\ h[y] \notin I
        BY <1>8, <3>2
      <4>2. ~ h[y] < h[x] /\ h[y] # h[x]
        BY <2>1, <3>1, <4>1 DEF GroupClosed
      <4> QED
        BY <2>1, <4>2
    <3>3. CASE \E i, j \in DOMAIN p : x = <<0, i>> /\ h[x] = p[i] /\ y = <<0, j>> /\ h[y] = p[j]
      BY <1>1, <1>8, <3>1, <3>3
    <3>4. CASE \E i, j \in DOMAIN r : x = <<1, i>> /\ h[x] = r[i] /\ y = <<1, j>> /\ h[y] = r[j]
      BY <1>2, <1>8, <3>1, <3>4
    <3>5. CASE \E i \in DOMAIN r, j \in DOMAIN p : x = <<1, i>> /\ y = <<0, j>>
      BY <3>1, <3>5
    <3> HIDE DEF h, X
    <3> QED
      BY <1>9, <3>2, <3>3, <3>4, <3>5
  <2> QED
    BY <2>2, <2>3
<1>15. \A x, y \in X : <<x, y>> \in R => <<h[x], h[y]>> \in Less
  BY <1>5, <1>11, <1>13, <1>14 DEF Less
<1>16. ASSUME NEW x \in X, NEW y \in X, h[x] = h[y] PROVE x = y
  <2>1. h[x] \in Nat
    BY <1>5, <1>11
  <2>2. ~ Goes(a, b, x, y) /\ ~ Goes(a, b, y, x)
    BY <1>14, <1>16, <2>1
  <2> QED
    BY <1>6, <1>13, <2>2 DEF StrictlyOrders
<1> HIDE DEF h, X, R, K
<1>17. h \in Bijection(X, K)
  BY <1>10, <1>12, <1>16, Fun_IsBij
<1>18. Ascending(K) = [n \in DOMAIN Ordered(X, R) |-> h[Ordered(X, R)[n]]]
  BY <1>6, <1>7, <1>15, <1>17, OrderedRenamed DEF Ascending
<1>19. SetUnion(a, b) = [n \in DOMAIN Ordered(X, R) |-> At(a, b, Ordered(X, R)[n])]
  BY SetUnionItems DEF X, R
<1>20. \A n \in DOMAIN Ordered(X, R) : Ordered(X, R)[n] \in X
  <2>1. Ordered(X, R) \in Seq(X)
    BY <1>6, OrderedListing
  <2> QED
    BY <2>1
<1>21. SetUnion(a, b) = ElementsAt(s, K)
  BY <1>7, <1>11, <1>18, <1>19, <1>20
<1> QED
  BY <1>21 DEF a, b, K

-----------------------------------------------------------------------------
(* What the cache and the raw results hold.                                *)

(* The wildcard queries with the cache key of q, and what the cache may    *)
(* have for that key: references to phrases that one of these matches, and *)
(* words of one of these.                                                  *)
SameKey(q) == {s \in WildcardQueries : Key(s) = Key(q)}

Fitting(q) == IF HasQmarks(q) THEN UNION {Matches(s) : s \in SameKey(q)} ELSE Matches(q)
FitWords(q) == IF HasQmarks(q) THEN UNION {Range(s) \ {Qmark} : s \in SameKey(q)} ELSE Range(q)

ResultFits(q, result) ==
  /\ result \in Results
  /\ Range(result.refs) \subseteq {RefOf(p) : p \in Fitting(q)}
  /\ result.unknown \subseteq FitWords(q)

RawResults == [refs : SUBSET LengthRefs, phrases : SUBSET Phrases, unknown : SUBSET Words]

RawFits(found, r) ==
  /\ found.refs \subseteq
       UNION {{<<Len(q), RefOf(p)>> : p \in Fitting(q)} : q \in Range(r.queries)}
  /\ found.phrases \subseteq UNION {Matches(q) : q \in Range(r.queries)}
  /\ found.unknown \subseteq UNION {FitWords(q) : q \in Range(r.queries)}

(* The fields of a request.                                                *)
LEMMA RequestType ==
  ASSUME NEW r \in Requests
  PROVE  /\ r.valid \in BOOLEAN /\ r.queries \in Seq(Seq(Words \cup {Qmark}))
         /\ r.maxPhrases \in Nat /\ r.wordsMin \in Nat /\ r.wordsMax \in Nat /\ r.freqMax \in Nat
         /\ r # None
<1> DEFINE R == [valid : BOOLEAN, queries : Seq(Seq(Words \cup {Qmark})),
                 maxPhrases : Nat, wordsMin : Nat, wordsMax : Nat, freqMax : Nat]
<1>1. PICK w \in Workloads : r \in w.requests
  BY DEF Requests
<1>2. w \in [requests : SUBSET R, searches : Nat, failures : Nat] /\ None \notin w.requests
  BY WorkloadsAssumption
<1> HIDE DEF R
<1>3. r \in R /\ r # None
  BY <1>1, <1>2
<1> QED
  BY <1>3 DEF R

(* The bounds of a workload, and its requests.                             *)
LEMMA WorkloadType ==
  ASSUME NEW w \in Workloads
  PROVE  w.requests \subseteq Requests /\ w.searches \in Nat /\ w.failures \in Nat
<1> DEFINE R == [valid : BOOLEAN, queries : Seq(Seq(Words \cup {Qmark})),
                 maxPhrases : Nat, wordsMin : Nat, wordsMax : Nat, freqMax : Nat]
<1>1. w \in [requests : SUBSET R, searches : Nat, failures : Nat]
  BY WorkloadsAssumption
<1> HIDE DEF R
<1> QED
  BY <1>1 DEF Requests

(* The queries of a request are sequences of words and wildcards.          *)
LEMMA QueryType ==
  ASSUME NEW q \in Queries
  PROVE  /\ q \in Seq(Words \cup {Qmark})
         /\ Key(q) \in QueryKeys
         /\ DOMAIN Key(q) = DOMAIN q
         /\ Range(q) \ {Qmark} \subseteq Words
<1>1. PICK r \in Requests : q \in Range(r.queries)
  BY DEF Queries
<1>2. r.queries \in Seq(Seq(Words \cup {Qmark}))
  BY RequestType
<1>3. PICK i \in DOMAIN r.queries : q = r.queries[i]
  BY <1>1 DEF Range
<1>4. q \in Seq(Words \cup {Qmark})
  <2> DEFINE S == Seq(Words \cup {Qmark})
  <2> HIDE DEF S
  <2>1. r.queries \in Seq(S)
    BY <1>2 DEF S
  <2>2. q \in S
    BY <1>3, <2>1
  <2> QED
    BY <2>2 DEF S
<1>5. Range(q) \subseteq Words \cup {Qmark}
  <2>1. \A n \in DOMAIN q : q[n] \in Words \cup {Qmark}
    BY <1>4
  <2> QED
    BY <2>1 DEF Range
<1> QED
  BY <1>4, <1>5 DEF QueryKeys, Key

(* A query that shares the key of another one is as long.                  *)
LEMMA SameLength ==
  ASSUME NEW q \in Queries, NEW s \in SameKey(q)
  PROVE  s \in Queries /\ Len(s) = Len(q)
<1>1. s \in Queries /\ Key(s) = Key(q)
  BY DEF SameKey, WildcardQueries
<1>2. DOMAIN s = DOMAIN q
  BY <1>1, QueryType
<1>3. s \in Seq(Words \cup {Qmark}) /\ q \in Seq(Words \cup {Qmark})
  BY <1>1, QueryType
<1> QED
  BY <1>1, <1>2, <1>3

(* What fits a query are phrases of its length.                            *)
LEMMA FittingType ==
  ASSUME NEW q \in Queries
  PROVE  /\ Fitting(q) \subseteq Phrases
         /\ \A p \in Fitting(q) : p[1] = Len(q)
         /\ FitWords(q) \ {Qmark} \subseteq Words
         /\ Matches(q) \subseteq Fitting(q)
         /\ HasQmarks(q) => Range(q) \ {Qmark} \subseteq FitWords(q)
<1>1. ASSUME NEW s \in Queries, NEW p \in Matches(s)
      PROVE  p \in Phrases /\ p[1] = Len(s)
  BY PhrasesAssumption DEF Matches
<1>2. ASSUME NEW p \in Fitting(q) PROVE p \in Phrases /\ p[1] = Len(q)
  <2>1. CASE HasQmarks(q)
    <3>1. PICK s \in SameKey(q) : p \in Matches(s)
      BY <2>1 DEF Fitting
    <3>2. s \in Queries /\ Len(s) = Len(q)
      BY SameLength
    <3> QED
      BY <1>1, <3>1, <3>2
  <2>2. CASE ~ HasQmarks(q)
    BY <1>1, <2>2 DEF Fitting
  <2> QED
    BY <2>1, <2>2
<1>3. ASSUME NEW w \in FitWords(q) \ {Qmark} PROVE w \in Words
  <2>1. CASE HasQmarks(q)
    <3>1. PICK s \in SameKey(q) : w \in Range(s) \ {Qmark}
      BY <2>1 DEF FitWords
    <3>2. s \in Queries
      BY SameLength
    <3> QED
      BY <3>1, <3>2, QueryType
  <2>2. CASE ~ HasQmarks(q)
    BY <2>2, QueryType DEF FitWords
  <2> QED
    BY <2>1, <2>2
<1>4. HasQmarks(q) => q \in SameKey(q)
  BY DEF SameKey, WildcardQueries
<1> QED
  BY <1>2, <1>3, <1>4 DEF Fitting, FitWords

(* A limit of a request is a number.                                       *)
LEMMA OptionsType ==
  ASSUME NEW r \in Requests
  PROVE  /\ ToOptions(r) \in Options /\ ToOptions(r) \in AskedOptions
         /\ ToOptions(r).count = r.maxPhrases
         /\ ToOptions(r).maxFreq = IF r.freqMax # 0 THEN r.freqMax ELSE NoLimit
         /\ ToOptions(r).count \in Nat /\ ToOptions(r).maxFreq \in Nat
BY RequestType, FreqAssumption DEF ToOptions, Options, AskedOptions

(* References have numbers for ids and frequencies.                        *)
LEMMA RefsType ==
  /\ \A p \in Phrases : /\ p = <<p[1], p[2]>> /\ p[1] \in Nat /\ p[2] \in Nat
                        /\ Freq[p] \in Nat /\ RefFreq(p) \in Nat
                        /\ RefOf(p).id = p[2] /\ RefOf(p).freq = RefFreq(p)
                        /\ RefOf(p) \in Refs
  /\ Refs \subseteq [id : Nat, freq : Nat]
  /\ \A x \in Refs : x.freq \in Nat
<1>1. ASSUME NEW p \in Phrases
      PROVE  /\ p = <<p[1], p[2]>> /\ p[1] \in Nat /\ p[2] \in Nat
             /\ Freq[p] \in Nat /\ RefFreq(p) \in Nat
  <2>1. p = <<p[1], p[2]>> /\ p[1] \in Nat /\ p[2] \in Nat
    BY PhrasesAssumption
  <2>2. Freq[p] \in Nat /\ RefFreqLimit \in Nat \ {0}
    BY FreqAssumption
  <2>3. Freq[p] % RefFreqLimit \in Nat
    BY <2>2
  <2> QED
    BY <2>1, <2>2, <2>3 DEF RefFreq
<1>2. ASSUME NEW p \in Phrases
      PROVE  /\ RefOf(p).id = p[2] /\ RefOf(p).freq = RefFreq(p)
             /\ RefOf(p) \in [id : Nat, freq : Nat] /\ RefOf(p) \in Refs
  BY <1>1 DEF RefOf, Refs
<1>3. Refs \subseteq [id : Nat, freq : Nat]
  BY <1>2 DEF Refs
<1> QED
  BY <1>1, <1>2, <1>3

(* Pruning leaves what fits.                                               *)
LEMMA PruneFits ==
  ASSUME NEW q \in Queries, NEW result, ResultFits(q, result), NEW o, o.count \in Nat
  PROVE  ResultFits(q, Prune(result, o))
<1> DEFINE refs == result.refs
           I == {i \in DOMAIN refs : refs[i].freq <= o.maxFreq}
           some == ElementsAt(refs, I)
           first == FirstN(some, o.count)
<1>1. refs \in Seq(Refs) /\ result.unknown \in SUBSET Words
  BY DEF ResultFits, Results
<1> HIDE DEF refs
<1>0. I \in SUBSET (DOMAIN refs)
  OBVIOUS
<1> HIDE DEF I
<1>2. /\ some \in Seq(Refs)
      /\ \A n \in DOMAIN some : \E i \in I : some[n] = refs[i]
  BY <1>0, <1>1, ElementsAtType
<1> HIDE DEF some
<1>3. /\ first \in Seq(Refs)
      /\ \A i \in DOMAIN first : i \in DOMAIN some /\ first[i] = some[i]
  BY <1>2, FirstNType
<1> HIDE DEF first
<1>4. Range(first) \subseteq Range(refs)
  BY <1>0, <1>2, <1>3 DEF Range
<1>5. Prune(result, o) = [refs |-> first, unknown |-> result.unknown]
  BY DEF Prune, first, some, I, refs
<1> QED
  BY <1>1, <1>3, <1>4, <1>5 DEF ResultFits, Results, refs

(* What the cache serves fits.                                             *)
LEMMA ServedFits ==
  ASSUME NEW q \in Queries, NEW item, item # None => ResultFits(q, item.result),
         NEW o, o.count \in Nat, Served(item, o) # None
  PROVE  ResultFits(q, Served(item, o)) /\ item # None
BY PruneFits DEF Served

(* Merging leaves what fits.                                               *)
LEMMA MergeFits ==
  ASSUME NEW q \in Queries, NEW new, ResultFits(q, new), NEW old, ResultFits(q, old)
  PROVE  ResultFits(q, Merge(new, old))
<1>1. new.refs \in Seq(Refs) /\ old.refs \in Seq(Refs)
  BY DEF ResultFits, Results
<1>2. /\ SetUnion(new.refs, old.refs) \in Seq(Refs)
      /\ Range(SetUnion(new.refs, old.refs)) \subseteq Range(new.refs) \cup Range(old.refs)
  BY <1>1, RefsType, SetUnionType
<1>3. new.unknown \cup old.unknown \in SUBSET Words
  BY DEF ResultFits, Results
<1>4. Merge(new, old) = [refs |-> SetUnion(new.refs, old.refs),
                         unknown |-> new.unknown \cup old.unknown]
  BY DEF Merge
<1> QED
  BY <1>2, <1>3, <1>4 DEF ResultFits, Results

(* What the query processor answers fits.                                  *)
LEMMA AnswerFits ==
  ASSUME NEW q \in Queries, HasQmarks(q), NEW o \in AskedOptions
  PROVE  ResultFits(q, QueryProcessor(o, q))
<1>1. q \in WildcardQueries
  BY DEF WildcardQueries
<1>2. /\ QueryProcessor(o, q) \in Results
      /\ Range(QueryProcessor(o, q).refs) \subseteq {RefOf(p) : p \in Matches(q)}
      /\ QueryProcessor(o, q).unknown \subseteq Range(q) \ {Qmark}
  BY <1>1, ProcessAssumption
<1> QED
  BY <1>2, FittingType DEF ResultFits

(* What is reported for a word that could not be read fits.                *)
LEMMA ReadFailedFits ==
  ASSUME NEW q \in Queries, HasQmarks(q), NEW w \in Range(q) \ {Qmark}
  PROVE  ResultFits(q, ReadFailed(w))
<1>1. w \in Words /\ w \in FitWords(q)
  BY QueryType, FittingType
<1>2. Range(<<>>) = {} /\ <<>> \in Seq(Refs)
  BY DEF Range
<1> QED
  BY <1>1, <1>2 DEF ReadFailed, ResultFits, Results

(* Queries that share a key share what fits.                               *)
LEMMA FitsSameKey ==
  ASSUME NEW q \in WildcardQueries, NEW s \in WildcardQueries, Key(q) = Key(s),
         NEW result, ResultFits(q, result)
  PROVE  ResultFits(s, result)
<1>1. SameKey(q) = SameKey(s) /\ HasQmarks(q) /\ HasQmarks(s)
  BY DEF SameKey, WildcardQueries
<1> QED
  BY <1>1 DEF ResultFits, Fitting, FitWords

(* A raw result with the result of one more wildcard query.                *)
WithResult(found, q, result) ==
  [refs |-> found.refs \cup {<<Len(q), ref>> : ref \in Range(result.refs)},
   phrases |-> found.phrases,
   unknown |-> found.unknown \cup result.unknown]

(* The references of a result become raw references of the length of the   *)
(* query that they fit.                                                    *)
LEMMA RawWithResult ==
  ASSUME NEW r \in Requests, NEW q \in Range(r.queries), HasQmarks(q),
         NEW found \in RawResults, RawFits(found, r),
         NEW result, ResultFits(q, result)
  PROVE  WithResult(found, q, result) \in RawResults /\ RawFits(WithResult(found, q, result), r)
<1> DEFINE new == {<<Len(q), ref>> : ref \in Range(result.refs)}
<1>1. q \in Queries
  BY DEF Queries
<1>2. new \subseteq {<<Len(q), RefOf(p)>> : p \in Fitting(q)}
  BY DEF ResultFits
<1>3. {<<Len(q), RefOf(p)>> : p \in Fitting(q)} \subseteq LengthRefs
  BY <1>1, FittingType DEF LengthRefs
<1>4. result.unknown \in SUBSET Words
  BY DEF ResultFits, Results
<1>5. found.refs \subseteq LengthRefs /\ found.phrases \subseteq Phrases /\ found.unknown \subseteq Words
  BY DEF RawResults
<1>6. WithResult(found, q, result) \in RawResults
  BY <1>2, <1>3, <1>4, <1>5 DEF WithResult, RawResults
<1>7. result.unknown \subseteq FitWords(q)
  BY DEF ResultFits
<1>8. RawFits(WithResult(found, q, result), r)
  BY <1>2, <1>7 DEF WithResult, RawFits
<1> QED
  BY <1>6, <1>8

(* Phrases are ordered by their natural order.                             *)
LEMMA PhrasesOrdered ==
  ASSUME NEW X \in SUBSET Phrases
  PROVE  IsFiniteSet(X) /\ StrictlyOrders(PhraseOrder, X)
<1>1. IsFiniteSet(X)
  BY PhrasesAssumption, FS_Subset
<1>2. ASSUME NEW p \in X PROVE <<p, p>> \notin PhraseOrder
  BY RefsType DEF PhraseOrder, PhraseLess, IdLess
<1>3. ASSUME NEW p \in X, NEW r \in X, p # r
      PROVE  <<p, r>> \in PhraseOrder \/ <<r, p>> \in PhraseOrder
  <2>1. p = <<p[1], p[2]>> /\ r = <<r[1], r[2]>>
    BY RefsType
  <2>2. p[1] # r[1] \/ p[2] # r[2]
    BY <1>3, <2>1
  <2>3. /\ p[1] \in Nat /\ p[2] \in Nat /\ r[1] \in Nat /\ r[2] \in Nat
        /\ Freq[p] \in Nat /\ Freq[r] \in Nat
    BY RefsType
  <2>4. PhraseLess(p, r) \/ PhraseLess(r, p)
    BY <2>2, <2>3 DEF PhraseLess, IdLess
  <2> QED
    BY <2>4 DEF PhraseOrder
<1>4. ASSUME NEW p \in X, NEW r \in X, NEW s \in X,
             <<p, r>> \in PhraseOrder, <<r, s>> \in PhraseOrder
      PROVE  <<p, s>> \in PhraseOrder
  <2>1. /\ p[1] \in Nat /\ p[2] \in Nat /\ r[1] \in Nat /\ r[2] \in Nat
        /\ s[1] \in Nat /\ s[2] \in Nat
        /\ Freq[p] \in Nat /\ Freq[r] \in Nat /\ Freq[s] \in Nat
    BY RefsType
  <2>2. PhraseLess(p, r) /\ PhraseLess(r, s)
    BY <1>4 DEF PhraseOrder
  <2>3. PhraseLess(p, s)
    BY <2>1, <2>2 DEF PhraseLess, IdLess
  <2> QED
    BY <2>3 DEF PhraseOrder
<1> QED
  BY <1>1, <1>2, <1>3, <1>4 DEF StrictlyOrders

(* A response has the phrases of the raw result, in their natural order,   *)
(* each once and not more than asked for.                                  *)
LEMMA MergeRawType ==
  ASSUME NEW found \in RawResults, NEW k \in Nat
  PROVE  LET phrases == MergeRaw(found, k)
             named == {PhraseOf(x) : x \in found.refs} \cup found.phrases
         IN /\ phrases \in Seq(Phrases) /\ Len(phrases) <= k
            /\ Range(phrases) \subseteq named
            /\ \A i, j \in DOMAIN phrases : i < j => PhraseLess(phrases[i], phrases[j])
            /\ named \subseteq Phrases
<1> DEFINE top == TopPhrases(found.refs, k)
           X == top \cup found.phrases
           s == Ordered(X, PhraseOrder)
<1>1. found.refs \subseteq LengthRefs /\ found.phrases \subseteq Phrases
  BY DEF RawResults
<1>2. ASSUME NEW x \in found.refs PROVE PhraseOf(x) \in Phrases
  <2>1. PICK p \in Phrases : x = <<p[1], RefOf(p)>>
    BY <1>1 DEF LengthRefs
  <2>2. PhraseOf(x) = p
    BY <2>1, RefsType DEF PhraseOf
  <2> QED
    BY <2>2
<1>3. top \subseteq {PhraseOf(x) : x \in found.refs}
  BY DEF TopPhrases
<1>4. X \subseteq Phrases
  BY <1>1, <1>2, <1>3
<1>5. /\ s \in Seq(X)
      /\ \A i, j \in DOMAIN s : i < j => <<s[i], s[j]>> \in PhraseOrder
  BY <1>4, PhrasesOrdered, OrderedListing
<1> HIDE DEF s, X, top
<1>6. s \in Seq(Phrases)
  BY <1>4, <1>5
<1>7. MergeRaw(found, k) = FirstN(s, k)
  BY DEF MergeRaw, s, X, top
<1>8. /\ FirstN(s, k) \in Seq(X) /\ Len(FirstN(s, k)) <= k
      /\ \A i \in DOMAIN FirstN(s, k) : i \in DOMAIN s /\ FirstN(s, k)[i] = s[i]
  BY <1>5, FirstNType
<1>9. FirstN(s, k) \in Seq(Phrases)
  BY <1>4, <1>8
<1>10. Range(FirstN(s, k)) \subseteq X
  BY <1>8 DEF Range
<1>11. \A i, j \in DOMAIN FirstN(s, k) : i < j => PhraseLess(FirstN(s, k)[i], FirstN(s, k)[j])
  BY <1>5, <1>8 DEF PhraseOrder
<1>12. {PhraseOf(x) : x \in found.refs} \cup found.phrases \subseteq Phrases
  BY <1>1, <1>2
<1>13. X \subseteq {PhraseOf(x) : x \in found.refs} \cup found.phrases
  BY <1>3 DEF X
<1> QED
  BY <1>7, <1>8, <1>9, <1>10, <1>11, <1>12, <1>13

-----------------------------------------------------------------------------
(* The invariant: the cache and the threads only have what fits the        *)
(* queries that they have it for.                                          *)

CacheFits(stored) ==
  \A q \in WildcardQueries : stored[Key(q)] # None => ResultFits(q, stored[Key(q)].result)

ReplyFits(reply, r) ==
  /\ \A p \in Range(reply.phrases) : \E q \in Range(r.queries) : p \in Fitting(q)
  /\ \A i, j \in DOMAIN reply.phrases : i < j => PhraseLess(reply.phrases[i], reply.phrases[j])
  /\ Len(reply.phrases) <= r.maxPhrases

(* Of a thread, by what it has in each of the variables.                   *)
ThreadFits(at, r, left, item, answer, found, reply) ==
  /\ at # "idle" => r \in Requests /\ Range(left) \subseteq Range(r.queries) /\ RawFits(found, r)
  /\ at = "store" => /\ left # <<>> /\ HasQmarks(Head(left))
                     /\ ResultFits(Head(left), answer)
                     /\ item # None => ResultFits(Head(left), item.result)
  /\ at = "idle" /\ reply # None /\ "phrases" \in DOMAIN reply =>
       r \in Requests /\ ReplyFits(reply, r)

FitsInv ==
  /\ TypeOK /\ Cache!Stored = Cache!Ranked
  /\ CacheFits(storage)
  /\ \A t \in Threads :
       ThreadFits(pc[t], request[t], todo[t], seen[t], fresh[t], raw[t], response[t])

(* A step that gives one thread a new state.                               *)
Moved(t, at, r, left, item, answer, found, reply) ==
  /\ pc' = [pc EXCEPT ![t] = at] /\ request' = [request EXCEPT ![t] = r]
  /\ todo' = [todo EXCEPT ![t] = left] /\ seen' = [seen EXCEPT ![t] = item]
  /\ fresh' = [fresh EXCEPT ![t] = answer] /\ raw' = [raw EXCEPT ![t] = found]
  /\ response' = [response EXCEPT ![t] = reply]

(* A step of one thread keeps the invariant if its new state is as it says.*)
LEMMA ThreadMoves ==
  ASSUME FitsInv, NEW t \in Threads,
         workload' = workload, CacheFits(storage'),
         Cache!TypeOK', Cache!Stored' = Cache!Ranked',
         NEW at \in {"idle", "search", "store"}, NEW r \in Requests \cup {None},
         NEW left \in Seq(Queries), NEW item \in CacheItems \cup {None},
         NEW answer \in Results \cup {None}, NEW found \in RawResults,
         NEW reply \in Responses \cup {None},
         Moved(t, at, r, left, item, answer, found, reply),
         ThreadFits(at, r, left, item, answer, found, reply),
         searches' \in 0 .. workload.searches, failures' \in 0 .. workload.failures
  PROVE  FitsInv'
<1>1. /\ pc \in [Threads -> {"idle", "search", "store"}]
      /\ request \in [Threads -> Requests \cup {None}]
      /\ todo \in [Threads -> Seq(Queries)]
      /\ seen \in [Threads -> CacheItems \cup {None}]
      /\ fresh \in [Threads -> Results \cup {None}]
      /\ raw \in [Threads -> RawResults]
      /\ response \in [Threads -> Responses \cup {None}]
      /\ workload \in Workloads
  BY DEF FitsInv, TypeOK, RawResults
<1>2. /\ pc' \in [Threads -> {"idle", "search", "store"}]
      /\ request' \in [Threads -> Requests \cup {None}]
      /\ todo' \in [Threads -> Seq(Queries)]
      /\ seen' \in [Threads -> CacheItems \cup {None}]
      /\ fresh' \in [Threads -> Results \cup {None}]
      /\ raw' \in [Threads -> RawResults]
      /\ response' \in [Threads -> Responses \cup {None}]
  BY <1>1 DEF Moved
<1>3. TypeOK'
  BY <1>1, <1>2 DEF TypeOK, RawResults, MaxReadFailures
<1>4. ASSUME NEW u \in Threads
      PROVE  ThreadFits(pc'[u], request'[u], todo'[u], seen'[u], fresh'[u], raw'[u], response'[u])
  <2>1. CASE u = t
    <3>1. /\ pc'[u] = at /\ request'[u] = r /\ todo'[u] = left /\ seen'[u] = item
          /\ fresh'[u] = answer /\ raw'[u] = found /\ response'[u] = reply
      BY <1>1, <2>1 DEF Moved
    <3> QED
      BY <3>1
  <2>2. CASE u # t
    <3>1. /\ pc'[u] = pc[u] /\ request'[u] = request[u] /\ todo'[u] = todo[u]
          /\ seen'[u] = seen[u] /\ fresh'[u] = fresh[u] /\ raw'[u] = raw[u]
          /\ response'[u] = response[u]
      BY <1>1, <2>2 DEF Moved
    <3> QED
      BY <3>1 DEF FitsInv
  <2> QED
    BY <2>1, <2>2
<1> QED
  BY <1>3, <1>4 DEF FitsInv

(* What a variable has for a thread does not change if the variable does   *)
(* not.                                                                    *)
LEMMA ThreadTypes ==
  ASSUME TypeOK, NEW t \in Threads
  PROVE  /\ pc[t] \in {"idle", "search", "store"} /\ pc = [pc EXCEPT ![t] = pc[t]]
         /\ request[t] \in Requests \cup {None} /\ request = [request EXCEPT ![t] = request[t]]
         /\ todo[t] \in Seq(Queries) /\ todo = [todo EXCEPT ![t] = todo[t]]
         /\ seen[t] \in CacheItems \cup {None} /\ seen = [seen EXCEPT ![t] = seen[t]]
         /\ fresh[t] \in Results \cup {None} /\ fresh = [fresh EXCEPT ![t] = fresh[t]]
         /\ raw[t] \in RawResults /\ raw = [raw EXCEPT ![t] = raw[t]]
         /\ response[t] \in Responses \cup {None} /\ response = [response EXCEPT ![t] = response[t]]
         /\ workload \in Workloads /\ Cache!TypeOK
         /\ searches \in 0 .. workload.searches /\ failures \in 0 .. workload.failures
BY DEF TypeOK, RawResults, MaxReadFailures

(* What an operation on one entry does to the cache.                       *)
CacheChange(k, v) ==
  /\ Cache!TypeOK' /\ Cache!Stored' = Cache!Ranked'
  /\ \A j \in QueryKeys : storage'[j] \in {storage[j], None} \/ (j = k /\ storage'[j] = v)

(* A lookup in the cache changes no entry.                                 *)
LEMMA FindMoves ==
  ASSUME Cache!TypeOK, Cache!Stored = Cache!Ranked, NEW k \in QueryKeys, Cache!Find(k)
  PROVE  /\ Cache!TypeOK' /\ Cache!Stored' = Cache!Ranked'
         /\ storage' = storage
<1> USE CacheAssumption, NoneAssumption DEF Cache!Priorities
<1>1. UNCHANGED <<storage, capacity>> /\ accCount' = accCount + 1
  BY DEF Cache!Find
<1>2. CASE k \notin Cache!Stored
  <2>1. UNCHANGED <<policy, hitCount>>
    BY <1>2 DEF Cache!Find
  <2> QED
    BY <1>1, <2>1 DEF Cache!TypeOK, Cache!Stored, Cache!Ranked
<1>3. CASE k \in Cache!Stored
  <2>1. policy[k] \in 0 .. PriorityLimit - 1
    BY <1>3 DEF Cache!TypeOK, Cache!Ranked
  <2> DEFINE p == (policy[k] + 1) % PriorityLimit
  <2>2. p \in 0 .. PriorityLimit - 1 /\ p # None
    BY <2>1
  <2>3. policy' = [policy EXCEPT ![k] = p] /\ hitCount' = hitCount + 1
    BY <1>3 DEF Cache!Find
  <2> HIDE DEF p
  <2>4. Cache!TypeOK'
    BY <1>1, <2>2, <2>3 DEF Cache!TypeOK
  <2>5. Cache!Stored' = Cache!Stored /\ Cache!Ranked' = Cache!Ranked
    BY <1>1, <1>3, <2>2, <2>3 DEF Cache!TypeOK, Cache!Stored, Cache!Ranked
  <2> QED
    BY <1>1, <2>4, <2>5
<1> QED
  BY <1>2, <1>3

(* A new entry may take the place of another.                              *)
LEMMA InsertNewMoves ==
  ASSUME Cache!TypeOK, Cache!Stored = Cache!Ranked,
         NEW k \in QueryKeys, NEW v \in CacheItems,
         Cache!InsertNew(k, v), UNCHANGED <<capacity, accCount, hitCount>>
  PROVE  CacheChange(k, v)
<1> USE CacheAssumption, NoneAssumption DEF Cache!Priorities
<1>1. PICK gone \in Cache!Victims :
        /\ storage' = [Cache!Without(storage, gone) EXCEPT ![k] = v]
        /\ policy' = [Cache!Without(policy, gone) EXCEPT ![k] = 1]
  BY DEF Cache!InsertNew
<1>2. Cache!TypeOK'
  BY <1>1 DEF Cache!TypeOK, Cache!Without
<1>3. \A j \in QueryKeys :
        /\ storage'[j] = IF j = k THEN v ELSE IF j \in gone THEN None ELSE storage[j]
        /\ policy'[j] = IF j = k THEN 1 ELSE IF j \in gone THEN None ELSE policy[j]
  BY <1>1 DEF Cache!TypeOK, Cache!Without
<1>4. Cache!Stored' = Cache!Ranked'
  BY <1>3 DEF Cache!TypeOK, Cache!Stored, Cache!Ranked
<1> QED
  BY <1>2, <1>3, <1>4 DEF CacheChange

(* What a result is stored with replaces at most the entry of its key.     *)
LEMMA StoreMoves ==
  ASSUME Cache!TypeOK, Cache!Stored = Cache!Ranked,
         NEW k \in QueryKeys, NEW v \in CacheItems,
         Cache!Insert(k, v) \/ Cache!Update(k, v)
  PROVE  CacheChange(k, v)
<1> USE CacheAssumption, NoneAssumption DEF Cache!Priorities
<1>1. UNCHANGED <<capacity, accCount, hitCount>>
  BY DEF Cache!Insert, Cache!Update
<1>2. CASE UNCHANGED <<storage, policy>>
  BY <1>1, <1>2 DEF CacheChange, Cache!TypeOK, Cache!Stored, Cache!Ranked
<1>3. CASE Cache!InsertNew(k, v)
  BY <1>1, <1>3, InsertNewMoves
<1>4. ASSUME k \in Cache!Stored, storage' = [storage EXCEPT ![k] = v],
             policy' = [policy EXCEPT ![k] = 1]
      PROVE  CacheChange(k, v)
  <2>1. Cache!TypeOK'
    BY <1>1, <1>4 DEF Cache!TypeOK
  <2>2. Cache!Stored' = Cache!Stored /\ Cache!Ranked' = Cache!Ranked
    BY <1>4 DEF Cache!TypeOK, Cache!Stored, Cache!Ranked
  <2>3. \A j \in QueryKeys : storage'[j] = storage[j] \/ (j = k /\ storage'[j] = v)
    BY <1>4 DEF Cache!TypeOK
  <2> QED
    BY <2>1, <2>2, <2>3 DEF CacheChange
<1>5. CASE Cache!Insert(k, v)
  BY <1>2, <1>3, <1>5 DEF Cache!Insert
<1>6. CASE Cache!Update(k, v)
  BY <1>2, <1>3, <1>4, <1>6 DEF Cache!Update
<1> QED
  BY <1>5, <1>6

(* The first query that is left, and the others.                           *)
LEMMA NextQuery ==
  ASSUME NEW r \in Requests, NEW left \in Seq(Queries), left # <<>>,
         Range(left) \subseteq Range(r.queries)
  PROVE  /\ Head(left) \in Queries /\ Head(left) \in Range(r.queries)
         /\ Tail(left) \in Seq(Queries) /\ Range(Tail(left)) \subseteq Range(r.queries)
         /\ HasQmarks(Head(left)) => Head(left) \in WildcardQueries
<1>1. Head(left) = left[1] /\ 1 \in DOMAIN left /\ Head(left) \in Queries
  OBVIOUS
<1>2. Head(left) \in Range(left)
  BY <1>1 DEF Range
<1>3. /\ Tail(left) \in Seq(Queries)
      /\ \A i \in DOMAIN Tail(left) : i + 1 \in DOMAIN left /\ Tail(left)[i] = left[i + 1]
  OBVIOUS
<1>4. Range(Tail(left)) \subseteq Range(left)
  BY <1>3 DEF Range
<1> QED
  BY <1>1, <1>2, <1>3, <1>4 DEF WildcardQueries

(* Two fields of a raw result change.                                      *)
LEMMA RawRecord ==
  ASSUME NEW c \in RawResults, NEW a, NEW b
  PROVE  [c EXCEPT !.refs = a, !.unknown = b]
           = [refs |-> a, phrases |-> c.phrases, unknown |-> b]
<1> DEFINE d == [c EXCEPT !.refs = a, !.unknown = b]
           e == [refs |-> a, phrases |-> c.phrases, unknown |-> b]
<1>1. d = [i \in DOMAIN c |-> CASE i = "unknown" -> b [] i = "refs" -> a [] OTHER -> c[i]]
  OBVIOUS
<1>2. e = [i \in {"refs", "phrases", "unknown"} |-> e[i]]
  OBVIOUS
<1>3. DOMAIN c = {"refs", "phrases", "unknown"}
  BY DEF RawResults
<1>4. e["refs"] = a /\ e["unknown"] = b /\ e["phrases"] = c["phrases"]
  OBVIOUS
<1> QED
  BY <1>1, <1>2, <1>3, <1>4

(* Two other fields of a raw result change.                                *)
LEMMA PhrasesRecord ==
  ASSUME NEW c \in RawResults, NEW a, NEW b
  PROVE  [c EXCEPT !.phrases = a, !.unknown = b]
           = [refs |-> c.refs, phrases |-> a, unknown |-> b]
<1> DEFINE d == [c EXCEPT !.phrases = a, !.unknown = b]
           e == [refs |-> c.refs, phrases |-> a, unknown |-> b]
<1>1. d = [i \in DOMAIN c |-> CASE i = "unknown" -> b [] i = "phrases" -> a [] OTHER -> c[i]]
  OBVIOUS
<1>2. e = [i \in {"refs", "phrases", "unknown"} |-> e[i]]
  OBVIOUS
<1>3. DOMAIN c = {"refs", "phrases", "unknown"}
  BY DEF RawResults
<1>4. e["phrases"] = a /\ e["unknown"] = b /\ e["refs"] = c["refs"]
  OBVIOUS
<1> QED
  BY <1>1, <1>2, <1>3, <1>4

(* A query that is done with adds its result.                              *)
LEMMA DoneMoves ==
  ASSUME FitsInv, NEW t \in Threads, pc[t] # "idle", todo[t] # <<>>, HasQmarks(Query(t)),
         NEW result, ResultFits(Query(t), result), Done(t, result)
  PROVE  LET found == WithResult(raw[t], Query(t), result)
             left == Tail(todo[t])
         IN /\ found \in RawResults /\ left \in Seq(Queries)
            /\ raw' = [raw EXCEPT ![t] = found] /\ todo' = [todo EXCEPT ![t] = left]
            /\ Range(left) \subseteq Range(request[t].queries)
            /\ RawFits(found, request[t])
<1> DEFINE found == WithResult(raw[t], Query(t), result)
           left == Tail(todo[t])
<1>1. /\ request[t] \in Requests /\ Range(todo[t]) \subseteq Range(request[t].queries)
      /\ RawFits(raw[t], request[t])
  BY DEF FitsInv, ThreadFits
<1>2. TypeOK
  BY DEF FitsInv
<1>3. todo[t] \in Seq(Queries) /\ raw[t] \in RawResults /\ raw \in [Threads -> RawResults]
  BY <1>2 DEF TypeOK, RawResults
<1>4. /\ Query(t) \in Range(request[t].queries)
      /\ left \in Seq(Queries) /\ Range(left) \subseteq Range(request[t].queries)
  BY <1>1, <1>3, NextQuery DEF Query
<1>5. found \in RawResults /\ RawFits(found, request[t])
  BY <1>1, <1>3, <1>4, RawWithResult
<1>6. todo' = [todo EXCEPT ![t] = left]
  BY DEF Done
<1>7. raw' = [raw EXCEPT ![t] = found]
  <2> DEFINE new == {<<Len(Query(t)), ref>> : ref \in Range(result.refs)}
             words == result.unknown
             half == [raw EXCEPT ![t].refs = @ \cup new]
  <2>1. found = [refs |-> raw[t].refs \cup new, phrases |-> raw[t].phrases,
                 unknown |-> raw[t].unknown \cup words]
    BY DEF WithResult
  <2>2. raw' = [raw EXCEPT ![t].refs = @ \cup new, ![t].unknown = @ \cup words]
    BY DEF Done
  <2> HIDE DEF new, words, found
  <2>3. half = [raw EXCEPT ![t] = [raw[t] EXCEPT !.refs = @ \cup new]]
    BY <1>3 DEF RawResults
  <2>4. half[t] = [raw[t] EXCEPT !.refs = @ \cup new] /\ DOMAIN half = Threads
    BY <1>3, <2>3 DEF RawResults
  <2>5. raw' = [half EXCEPT ![t].unknown = @ \cup words]
    BY <1>3, <2>2 DEF RawResults
  <2> HIDE DEF half
  <2>6. raw' = [half EXCEPT ![t] = [half[t] EXCEPT !.unknown = @ \cup words]]
    BY <2>4, <2>5
  <2>7. raw' = [raw EXCEPT ![t] = [half[t] EXCEPT !.unknown = @ \cup words]]
    BY <1>3, <2>3, <2>6 DEF RawResults
  <2>8. [half[t] EXCEPT !.unknown = @ \cup words]
          = [raw[t] EXCEPT !.refs = raw[t].refs \cup new, !.unknown = raw[t].unknown \cup words]
    BY <1>3, <2>4 DEF RawResults
  <2>9. [raw[t] EXCEPT !.refs = raw[t].refs \cup new, !.unknown = raw[t].unknown \cup words] = found
    BY <1>3, <2>1, RawRecord
  <2> QED
    BY <2>7, <2>8, <2>9
<1> QED
  BY <1>4, <1>5, <1>6, <1>7

(* The cache keeps to what fits when a result that fits is stored.         *)
LEMMA CacheStaysFit ==
  ASSUME CacheFits(storage), NEW q \in WildcardQueries, NEW v \in CacheItems,
         ResultFits(q, v.result), CacheChange(Key(q), v)
  PROVE  CacheFits(storage')
<1> SUFFICES ASSUME NEW s \in WildcardQueries, storage'[Key(s)] # None
             PROVE  ResultFits(s, storage'[Key(s)].result)
  BY DEF CacheFits
<1>1. Key(s) \in QueryKeys
  BY QueryType DEF WildcardQueries
<1>2. \/ storage'[Key(s)] = storage[Key(s)]
      \/ Key(s) = Key(q) /\ storage'[Key(s)] = v
  BY <1>1 DEF CacheChange
<1> QED
  BY <1>2, FitsSameKey DEF CacheFits

(* What a thread that searches has.                                        *)
LEMMA SearchingFits ==
  ASSUME FitsInv, NEW t \in Threads, pc[t] # "idle", todo[t] # <<>>
  PROVE  /\ request[t] \in Requests /\ Query(t) \in Queries
         /\ Query(t) \in Range(request[t].queries)
         /\ Tail(todo[t]) \in Seq(Queries)
         /\ Range(todo[t]) \subseteq Range(request[t].queries)
         /\ Range(Tail(todo[t])) \subseteq Range(request[t].queries)
         /\ RawFits(raw[t], request[t]) /\ raw[t] \in RawResults
         /\ OptionsOf(t) \in Options /\ OptionsOf(t) \in AskedOptions
         /\ OptionsOf(t).count \in Nat
         /\ HasQmarks(Query(t)) =>
              /\ Query(t) \in WildcardQueries /\ Key(Query(t)) \in QueryKeys
              /\ storage[Key(Query(t))] \in CacheItems \cup {None}
              /\ storage[Key(Query(t))] # None =>
                   ResultFits(Query(t), storage[Key(Query(t))].result)
<1>1. TypeOK /\ CacheFits(storage)
  BY DEF FitsInv
<1>2. /\ request[t] \in Requests /\ Range(todo[t]) \subseteq Range(request[t].queries)
      /\ RawFits(raw[t], request[t])
  BY DEF FitsInv, ThreadFits
<1>3. todo[t] \in Seq(Queries) /\ raw[t] \in RawResults
  BY <1>1 DEF TypeOK, RawResults
<1>4. /\ Query(t) \in Queries /\ Query(t) \in Range(request[t].queries)
      /\ Tail(todo[t]) \in Seq(Queries)
      /\ Range(Tail(todo[t])) \subseteq Range(request[t].queries)
      /\ HasQmarks(Query(t)) => Query(t) \in WildcardQueries
  BY <1>2, <1>3, NextQuery DEF Query
<1>5. OptionsOf(t) \in Options /\ OptionsOf(t) \in AskedOptions /\ OptionsOf(t).count \in Nat
  BY <1>2, OptionsType DEF OptionsOf
<1>6. Key(Query(t)) \in QueryKeys
  BY <1>4, QueryType
<1>7. storage[Key(Query(t))] \in CacheItems \cup {None}
  BY <1>1, <1>6 DEF TypeOK, Cache!TypeOK
<1> QED
  BY <1>1, <1>2, <1>3, <1>4, <1>5, <1>6, <1>7 DEF CacheFits

(* Start keeps the invariant.                                              *)
LEMMA StartFits ==
  ASSUME FitsInv, NEW t \in Threads, NEW r \in workload.requests, Start(t, r)
  PROVE  /\ FitsInv' /\ storage' = storage
         /\ \E at \in {"idle", "search"} : \E left, found, reply :
              /\ Moved(t, at, r, left, seen[t], fresh[t], found, reply)
              /\ at = "search" => r.valid /\ left = r.queries /\ found = EmptyRaw
              /\ at = "search" => reply = None
              /\ at = "idle" => ~ r.valid /\ reply = [error |-> "INVALID_QUERY"]
<1>1. TypeOK /\ Cache!Stored = Cache!Ranked /\ CacheFits(storage)
  BY DEF FitsInv
<1>2. r \in Requests /\ workload.searches \in Nat
  BY <1>1, WorkloadType DEF TypeOK
<1>3. UNCHANGED <<workload, storage, policy, capacity, accCount, hitCount, seen, fresh, failures>>
  BY DEF Start, cacheVars
<1>4. Cache!TypeOK' /\ Cache!Stored' = Cache!Ranked' /\ CacheFits(storage')
  BY <1>1, <1>3 DEF TypeOK, Cache!TypeOK, Cache!Stored, Cache!Ranked
<1>5. searches' \in 0 .. workload.searches /\ failures' \in 0 .. workload.failures
  BY <1>1, <1>2, <1>3 DEF Start, TypeOK, MaxReadFailures
<1>6. /\ seen' = [seen EXCEPT ![t] = seen[t]] /\ fresh' = [fresh EXCEPT ![t] = fresh[t]]
      /\ seen[t] \in CacheItems \cup {None} /\ fresh[t] \in Results \cup {None}
      /\ todo[t] \in Seq(Queries) /\ raw[t] \in RawResults
      /\ pc = [pc EXCEPT ![t] = pc[t]] /\ todo = [todo EXCEPT ![t] = todo[t]]
      /\ raw = [raw EXCEPT ![t] = raw[t]]
  BY <1>1, <1>3, ThreadTypes
<1>7. pc[t] = "idle" /\ request' = [request EXCEPT ![t] = r]
  BY DEF Start
<1>8. CASE r.valid
  <2>1. /\ pc' = [pc EXCEPT ![t] = "search"] /\ todo' = [todo EXCEPT ![t] = r.queries]
        /\ raw' = [raw EXCEPT ![t] = EmptyRaw] /\ response' = [response EXCEPT ![t] = None]
    BY <1>8 DEF Start
  <2>2. EmptyRaw \in RawResults /\ RawFits(EmptyRaw, r)
    BY DEF EmptyRaw, RawResults, RawFits
  <2>3. r.queries \in Seq(Queries)
    <3> DEFINE S == Seq(Words \cup {Qmark})
               s == r.queries
    <3>1. s \in Seq(S)
      BY <1>2, RequestType
    <3>2. \A x \in Range(s) : x \in Queries
      BY <1>2 DEF Queries
    <3> HIDE DEF S, s
    <3>3. \A i \in DOMAIN s : s[i] \in Queries
      BY <3>2 DEF Range
    <3>4. s \in Seq(Queries)
      BY <3>1, <3>3
    <3> QED
      BY <3>4 DEF s
  <2>4. ThreadFits("search", r, r.queries, seen[t], fresh[t], EmptyRaw, None)
    BY <1>2, <2>2 DEF ThreadFits
  <2>5. Moved(t, "search", r, r.queries, seen[t], fresh[t], EmptyRaw, None)
    BY <1>6, <1>7, <2>1 DEF Moved
  <2> QED
    <3>1. FitsInv'
      BY <1>2, <1>3, <1>4, <1>5, <1>6, <2>2, <2>3, <2>4, <2>5, ThreadMoves
    <3> QED
      BY <1>3, <1>8, <2>5, <3>1
<1>9. CASE ~ r.valid
  <2> DEFINE reply == [error |-> "INVALID_QUERY"]
  <2>1. response' = [response EXCEPT ![t] = reply] /\ UNCHANGED <<pc, todo, raw>>
    BY <1>9 DEF Start
  <2>2. reply \in Responses /\ "phrases" \notin DOMAIN reply
    BY DEF Responses
  <2> HIDE DEF reply
  <2>3. ThreadFits("idle", r, todo[t], seen[t], fresh[t], raw[t], reply)
    BY <2>2 DEF ThreadFits
  <2>4. /\ pc' = [pc EXCEPT ![t] = "idle"] /\ todo' = [todo EXCEPT ![t] = todo[t]]
        /\ raw' = [raw EXCEPT ![t] = raw[t]]
    BY <1>6, <1>7, <2>1
  <2>5. Moved(t, "idle", r, todo[t], seen[t], fresh[t], raw[t], reply)
    BY <1>6, <1>7, <2>1, <2>4 DEF Moved
  <2> QED
    <3>1. FitsInv'
      BY <1>2, <1>3, <1>4, <1>5, <1>6, <2>2, <2>3, <2>5, ThreadMoves
    <3> QED
      BY <1>3, <1>9, <2>5, <3>1 DEF reply
<1> QED
  BY <1>8, <1>9

(* ServeFromCache keeps the invariant.                                     *)
LEMMA ServeFromCacheFits ==
  ASSUME FitsInv, NEW t \in Threads, ServeFromCache(t), UNCHANGED workload
  PROVE  LET result == Served(storage[Key(Query(t))], OptionsOf(t))
             found == WithResult(raw[t], Query(t), result)
         IN /\ FitsInv' /\ storage' = storage
            /\ Moved(t, "search", request[t], Tail(todo[t]), seen[t], fresh[t], found, response[t])
<1> DEFINE q == Query(t)
           result == Served(storage[Key(q)], OptionsOf(t))
           found == WithResult(raw[t], q, result)
           left == Tail(todo[t])
<1>1. TypeOK /\ Cache!TypeOK /\ Cache!Stored = Cache!Ranked /\ CacheFits(storage)
  BY DEF FitsInv, TypeOK
<1>2. /\ pc[t] = "search" /\ todo[t] # <<>> /\ HasQmarks(q)
      /\ Cache!Find(Key(q)) /\ result # None /\ Done(t, result)
      /\ UNCHANGED <<pc, request, seen, fresh, response, searches, failures>>
  BY DEF ServeFromCache, Searching
<1> HIDE DEF result, q
<1>3. ResultFits(q, result)
  BY <1>2, SearchingFits, ServedFits DEF q, result
<1>4. /\ found \in RawResults /\ left \in Seq(Queries)
      /\ raw' = [raw EXCEPT ![t] = found] /\ todo' = [todo EXCEPT ![t] = left]
      /\ Range(left) \subseteq Range(request[t].queries)
      /\ RawFits(found, request[t]) /\ request[t] \in Requests
  BY <1>2, <1>3, SearchingFits, DoneMoves DEF q
<1>5. Cache!TypeOK' /\ Cache!Stored' = Cache!Ranked' /\ storage' = storage
  BY <1>1, <1>2, SearchingFits, FindMoves DEF q
<1> HIDE DEF found, left
<1>6. ThreadFits("search", request[t], left, seen[t], fresh[t], found, response[t])
  BY <1>4 DEF ThreadFits
<1>7. Moved(t, "search", request[t], left, seen[t], fresh[t], found, response[t])
  BY <1>1, <1>2, <1>4, ThreadTypes DEF Moved
<1>8. /\ seen[t] \in CacheItems \cup {None} /\ fresh[t] \in Results \cup {None}
      /\ response[t] \in Responses \cup {None}
      /\ searches' \in 0 .. workload.searches /\ failures' \in 0 .. workload.failures
  BY <1>1, <1>2, ThreadTypes
<1>9. CacheFits(storage')
  BY <1>1, <1>5
<1>10. FitsInv'
  BY <1>4, <1>5, <1>6, <1>7, <1>8, <1>9, ThreadMoves
<1> QED
  BY <1>5, <1>7, <1>10 DEF found, left, result, q

(* AskProcessor keeps the invariant.                                       *)
LEMMA AskProcessorFits ==
  ASSUME FitsInv, NEW t \in Threads, AskProcessor(t), UNCHANGED workload
  PROVE  /\ FitsInv' /\ storage' = storage
         /\ Moved(t, "store", request[t], todo[t], storage[Key(Query(t))], fresh'[t], raw[t],
                  response[t])
<1> DEFINE q == Query(t)
           item == storage[Key(q)]
           o == OptionsOf(t)
<1>1. TypeOK /\ Cache!TypeOK /\ Cache!Stored = Cache!Ranked /\ CacheFits(storage)
  BY DEF FitsInv, TypeOK
<1>2. /\ pc[t] = "search" /\ todo[t] # <<>> /\ HasQmarks(q) /\ Cache!Find(Key(q))
      /\ seen' = [seen EXCEPT ![t] = item] /\ pc' = [pc EXCEPT ![t] = "store"]
      /\ UNCHANGED <<request, todo, raw, response, searches>>
  BY DEF AskProcessor, Searching
<1>3. \E answer : /\ ResultFits(q, answer)
                  /\ fresh' = [fresh EXCEPT ![t] = answer]
                  /\ failures' \in 0 .. workload.failures
  <2>1. failures \in 0 .. workload.failures /\ workload.failures \in Nat
    BY <1>1, ThreadTypes, WorkloadType DEF TypeOK
  <2>2. q \in Queries /\ o \in Options /\ o \in AskedOptions
    BY <1>2, SearchingFits
  <2> HIDE DEF q, o
  <2>3. CASE fresh' = [fresh EXCEPT ![t] = QueryProcessor(o, q)] /\ UNCHANGED failures
    BY <1>2, <2>1, <2>2, <2>3, AnswerFits
  <2>4. CASE /\ failures < MaxReadFailures /\ failures' = failures + 1
             /\ \E w \in Range(q) \ {Qmark} : fresh' = [fresh EXCEPT ![t] = ReadFailed(w)]
    <3>1. PICK w \in Range(q) \ {Qmark} : fresh' = [fresh EXCEPT ![t] = ReadFailed(w)]
      BY <2>4
    <3>2. failures' \in 0 .. workload.failures
      BY <2>1, <2>4 DEF MaxReadFailures
    <3>3. ResultFits(q, ReadFailed(w))
      BY <1>2, <2>2, ReadFailedFits
    <3> QED
      BY <3>1, <3>2, <3>3
  <2>5. CASE /\ failures < MaxReadFailures /\ failures' = failures + 1
             /\ \E f \in {Freq[p] : p \in Phrases} :
                  fresh' = [fresh EXCEPT ![t] = QueryProcessor([o EXCEPT !.maxFreq = f], q)]
    <3>1. PICK p \in Phrases :
            fresh' = [fresh EXCEPT ![t] = QueryProcessor([o EXCEPT !.maxFreq = Freq[p]], q)]
      BY <2>5
    <3>2. [o EXCEPT !.maxFreq = Freq[p]] \in AskedOptions
      BY <2>2 DEF AskedOptions
    <3>3. failures' \in 0 .. workload.failures
      BY <2>1, <2>5 DEF MaxReadFailures
    <3>4. ResultFits(q, QueryProcessor([o EXCEPT !.maxFreq = Freq[p]], q))
      BY <1>2, <2>2, <3>2, AnswerFits
    <3> QED
      BY <3>1, <3>3, <3>4
  <2> QED
    BY <2>3, <2>4, <2>5 DEF AskProcessor, q, o
<1>4. PICK answer : /\ ResultFits(q, answer)
                    /\ fresh' = [fresh EXCEPT ![t] = answer]
                    /\ failures' \in 0 .. workload.failures
  BY <1>3
<1>5. /\ request[t] \in Requests /\ item \in CacheItems \cup {None}
      /\ Range(todo[t]) \subseteq Range(request[t].queries) /\ RawFits(raw[t], request[t])
      /\ item # None => ResultFits(q, item.result)
  BY <1>2, SearchingFits
<1>6. Cache!TypeOK' /\ Cache!Stored' = Cache!Ranked' /\ storage' = storage
  BY <1>1, <1>2, SearchingFits, FindMoves
<1>7. answer \in Results
  BY <1>4 DEF ResultFits
<1>8. q = Head(todo[t])
  BY DEF Query
<1> HIDE DEF q, item
<1>9. ThreadFits("store", request[t], todo[t], item, answer, raw[t], response[t])
  BY <1>2, <1>4, <1>5, <1>8 DEF ThreadFits
<1>10. Moved(t, "store", request[t], todo[t], item, answer, raw[t], response[t])
  BY <1>1, <1>2, <1>4, ThreadTypes DEF Moved
<1>11. /\ todo[t] \in Seq(Queries) /\ raw[t] \in RawResults
       /\ response[t] \in Responses \cup {None}
       /\ searches' \in 0 .. workload.searches
  BY <1>1, <1>2, ThreadTypes
<1>12. CacheFits(storage')
  BY <1>1, <1>6
<1>13. FitsInv'
  BY <1>4, <1>5, <1>6, <1>7, <1>9, <1>10, <1>11, <1>12, ThreadMoves
<1>14. fresh'[t] = answer
  BY <1>1, <1>4 DEF TypeOK
<1> QED
  BY <1>6, <1>10, <1>13, <1>14 DEF item, q

(* Store keeps the invariant.                                              *)
LEMMA StoreFits ==
  ASSUME FitsInv, NEW t \in Threads, Store(t), UNCHANGED workload
  PROVE  LET found == WithResult(raw[t], Query(t), fresh[t])
         IN /\ FitsInv' /\ CacheChange(Key(Query(t)), NewItem(t))
            /\ Moved(t, "search", request[t], Tail(todo[t]), None, None, found, response[t])
<1> DEFINE q == Query(t)
           item == NewItem(t)
           found == WithResult(raw[t], q, fresh[t])
           left == Tail(todo[t])
<1>1. TypeOK /\ Cache!TypeOK /\ Cache!Stored = Cache!Ranked /\ CacheFits(storage)
  BY DEF FitsInv, TypeOK
<1>2. /\ pc[t] = "store" /\ Done(t, fresh[t])
      /\ Cache!Update(Key(q), item) \/ Cache!Insert(Key(q), item)
      /\ seen' = [seen EXCEPT ![t] = None] /\ fresh' = [fresh EXCEPT ![t] = None]
      /\ pc' = [pc EXCEPT ![t] = "search"]
      /\ UNCHANGED <<request, response, searches, failures>>
  BY DEF Store
<1>3. /\ todo[t] # <<>> /\ HasQmarks(q) /\ ResultFits(q, fresh[t])
      /\ seen[t] # None => ResultFits(q, seen[t].result)
  BY <1>2 DEF FitsInv, ThreadFits, Query
<1>4. q \in Queries /\ q \in WildcardQueries /\ Key(q) \in QueryKeys /\ OptionsOf(t) \in Options
  BY <1>2, <1>3, SearchingFits
<1>5. item \in CacheItems /\ ResultFits(q, item.result)
  <2>1. PICK result : /\ item = [options |-> OptionsOf(t), result |-> result]
                      /\ ResultFits(q, result)
    <3>1. CASE Extends(t)
      BY <1>3, <1>4, <3>1, MergeFits DEF Extends, NewItem
    <3>2. CASE ~ Extends(t)
      BY <1>3, <3>2 DEF NewItem
    <3> QED
      BY <3>1, <3>2
  <2>2. result \in Results
    BY <2>1 DEF ResultFits
  <2> QED
    BY <1>4, <2>1, <2>2 DEF CacheItems
<1> HIDE DEF q, item
<1>6. CacheChange(Key(q), item)
  BY <1>1, <1>2, <1>4, <1>5, StoreMoves
<1>7. CacheFits(storage')
  BY <1>1, <1>4, <1>5, <1>6, CacheStaysFit
<1>8. Cache!TypeOK' /\ Cache!Stored' = Cache!Ranked'
  BY <1>6 DEF CacheChange
<1>9. /\ found \in RawResults /\ left \in Seq(Queries)
      /\ raw' = [raw EXCEPT ![t] = found] /\ todo' = [todo EXCEPT ![t] = left]
      /\ Range(left) \subseteq Range(request[t].queries)
      /\ RawFits(found, request[t]) /\ request[t] \in Requests
  BY <1>2, <1>3, SearchingFits, DoneMoves DEF q
<1> HIDE DEF found, left
<1>10. ThreadFits("search", request[t], left, None, None, found, response[t])
  BY <1>9 DEF ThreadFits
<1>11. Moved(t, "search", request[t], left, None, None, found, response[t])
  BY <1>1, <1>2, <1>9, ThreadTypes DEF Moved
<1>12. /\ response[t] \in Responses \cup {None}
       /\ searches' \in 0 .. workload.searches /\ failures' \in 0 .. workload.failures
  BY <1>1, <1>2, ThreadTypes
<1>13. FitsInv'
  BY <1>7, <1>8, <1>9, <1>10, <1>11, <1>12, ThreadMoves
<1> QED
  BY <1>6, <1>11, <1>13 DEF found, left, item, q

(* A raw result with the result of one more query without wildcards.       *)
WithPhrases(found, result) ==
  [refs |-> found.refs,
   phrases |-> found.phrases \cup result.phrases,
   unknown |-> found.unknown \cup result.unknown]

(* The phrase with the words of a query without wildcards matches it.      *)
LEMMA PlainMatches ==
  ASSUME NEW q \in Queries, ~ HasQmarks(q)
  PROVE  Key(q) = q /\ WithText(Key(q)) = Matches(q)
<1>1. q \in Seq(Words \cup {Qmark}) /\ \A i \in DOMAIN q : q[i] # Qmark
  BY QueryType DEF HasQmarks, Range
<1>2. Key(q) = q
  BY <1>1 DEF Key
<1>3. ASSUME NEW p \in Phrases PROVE p \in WithText(q) <=> p \in Matches(q)
  <2>1. Text[p] \in Seq(Words)
    BY PhrasesAssumption
  <2>2. CASE Text[p] = q
    BY <1>1, <2>2 DEF WithText, Matches
  <2>3. CASE p \in Matches(q)
    <3>1. Len(Text[p]) = Len(q) /\ \A i \in DOMAIN q : q[i] = Text[p][i]
      BY <1>1, <2>3 DEF Matches
    <3>2. Text[p] = q
      BY <1>1, <2>1, <3>1
    <3> QED
      BY <2>3, <3>2 DEF WithText
  <2> QED
    BY <2>2, <2>3 DEF WithText
<1>4. WithText(q) \subseteq Phrases /\ Matches(q) \subseteq Phrases
  BY DEF WithText, Matches
<1> QED
  BY <1>2, <1>3, <1>4

(* LookUpPhrase keeps the invariant.                                       *)
LEMMA LookUpPhraseFits ==
  ASSUME FitsInv, NEW t \in Threads, LookUpPhrase(t), UNCHANGED workload
  PROVE  /\ FitsInv' /\ storage' = storage
         /\ \E phrases \in {WithText(Key(Query(t))), {}} :
              LET result == PlainResult(OptionsOf(t), Query(t), phrases)
                  found == WithPhrases(raw[t], result)
              IN /\ failures' = failures => phrases = WithText(Key(Query(t)))
                 /\ Moved(t, "search", request[t], Tail(todo[t]), seen[t], fresh[t], found,
                          response[t])
<1> DEFINE q == Query(t)
           left == Tail(todo[t])
<1>1. TypeOK /\ Cache!TypeOK /\ Cache!Stored = Cache!Ranked /\ CacheFits(storage)
  BY DEF FitsInv, TypeOK
<1>2. /\ pc[t] = "search" /\ todo[t] # <<>> /\ ~ HasQmarks(q)
      /\ todo' = [todo EXCEPT ![t] = left]
      /\ UNCHANGED <<cacheVars, pc, request, seen, fresh, response, searches>>
  BY DEF LookUpPhrase, Searching
<1>3. PICK phrases \in {WithText(Key(q)), {}} :
        /\ \/ failures' = failures /\ phrases = WithText(Key(q))
           \/ failures < MaxReadFailures /\ failures' = failures + 1
        /\ raw' = [raw EXCEPT
             ![t].phrases = @ \cup PlainResult(OptionsOf(t), q, phrases).phrases,
             ![t].unknown = @ \cup PlainResult(OptionsOf(t), q, phrases).unknown]
  BY DEF LookUpPhrase
<1> DEFINE result == PlainResult(OptionsOf(t), q, phrases)
           found == WithPhrases(raw[t], result)
<1>4. /\ q \in Queries /\ q \in Range(request[t].queries) /\ left \in Seq(Queries)
      /\ Range(left) \subseteq Range(request[t].queries)
      /\ RawFits(raw[t], request[t]) /\ request[t] \in Requests
  BY <1>2, SearchingFits
<1>5. phrases \subseteq Matches(q) /\ Matches(q) \subseteq Phrases
  BY <1>2, <1>3, <1>4, PlainMatches DEF Matches
<1>6. Range(q) \subseteq Words /\ Range(q) = FitWords(q)
  BY <1>2, <1>4, QueryType DEF FitWords, HasQmarks
<1>7. result.phrases \subseteq Matches(q) /\ result.unknown \subseteq Range(q)
  BY <1>5 DEF PlainResult
<1>8. raw[t] \in RawResults /\ raw \in [Threads -> RawResults]
  BY <1>1 DEF TypeOK, RawResults
<1> HIDE DEF q, result, left
<1>9. found \in RawResults /\ RawFits(found, request[t])
  BY <1>4, <1>5, <1>6, <1>7, <1>8 DEF WithPhrases, RawResults, RawFits
<1>10. raw' = [raw EXCEPT ![t] = found]
  <2> DEFINE new == result.phrases
             words == result.unknown
             half == [raw EXCEPT ![t].phrases = @ \cup new]
             c == raw[t]
  <2>1. found = [refs |-> c.refs, phrases |-> c.phrases \cup new, unknown |-> c.unknown \cup words]
    BY DEF WithPhrases
  <2>2. raw' = [raw EXCEPT ![t].phrases = @ \cup new, ![t].unknown = @ \cup words]
    BY <1>3 DEF result
  <2> HIDE DEF new, words, found
  <2>3. half = [raw EXCEPT ![t] = [raw[t] EXCEPT !.phrases = @ \cup new]]
    BY <1>8 DEF RawResults
  <2>4. half[t] = [raw[t] EXCEPT !.phrases = @ \cup new] /\ DOMAIN half = Threads
    BY <1>8, <2>3 DEF RawResults
  <2>5. raw' = [half EXCEPT ![t].unknown = @ \cup words]
    BY <1>8, <2>2 DEF RawResults
  <2> HIDE DEF half
  <2>6. raw' = [half EXCEPT ![t] = [half[t] EXCEPT !.unknown = @ \cup words]]
    BY <2>4, <2>5
  <2>7. raw' = [raw EXCEPT ![t] = [half[t] EXCEPT !.unknown = @ \cup words]]
    BY <1>8, <2>3, <2>6 DEF RawResults
  <2>8. [half[t] EXCEPT !.unknown = @ \cup words]
          = [raw[t] EXCEPT !.phrases = raw[t].phrases \cup new,
                           !.unknown = raw[t].unknown \cup words]
    BY <1>8, <2>4 DEF RawResults
  <2>9. [raw[t] EXCEPT !.phrases = raw[t].phrases \cup new,
                       !.unknown = raw[t].unknown \cup words] = found
    BY <1>8, <2>1, PhrasesRecord
  <2> QED
    BY <2>7, <2>8, <2>9
<1>11. storage' = storage /\ Cache!TypeOK' /\ Cache!Stored' = Cache!Ranked' /\ CacheFits(storage')
  BY <1>1, <1>2 DEF cacheVars, Cache!TypeOK, Cache!Stored, Cache!Ranked
<1> HIDE DEF found
<1>12. ThreadFits("search", request[t], left, seen[t], fresh[t], found, response[t])
  BY <1>4, <1>9 DEF ThreadFits
<1>13. Moved(t, "search", request[t], left, seen[t], fresh[t], found, response[t])
  BY <1>1, <1>2, <1>10, ThreadTypes DEF Moved
<1>14. /\ seen[t] \in CacheItems \cup {None} /\ fresh[t] \in Results \cup {None}
       /\ response[t] \in Responses \cup {None} /\ searches' \in 0 .. workload.searches
       /\ failures \in 0 .. workload.failures /\ workload.failures \in Nat
  BY <1>1, <1>2, ThreadTypes, WorkloadType
<1>15. failures' \in 0 .. workload.failures
  BY <1>3, <1>14 DEF MaxReadFailures
<1>16. FitsInv'
  BY <1>4, <1>9, <1>11, <1>12, <1>13, <1>14, <1>15, ThreadMoves
<1>17. failures' = failures => phrases = WithText(Key(q))
  BY <1>3, <1>14
<1> QED
  BY <1>3, <1>11, <1>13, <1>16, <1>17 DEF found, left, result, q

(* LookUpThrows keeps the invariant.                                       *)
LEMMA LookUpThrowsFits ==
  ASSUME FitsInv, NEW t \in Threads, LookUpThrows(t), UNCHANGED workload
  PROVE  /\ FitsInv' /\ storage' = storage
         /\ Moved(t, "idle", request[t], todo[t], seen[t], fresh[t], raw[t], [error |-> "UNKNOWN"])
<1> DEFINE q == Query(t)
           reply == [error |-> "UNKNOWN"]
<1>1. TypeOK /\ Cache!TypeOK /\ Cache!Stored = Cache!Ranked /\ CacheFits(storage)
  BY DEF FitsInv, TypeOK
<1>2. /\ pc[t] = "search" /\ todo[t] # <<>>
      /\ failures < MaxReadFailures /\ failures' = failures + 1
      /\ \/ HasQmarks(q) /\ Cache!Find(Key(q))
         \/ UNCHANGED cacheVars
      /\ response' = [response EXCEPT ![t] = reply] /\ pc' = [pc EXCEPT ![t] = "idle"]
      /\ UNCHANGED <<request, todo, seen, fresh, raw, searches>>
  BY DEF LookUpThrows, Searching
<1>3. Cache!TypeOK' /\ Cache!Stored' = Cache!Ranked' /\ storage' = storage
  <2>1. CASE HasQmarks(q) /\ Cache!Find(Key(q))
    BY <1>1, <1>2, <2>1, SearchingFits, FindMoves
  <2>2. CASE UNCHANGED cacheVars
    BY <1>1, <2>2 DEF cacheVars, Cache!TypeOK, Cache!Stored, Cache!Ranked
  <2> QED
    BY <1>2, <2>1, <2>2
<1>4. reply \in Responses /\ "phrases" \notin DOMAIN reply
  BY DEF Responses
<1> HIDE DEF reply
<1>5. ThreadFits("idle", request[t], todo[t], seen[t], fresh[t], raw[t], reply)
  BY <1>4 DEF ThreadFits
<1>6. Moved(t, "idle", request[t], todo[t], seen[t], fresh[t], raw[t], reply)
  BY <1>1, <1>2, ThreadTypes DEF Moved
<1>7. /\ request[t] \in Requests \cup {None} /\ todo[t] \in Seq(Queries)
      /\ seen[t] \in CacheItems \cup {None} /\ fresh[t] \in Results \cup {None}
      /\ raw[t] \in RawResults /\ searches' \in 0 .. workload.searches
      /\ failures \in 0 .. workload.failures /\ workload.failures \in Nat
  BY <1>1, <1>2, ThreadTypes, WorkloadType
<1>8. failures' \in 0 .. workload.failures
  BY <1>2, <1>7 DEF MaxReadFailures
<1>9. CacheFits(storage')
  BY <1>1, <1>3
<1>10. FitsInv'
  BY <1>3, <1>4, <1>5, <1>6, <1>7, <1>8, <1>9, ThreadMoves
<1> QED
  BY <1>3, <1>6, <1>10 DEF reply

(* Raw references of what fits a request name phrases that fit it.         *)
LEMMA NamedFit ==
  ASSUME NEW r \in Requests, NEW found, RawFits(found, r),
         NEW p \in {PhraseOf(x) : x \in found.refs} \cup found.phrases
  PROVE  \E q \in Range(r.queries) : p \in Fitting(q)
<1>0. \A q \in Range(r.queries) : q \in Queries
  BY DEF Queries
<1>1. CASE p \in found.phrases
  BY <1>0, <1>1, FittingType DEF RawFits
<1>2. CASE p \in {PhraseOf(x) : x \in found.refs}
  <2>1. PICK x \in found.refs : p = PhraseOf(x)
    BY <1>2
  <2>2. PICK q \in Range(r.queries) : x \in {<<Len(q), RefOf(s)>> : s \in Fitting(q)}
    BY <2>1 DEF RawFits
  <2>3. PICK s \in Fitting(q) : x = <<Len(q), RefOf(s)>>
    BY <2>2
  <2>4. s \in Phrases /\ s[1] = Len(q)
    BY <1>0, FittingType
  <2>5. s = <<s[1], s[2]>> /\ RefOf(s).id = s[2]
    BY <2>4, RefsType
  <2>6. p = s
    BY <2>1, <2>3, <2>4, <2>5 DEF PhraseOf
  <2> QED
    BY <2>3, <2>6
<1> QED
  BY <1>1, <1>2

(* Respond keeps the invariant.                                            *)
LEMMA RespondFits ==
  ASSUME FitsInv, NEW t \in Threads, Respond(t), UNCHANGED workload
  PROVE  /\ FitsInv' /\ storage' = storage
         /\ Moved(t, "idle", request[t], todo[t], seen[t], fresh[t], raw[t], response'[t])
         /\ response'[t] \in Responses
<1> DEFINE r == request[t]
           phrases == MergeRaw(raw[t], r.maxPhrases)
<1>1. TypeOK /\ Cache!TypeOK /\ Cache!Stored = Cache!Ranked /\ CacheFits(storage)
  BY DEF FitsInv, TypeOK
<1>2. /\ pc[t] = "search" /\ pc' = [pc EXCEPT ![t] = "idle"]
      /\ UNCHANGED <<cacheVars, request, todo, seen, fresh, raw, searches>>
  BY DEF Respond
<1>3. r \in Requests /\ RawFits(raw[t], r) /\ r.maxPhrases \in Nat /\ raw[t] \in RawResults
  BY <1>1, <1>2, ThreadTypes, RequestType DEF FitsInv, ThreadFits
<1>4. storage' = storage /\ Cache!TypeOK' /\ Cache!Stored' = Cache!Ranked' /\ CacheFits(storage')
  BY <1>1, <1>2 DEF cacheVars, Cache!TypeOK, Cache!Stored, Cache!Ranked
<1>5. failures \in 0 .. workload.failures /\ workload.failures \in Nat
  BY <1>1, ThreadTypes, WorkloadType
<1>6. /\ phrases \in Seq(Phrases) /\ Len(phrases) <= r.maxPhrases
      /\ Range(phrases) \subseteq {PhraseOf(x) : x \in raw[t].refs} \cup raw[t].phrases
      /\ \A i, j \in DOMAIN phrases : i < j => PhraseLess(phrases[i], phrases[j])
  BY <1>3, MergeRawType
<1>7. PICK reply \in Responses :
        /\ response' = [response EXCEPT ![t] = reply] /\ failures' \in 0 .. workload.failures
        /\ "phrases" \in DOMAIN reply => reply.phrases = phrases
  <2>1. CASE /\ response' = [response EXCEPT ![t] =
                  [phrases |-> phrases, unknown |-> raw[t].unknown \ Vocabulary]]
             /\ UNCHANGED failures
    <3>1. [phrases |-> phrases, unknown |-> raw[t].unknown \ Vocabulary] \in Responses
      BY <1>3, <1>6 DEF Responses, RawResults
    <3> HIDE DEF phrases
    <3> QED
      BY <1>5, <2>1, <3>1
  <2>2. CASE /\ failures < MaxReadFailures /\ failures' = failures + 1
             /\ response' = [response EXCEPT ![t] = [error |-> "UNKNOWN"]]
    <3>1. [error |-> "UNKNOWN"] \in Responses /\ "phrases" \notin DOMAIN [error |-> "UNKNOWN"]
      BY DEF Responses
    <3>2. failures' \in 0 .. workload.failures
      BY <1>5, <2>2 DEF MaxReadFailures
    <3> QED
      BY <2>2, <3>1, <3>2
  <2> QED
    BY <2>1, <2>2 DEF Respond
<1> HIDE DEF phrases
<1>8. reply.phrases = phrases => ReplyFits(reply, r)
  BY <1>3, <1>6, NamedFit DEF ReplyFits
<1> HIDE DEF r
<1>9. ThreadFits("idle", r, todo[t], seen[t], fresh[t], raw[t], reply)
  BY <1>3, <1>7, <1>8 DEF ThreadFits
<1>10. Moved(t, "idle", r, todo[t], seen[t], fresh[t], raw[t], reply)
  BY <1>1, <1>2, <1>7, ThreadTypes DEF Moved, r
<1>11. /\ todo[t] \in Seq(Queries) /\ searches' \in 0 .. workload.searches
       /\ seen[t] \in CacheItems \cup {None} /\ fresh[t] \in Results \cup {None}
  BY <1>1, <1>2, ThreadTypes
<1>12. FitsInv'
  BY <1>3, <1>4, <1>7, <1>9, <1>10, <1>11, ThreadMoves
<1>13. response'[t] = reply
  BY <1>1, <1>7 DEF TypeOK
<1> QED
  BY <1>4, <1>7, <1>10, <1>12, <1>13 DEF r

(* The invariant holds at first.                                           *)
LEMMA InitFits == Init => FitsInv
<1> SUFFICES ASSUME Init PROVE FitsInv
  OBVIOUS
<1>1. workload.searches \in Nat /\ workload.failures \in Nat
  BY WorkloadType DEF Init
<1>2. Cache!TypeOK
  BY CacheAssumption DEF Init, Cache!TypeOK
<1>3. Cache!Stored = {} /\ Cache!Ranked = {}
  BY DEF Init, Cache!Stored, Cache!Ranked
<1>4. CacheFits(storage)
  BY QueryType DEF Init, CacheFits, WildcardQueries
<1>5. EmptyRaw \in RawResults
  BY DEF EmptyRaw, RawResults
<1>6. TypeOK
  BY <1>1, <1>2, <1>5 DEF Init, TypeOK, RawResults, MaxReadFailures
<1>7. \A t \in Threads :
        ThreadFits(pc[t], request[t], todo[t], seen[t], fresh[t], raw[t], response[t])
  BY DEF Init, ThreadFits
<1> QED
  BY <1>3, <1>4, <1>6, <1>7 DEF FitsInv

(* Every step keeps the invariant.                                         *)
LEMMA StepFits == FitsInv /\ [Next]_vars => FitsInv'
<1> SUFFICES ASSUME FitsInv, [Next]_vars PROVE FitsInv'
  OBVIOUS
<1>1. CASE UNCHANGED vars
  <2>1. UNCHANGED <<workload, storage, policy, capacity, accCount, hitCount, pc, request, todo,
                    seen, fresh, raw, response, searches, failures>>
    BY <1>1 DEF vars, cacheVars
  <2>2. Cache!TypeOK' /\ Cache!Stored' = Cache!Ranked'
    BY <2>1 DEF FitsInv, TypeOK, Cache!TypeOK, Cache!Stored, Cache!Ranked
  <2>3. TypeOK'
    BY <2>1, <2>2 DEF FitsInv, TypeOK, MaxReadFailures
  <2> QED
    BY <2>1, <2>2, <2>3 DEF FitsInv
<1>2. ASSUME NEW t \in Threads, Step(t) PROVE FitsInv'
  BY <1>2, ServeFromCacheFits, AskProcessorFits, StoreFits, LookUpPhraseFits, LookUpThrowsFits,
     RespondFits DEF Step
<1>3. ASSUME NEW t \in Threads, NEW r \in workload.requests, Start(t, r) PROVE FitsInv'
  BY <1>3, StartFits
<1> QED
  BY <1>1, <1>2, <1>3 DEF Next

(* Every state has what fits.                                              *)
LEMMA AlwaysFits == Spec => []FitsInv
BY InitFits, StepFits, PTL DEF Spec

(* The variables have the values that they should, whatever the threads do *)
(* to the cache and whatever reads fail.                                   *)
THEOREM TypesHold == Spec => []TypeOK
<1>1. FitsInv => TypeOK
  BY DEF FitsInv
<1> QED
  BY <1>1, AlwaysFits, PTL

(* Every response is sound if no two wildcard queries share a cache key.   *)
THEOREM AnswersAreSound ==
  ASSUME KeysDiffer
  PROVE  Spec => []RepliesSound
<1>1. ASSUME NEW q \in Queries, NEW p \in Fitting(q) PROVE p \in Matches(q)
  BY <1>1, KeysDiffer DEF KeysDiffer, Fitting, SameKey, WildcardQueries
<1>2. FitsInv => RepliesSound
  <2> SUFFICES ASSUME FitsInv, NEW t \in Threads, Answered(t)
               PROVE  LET phrases == response[t].phrases
                      IN /\ \A p \in Range(phrases) :
                              \E q \in Range(request[t].queries) : p \in Matches(q)
                         /\ \A i, j \in DOMAIN phrases : i < j => PhraseLess(phrases[i], phrases[j])
                         /\ Len(phrases) <= request[t].maxPhrases
    BY DEF RepliesSound
  <2>1. request[t] \in Requests /\ ReplyFits(response[t], request[t])
    BY DEF FitsInv, ThreadFits, Answered
  <2>2. \A q \in Range(request[t].queries) : q \in Queries
    BY <2>1 DEF Queries
  <2> QED
    BY <1>1, <2>1, <2>2 DEF ReplyFits
<1> QED
  BY <1>2, AlwaysFits, PTL

-----------------------------------------------------------------------------
(* What lists the cache has, where every answer is a part of one list and  *)
(* no read failed.                                                         *)

(* The list of all answers to a query, and its positions that options ask  *)
(* for.                                                                    *)
List(q) == QueryProcessor(Unlimited, q).refs
Selected(s, o) == {i \in DOMAIN s : s[i].freq <= o.maxFreq}
Wanted(s, o) == FirstOf(Selected(s, o), Less, o.count)

Distinct(s) == \A i, j \in DOMAIN s : i < j => s[i] # s[j]

(* The list of a query has references, each once, by their frequencies.    *)
LEMMA ListType ==
  ASSUME AnswersFromOneList, NEW q \in WildcardQueries
  PROVE  /\ List(q) \in Seq(Refs) /\ List(q) \in RefLists
         /\ Range(List(q)) \subseteq {RefOf(p) : p \in Matches(q)}
         /\ Sorted(List(q)) /\ Distinct(List(q))
<1>1. Unlimited \in AskedOptions
  BY DEF AskedOptions
<1>2. /\ QueryProcessor(Unlimited, q) \in Results
      /\ Range(QueryProcessor(Unlimited, q).refs) \subseteq {RefOf(p) : p \in Matches(q)}
  BY <1>1, ProcessAssumption
<1>3. List(q) \in Seq(Refs)
  BY <1>2 DEF Results, List
<1>4. List(q) \in RefLists
  <2> DEFINE R == [id : Nat, freq : Nat]
  <2>1. Refs \subseteq R
    BY RefsType
  <2> HIDE DEF R
  <2>2. List(q) \in Seq(R)
    BY <1>3, <2>1
  <2> QED
    BY <2>2 DEF R, RefLists
<1>5. Sorted(List(q)) /\ Distinct(List(q))
  BY DEF AnswersFromOneList, Sorted, Distinct, List
<1> QED
  BY <1>2, <1>3, <1>4, <1>5 DEF List

(* All of a list is the list.                                              *)
LEMMA WholePart ==
  ASSUME NEW S, NEW s \in Seq(S)
  PROVE  ElementsAt(s, DOMAIN s) = s
<1> DEFINE D == DOMAIN s
           n == [i \in D |-> i]
<1>1. D = 1 .. Len(s) /\ Len(s) \in Nat /\ D \in SUBSET (DOMAIN s)
  OBVIOUS
<1>2. D \in SUBSET Nat /\ IsFiniteSet(D) /\ StrictlyOrders(Less, D)
  BY <1>1, PositionsFinite
<1>3. n \in Seq(D) /\ DOMAIN n = D /\ \A i \in D : n[i] = i
  BY <1>1
<1> HIDE DEF n
<1>4. \A i, j \in D : i < j => <<n[i], n[j]>> \in Less
  BY <1>2, <1>3 DEF Less
<1>5. n = Ascending(D)
  <2> HIDE DEF D
  <2> QED
    BY <1>2, <1>3, <1>4, OrderedUnique DEF Ascending
<1>6. ElementsAt(s, D) = [i \in DOMAIN Ascending(D) |-> s[Ascending(D)[i]]]
  <2>1. D \in SUBSET (DOMAIN s)
    OBVIOUS
  <2> HIDE DEF D
  <2> QED
    BY <2>1, ElementsAtPositions
<1> QED
  BY <1>1, <1>3, <1>5, <1>6

(* Pruning a part of a list to options leaves the first of the positions   *)
(* that they select.                                                       *)
LEMMA PrunedPart ==
  ASSUME NEW s \in RefLists, NEW I \in SUBSET (DOMAIN s),
         NEW result, result.refs = ElementsAt(s, I),
         NEW o, o.count \in Nat, o.maxFreq \in Nat
  PROVE  Prune(result, o).refs = ElementsAt(s, FirstOf(I \cap Selected(s, o), Less, o.count))
<1> DEFINE R == [id : Nat, freq : Nat]
           e == ElementsAt(s, I)
           p == Ascending(I)
           J == {n \in DOMAIN e : e[n].freq <= o.maxFreq}
           K == I \cap Selected(s, o)
<1>1. s \in Seq(R)
  BY DEF RefLists
<1> HIDE DEF R
<1>2. /\ p \in Seq(I) /\ DOMAIN e = DOMAIN p
      /\ \A i \in I : \E n \in DOMAIN p : p[n] = i
      /\ e = [n \in DOMAIN p |-> s[p[n]]]
  BY <1>1, ElementsAtPositions
<1>3. J \in SUBSET (DOMAIN e) /\ K \in SUBSET (DOMAIN s)
  OBVIOUS
<1>4. {p[j] : j \in J} = K
  <2>1. \A j \in DOMAIN p : p[j] \in I /\ e[j] = s[p[j]]
    BY <1>2
  <2>2. \A j \in J : p[j] \in K
    BY <1>2, <2>1 DEF Selected
  <2>3. ASSUME NEW i \in K PROVE \E j \in J : p[j] = i
    <3>1. PICK j \in DOMAIN p : p[j] = i
      BY <1>2
    <3>2. j \in J
      BY <1>2, <2>1, <3>1 DEF Selected
    <3> QED
      BY <3>1, <3>2
  <2> QED
    BY <2>2, <2>3
<1>5. ElementsAt(e, J) = ElementsAt(s, K)
  BY <1>1, <1>3, <1>4, ElementsAtElementsAt
<1>6. Prune(result, o).refs = FirstN(ElementsAt(e, J), o.count)
  BY DEF Prune
<1> HIDE DEF e, J, K
<1>7. FirstN(ElementsAt(s, K), o.count) = ElementsAt(s, FirstOf(K, Less, o.count))
  BY <1>1, <1>3, FirstElementsAt
<1> QED
  BY <1>5, <1>6, <1>7 DEF K

(* The positions that options ask for.                                     *)
LEMMA WantedType ==
  ASSUME NEW s \in RefLists, NEW o, o.count \in Nat, o.maxFreq \in Nat
  PROVE  /\ Selected(s, o) \in SUBSET (DOMAIN s) /\ Selected(s, o) \in SUBSET Nat
         /\ IsFiniteSet(Selected(s, o)) /\ StrictlyOrders(Less, Selected(s, o))
         /\ Wanted(s, o) \in SUBSET Selected(s, o) /\ Wanted(s, o) \in SUBSET (DOMAIN s)
         /\ GroupClosed(s, Wanted(s, o))
<1> DEFINE R == [id : Nat, freq : Nat]
           X == Selected(s, o)
<1>1. s \in Seq(R)
  BY DEF RefLists
<1> HIDE DEF R
<1>2. X \in SUBSET (DOMAIN s)
  BY DEF Selected
<1>3. X \in SUBSET Nat /\ IsFiniteSet(X) /\ StrictlyOrders(Less, X)
  BY <1>1, <1>2, PositionsFinite
<1>4. Wanted(s, o) \in SUBSET X
  BY DEF Wanted, FirstOf
<1>5. GroupClosed(s, Wanted(s, o))
  <2> SUFFICES ASSUME NEW i \in Wanted(s, o), NEW j \in DOMAIN s, j < i, s[j].freq = s[i].freq
               PROVE  j \in Wanted(s, o)
    BY DEF GroupClosed
  <2>1. j \in X
    BY <1>4 DEF Selected
  <2>2. <<j, i>> \in Less
    BY <1>3, <1>4, <2>1 DEF Less
  <2> QED
    BY <1>3, <2>1, <2>2, FirstOfDown DEF Wanted
<1> QED
  BY <1>2, <1>3, <1>4, <1>5

(* Pruning a part to options that it has all of leaves what they ask for.  *)
LEMMA PrunedToWanted ==
  ASSUME NEW s \in RefLists, NEW I \in SUBSET (DOMAIN s),
         NEW result, result.refs = ElementsAt(s, I),
         NEW o, o.count \in Nat, o.maxFreq \in Nat, Wanted(s, o) \subseteq I
  PROVE  Prune(result, o).refs = ElementsAt(s, Wanted(s, o))
<1> DEFINE X == Selected(s, o)
           Y == I \cap X
<1>1. IsFiniteSet(X) /\ StrictlyOrders(Less, X) /\ Wanted(s, o) \subseteq X
  BY WantedType
<1>2. Y \in SUBSET X /\ FirstOf(X, Less, o.count) \subseteq Y
  BY <1>1 DEF Wanted
<1>3. FirstOf(Y, Less, o.count) = Wanted(s, o)
  <2> HIDE DEF X, Y
  <2> QED
    BY <1>1, <1>2, FirstOfPart DEF Wanted, X
<1> QED
  BY <1>3, PrunedPart

(* An answer to a query is the part of its list that the options ask for.  *)
LEMMA AnswerIsWanted ==
  ASSUME AnswersFromOneList, NEW q \in WildcardQueries, NEW o \in Options,
         o.count \in Nat, o.maxFreq \in Nat
  PROVE  QueryProcessor(o, q).refs = ElementsAt(List(q), Wanted(List(q), o))
<1> DEFINE s == List(q)
<1>1. s \in RefLists /\ s \in Seq(Refs)
  BY ListType
<1>2. s = ElementsAt(s, DOMAIN s)
  BY <1>1, WholePart
<1>3. Wanted(s, o) \subseteq DOMAIN s
  BY <1>1, WantedType
<1>4. QueryProcessor(Unlimited, q).refs = ElementsAt(s, DOMAIN s)
  BY <1>2 DEF List
<1>5. QueryProcessor(o, q).refs = Prune(QueryProcessor(Unlimited, q), o).refs
  BY DEF AnswersFromOneList
<1> HIDE DEF s
<1> QED
  BY <1>1, <1>3, <1>4, <1>5, PrunedToWanted DEF s

(* The requests of a workload have one frequency limit.                    *)
OneLimit(w) == \A r, s \in w.requests : r.freqMax = s.freqMax

(* A cached list is a part of the list of its query that has what its      *)
(* options ask for; with one limit for all it has nothing above that limit.*)
IsPartFor(w, q, item, I) ==
  /\ item.result.refs = ElementsAt(List(q), I)
  /\ GroupClosed(List(q), I)
  /\ Wanted(List(q), item.options) \subseteq I
  /\ OneLimit(w) => I \subseteq Selected(List(q), item.options)

Faithful(w, q, item) ==
  /\ item.options \in {ToOptions(r) : r \in w.requests}
  /\ \E I \in SUBSET (DOMAIN List(q)) : IsPartFor(w, q, item, I)

CacheIsFaithful(w, stored) ==
  \A q \in WildcardQueries : stored[Key(q)] # None => Faithful(w, q, stored[Key(q)])

(* What a thread is about to store is what its request asks for, and what  *)
(* it has seen in the cache was faithful.                                  *)
ThreadFaithful(w, at, r, left, item, answer) ==
  at = "store" =>
    /\ item # None => Faithful(w, Head(left), item)
    /\ answer.refs = QueryProcessor(ToOptions(r), Head(left)).refs

RequestsSent == \A t \in Threads : request[t] \in workload.requests \cup {None}

AllFaithful ==
  /\ CacheIsFaithful(workload, storage)
  /\ \A t \in Threads :
       ThreadFaithful(workload, pc[t], request[t], todo[t], seen[t], fresh[t])

FaithInv == RequestsSent /\ (failures = 0 => AllFaithful)

(* The members of the union of two parts of a list, one of which is wanted.*)
LEMMA MergedIsPart ==
  ASSUME AnswersFromOneList, NEW w \in Workloads, NEW q \in WildcardQueries,
         NEW r \in w.requests, NEW item, item.options \in {ToOptions(s) : s \in w.requests},
         NEW I \in SUBSET (DOMAIN List(q)), IsPartFor(w, q, item, I)
  PROVE  LET o == ToOptions(r)
             J == Wanted(List(q), o) \cup I
         IN /\ J \in SUBSET (DOMAIN List(q))
            /\ \A result : result.refs = SetUnion(ElementsAt(List(q), Wanted(List(q), o)),
                                                  item.result.refs)
                 => IsPartFor(w, q, [options |-> o, result |-> result], J)
<1> DEFINE s == List(q)
           o == ToOptions(r)
           W == Wanted(s, o)
           J == W \cup I
<1>1. s \in RefLists /\ Sorted(s)
  BY ListType
<1>2. r \in Requests /\ o.count \in Nat /\ o.maxFreq \in Nat
  BY WorkloadType, OptionsType
<1>3. W \in SUBSET Selected(s, o) /\ W \in SUBSET (DOMAIN s) /\ GroupClosed(s, W)
  BY <1>1, <1>2, WantedType
<1>4. GroupClosed(s, I) /\ item.result.refs = ElementsAt(s, I)
  BY DEF IsPartFor
<1>5. GroupClosed(s, J)
  BY <1>3, <1>4 DEF GroupClosed
<1>6. OneLimit(w) => I \subseteq Selected(s, o)
  <2> SUFFICES ASSUME OneLimit(w) PROVE I \subseteq Selected(s, o)
    OBVIOUS
  <2>1. PICK x \in w.requests : item.options = ToOptions(x)
    OBVIOUS
  <2>2. item.options.maxFreq = o.maxFreq
    BY <2>1 DEF OneLimit, ToOptions
  <2> QED
    BY <2>2 DEF IsPartFor, Selected
<1> HIDE DEF s, o, W
<1>7. SetUnion(ElementsAt(s, W), ElementsAt(s, I)) = ElementsAt(s, J)
  BY <1>1, <1>3, <1>4, UnionOfParts DEF s
<1>8. ASSUME NEW result, result.refs = SetUnion(ElementsAt(s, W), item.result.refs)
      PROVE  IsPartFor(w, q, [options |-> o, result |-> result], J)
  BY <1>3, <1>4, <1>5, <1>6, <1>7, <1>8 DEF IsPartFor, s, W
<1>9. J \in SUBSET (DOMAIN s)
  BY <1>3 DEF s
<1> QED
  BY <1>8, <1>9 DEF s, o, W

(* What a request asks for is a part of the list.                          *)
LEMMA AnswerIsPart ==
  ASSUME AnswersFromOneList, NEW w \in Workloads, NEW q \in WildcardQueries,
         NEW r \in w.requests, NEW result,
         result.refs = QueryProcessor(ToOptions(r), q).refs
  PROVE  Faithful(w, q, [options |-> ToOptions(r), result |-> result])
<1> DEFINE s == List(q)
           o == ToOptions(r)
           W == Wanted(s, o)
<1>1. s \in RefLists
  BY ListType
<1>2. r \in Requests /\ o \in Options /\ o.count \in Nat /\ o.maxFreq \in Nat
  BY WorkloadType, OptionsType
<1>3. W \in SUBSET Selected(s, o) /\ W \in SUBSET (DOMAIN s) /\ GroupClosed(s, W)
  BY <1>1, <1>2, WantedType
<1>4. result.refs = ElementsAt(s, W)
  BY <1>2, AnswerIsWanted
<1> DEFINE item == [options |-> o, result |-> result]
<1>5. item.options = o /\ item.result = result /\ o \in {ToOptions(x) : x \in w.requests}
  OBVIOUS
<1> HIDE DEF o, item
<1>6. IsPartFor(w, q, item, W)
  BY <1>3, <1>4, <1>5 DEF IsPartFor
<1> HIDE DEF W
<1>7. Faithful(w, q, item)
  BY <1>3, <1>5, <1>6 DEF Faithful
<1> QED
  BY <1>7 DEF item, o

(* What a thread stores is faithful.                                       *)
LEMMA StoredIsFaithful ==
  ASSUME AnswersFromOneList, NEW w \in Workloads, NEW q \in WildcardQueries,
         NEW r \in w.requests, NEW answer, answer.refs = QueryProcessor(ToOptions(r), q).refs,
         NEW item, Faithful(w, q, item)
  PROVE  Faithful(w, q, [options |-> ToOptions(r), result |-> Merge(answer, item.result)])
<1> DEFINE s == List(q)
           o == ToOptions(r)
           W == Wanted(s, o)
           merged == Merge(answer, item.result)
           new == [options |-> o, result |-> merged]
<1>1. PICK I \in SUBSET (DOMAIN s) : IsPartFor(w, q, item, I)
  BY DEF Faithful
<1>2. r \in Requests /\ o \in Options /\ o.count \in Nat /\ o.maxFreq \in Nat
  BY WorkloadType, OptionsType
<1>3. answer.refs = ElementsAt(s, W)
  BY <1>2, AnswerIsWanted
<1>4. merged.refs = SetUnion(ElementsAt(s, W), item.result.refs)
  BY <1>3 DEF Merge
<1>5. item.options \in {ToOptions(x) : x \in w.requests}
  BY DEF Faithful
<1> HIDE DEF merged
<1>6. W \cup I \in SUBSET (DOMAIN s) /\ IsPartFor(w, q, new, W \cup I)
  BY <1>1, <1>4, <1>5, MergedIsPart
<1>7. new.options = o /\ o \in {ToOptions(x) : x \in w.requests}
  OBVIOUS
<1> HIDE DEF o, new, W
<1>8. Faithful(w, q, new)
  BY <1>6, <1>7 DEF Faithful
<1> QED
  BY <1>8 DEF new, o, merged

(* A step of one thread keeps the invariant if what it has is faithful.    *)
LEMMA FaithMoves ==
  ASSUME TypeOK, AllFaithful, NEW t \in Threads, UNCHANGED workload,
         CacheIsFaithful(workload, storage'),
         NEW at, NEW r, NEW left, NEW item, NEW answer, NEW found, NEW reply,
         Moved(t, at, r, left, item, answer, found, reply),
         ThreadFaithful(workload, at, r, left, item, answer)
  PROVE  AllFaithful'
<1> SUFFICES ASSUME NEW u \in Threads
             PROVE  ThreadFaithful(workload, pc'[u], request'[u], todo'[u], seen'[u], fresh'[u])
  BY DEF AllFaithful
<1>1. CASE u = t
  <2>1. /\ pc'[u] = at /\ request'[u] = r /\ todo'[u] = left /\ seen'[u] = item
        /\ fresh'[u] = answer
    BY <1>1 DEF Moved, TypeOK
  <2> QED
    BY <2>1
<1>2. CASE u # t
  <2>1. /\ pc'[u] = pc[u] /\ request'[u] = request[u] /\ todo'[u] = todo[u]
        /\ seen'[u] = seen[u] /\ fresh'[u] = fresh[u]
    BY <1>2 DEF Moved, TypeOK
  <2> QED
    BY <2>1 DEF AllFaithful
<1> QED
  BY <1>1, <1>2

(* The requests are ones that are sent.                                    *)
LEMMA StepSends ==
  ASSUME TypeOK, RequestsSent, Next
  PROVE  RequestsSent' /\ UNCHANGED workload
<1>1. CASE \E t \in Threads : Step(t)
  <2>1. UNCHANGED <<request, workload>>
    BY <1>1 DEF Step, ServeFromCache, AskProcessor, Store, LookUpPhrase, LookUpThrows, Respond
  <2> QED
    BY <2>1 DEF RequestsSent
<1>2. CASE \E t \in Threads, r \in workload.requests : Start(t, r)
  <2>1. PICK t \in Threads, r \in workload.requests : Start(t, r)
    BY <1>2
  <2>2. request' = [request EXCEPT ![t] = r] /\ UNCHANGED workload
    BY <2>1 DEF Start
  <2> QED
    BY <2>2 DEF RequestsSent, TypeOK
<1> QED
  BY <1>1, <1>2 DEF Next

(* No read has failed before if none has after a step.                     *)
LEMMA FailuresGrow ==
  ASSUME TypeOK, Next, failures' = 0
  PROVE  failures = 0
<1>1. failures \in Nat
  <2>1. workload.failures \in Nat /\ failures \in 0 .. workload.failures
    BY WorkloadType DEF TypeOK, MaxReadFailures
  <2> QED
    BY <2>1
<1>2. failures' = failures \/ failures' = failures + 1
  BY DEF Next, Step, Start, ServeFromCache, AskProcessor, Store, LookUpPhrase, LookUpThrows, Respond
<1> QED
  BY <1>1, <1>2

(* What the cache has for other keys stays, and no two queries have one.   *)
LEMMA StoredStaysFaithful ==
  ASSUME KeysDiffer, NEW w, CacheIsFaithful(w, storage),
         NEW q \in WildcardQueries, NEW v \in CacheItems, Faithful(w, q, v), CacheChange(Key(q), v)
  PROVE  CacheIsFaithful(w, storage')
<1> SUFFICES ASSUME NEW s \in WildcardQueries, storage'[Key(s)] # None
             PROVE  Faithful(w, s, storage'[Key(s)])
  BY DEF CacheIsFaithful
<1>1. Key(s) \in QueryKeys
  BY QueryType DEF WildcardQueries
<1>2. \/ storage'[Key(s)] = storage[Key(s)]
      \/ Key(s) = Key(q) /\ storage'[Key(s)] = v
  BY <1>1 DEF CacheChange
<1>3. Key(s) = Key(q) => s = q
  BY DEF KeysDiffer
<1> QED
  BY <1>2, <1>3 DEF CacheIsFaithful

(* Store keeps the cache faithful.                                         *)
LEMMA StoreFaithful ==
  ASSUME AnswersFromOneList, KeysDiffer, FitsInv, RequestsSent, AllFaithful,
         NEW t \in Threads, Store(t), UNCHANGED workload
  PROVE  AllFaithful'
<1> DEFINE q == Query(t)
           v == NewItem(t)
           r == request[t]
<1>1. TypeOK /\ pc[t] = "store" /\ workload \in Workloads
  BY DEF FitsInv, Store, TypeOK
<1>2. /\ todo[t] # <<>> /\ HasQmarks(q) /\ r \in Requests /\ r # None
  BY <1>1, RequestType DEF FitsInv, ThreadFits, Query
<1>3. q \in WildcardQueries /\ r \in workload.requests
  BY <1>1, <1>2, SearchingFits DEF RequestsSent
<1>4. /\ seen[t] # None => Faithful(workload, q, seen[t])
      /\ fresh[t].refs = QueryProcessor(ToOptions(r), q).refs
  BY <1>1 DEF AllFaithful, ThreadFaithful, Query
<1>5. Faithful(workload, q, v)
  <2>1. CASE Extends(t)
    <3>1. v = [options |-> ToOptions(r), result |-> Merge(fresh[t], seen[t].result)]
      BY <2>1 DEF NewItem, OptionsOf
    <3>2. seen[t] # None
      BY <2>1 DEF Extends
    <3> QED
      BY <1>1, <1>3, <1>4, <3>1, <3>2, StoredIsFaithful
  <2>2. CASE ~ Extends(t)
    <3>1. v = [options |-> ToOptions(r), result |-> fresh[t]]
      BY <2>2 DEF NewItem, OptionsOf
    <3> QED
      BY <1>1, <1>3, <1>4, <3>1, AnswerIsPart
  <2> QED
    BY <2>1, <2>2
<1>6. v \in CacheItems
  <2>1. OptionsOf(t) \in Options /\ fresh[t] \in Results
    BY <1>1, <1>2, SearchingFits DEF FitsInv, ThreadFits, ResultFits
  <2>2. seen[t] # None => seen[t].result \in Results
    BY <1>1 DEF FitsInv, ThreadFits, ResultFits
  <2>3. Extends(t) => Merge(fresh[t], seen[t].result) \in Results
    <3>1. ASSUME Extends(t) PROVE Merge(fresh[t], seen[t].result) \in Results
      <4>1. /\ ResultFits(q, fresh[t]) /\ ResultFits(q, seen[t].result) /\ q \in Queries
        BY <1>1, <1>2, <1>3, <3>1 DEF FitsInv, ThreadFits, Query, Extends, WildcardQueries
      <4>2. ResultFits(q, Merge(fresh[t], seen[t].result))
        BY <4>1, MergeFits
      <4> QED
        BY <4>2 DEF ResultFits
    <3> QED
      BY <3>1
  <2> QED
    BY <2>1, <2>3 DEF NewItem, CacheItems
<1>7. CacheChange(Key(q), v)
  BY StoreFits
<1>8. CacheIsFaithful(workload, storage')
  BY <1>3, <1>5, <1>6, <1>7, StoredStaysFaithful DEF AllFaithful
<1>9. Moved(t, "search", r, Tail(todo[t]), None, None, WithResult(raw[t], q, fresh[t]), response[t])
  BY StoreFits
<1>10. ThreadFaithful(workload, "search", r, Tail(todo[t]), None, None)
  BY DEF ThreadFaithful
<1> QED
  BY <1>1, <1>8, <1>9, <1>10, FaithMoves

(* AskProcessor keeps what a thread has faithful.                          *)
LEMMA AskProcessorFaithful ==
  ASSUME FitsInv, AllFaithful, failures' = 0, failures = 0,
         NEW t \in Threads, AskProcessor(t), UNCHANGED workload
  PROVE  AllFaithful'
<1> DEFINE q == Query(t)
<1>1. TypeOK /\ pc[t] = "search" /\ todo[t] # <<>> /\ HasQmarks(q)
  BY DEF FitsInv, AskProcessor, Searching
<1>2. fresh' = [fresh EXCEPT ![t] = QueryProcessor(OptionsOf(t), q)]
  BY DEF AskProcessor
<1>3. fresh'[t] = QueryProcessor(ToOptions(request[t]), Head(todo[t]))
  BY <1>1, <1>2 DEF TypeOK, OptionsOf, Query
<1>4. storage' = storage
  BY AskProcessorFits
<1>5. Moved(t, "store", request[t], todo[t], storage[Key(q)], fresh'[t], raw[t], response[t])
  BY AskProcessorFits
<1>6. q \in WildcardQueries
  BY <1>1, SearchingFits
<1>7. ThreadFaithful(workload, "store", request[t], todo[t], storage[Key(q)], fresh'[t])
  BY <1>3, <1>6 DEF AllFaithful, CacheIsFaithful, ThreadFaithful, Query
<1> QED
  BY <1>1, <1>4, <1>5, <1>7, FaithMoves DEF AllFaithful

(* A step that leaves the cache and stores nothing keeps what is faithful. *)
LEMMA OthersFaithful ==
  ASSUME FitsInv, AllFaithful, NEW t \in Threads, UNCHANGED workload, storage' = storage,
         NEW at \in {"idle", "search"}, NEW r, NEW left, NEW item, NEW answer, NEW found, NEW reply,
         Moved(t, at, r, left, item, answer, found, reply)
  PROVE  AllFaithful'
<1>1. ThreadFaithful(workload, at, r, left, item, answer)
  BY DEF ThreadFaithful
<1>2. TypeOK /\ CacheIsFaithful(workload, storage')
  BY DEF FitsInv, AllFaithful
<1> QED
  BY <1>1, <1>2, FaithMoves

(* Every step keeps what is faithful as long as no read fails.             *)
LEMMA StepFaithful ==
  ASSUME AnswersFromOneList, KeysDiffer
  PROVE  FitsInv /\ FaithInv /\ [Next]_vars => FaithInv'
<1> SUFFICES ASSUME FitsInv, FaithInv, [Next]_vars PROVE FaithInv'
  OBVIOUS
<1>0. TypeOK
  BY DEF FitsInv
<1>1. CASE UNCHANGED vars
  BY <1>1 DEF vars, cacheVars, FaithInv, RequestsSent, AllFaithful
<1>2. CASE Next
  <2>1. RequestsSent' /\ UNCHANGED workload
    BY <1>0, <1>2, StepSends DEF FaithInv
  <2>2. SUFFICES ASSUME failures' = 0 PROVE AllFaithful'
    BY <2>1 DEF FaithInv
  <2>3. failures = 0 /\ AllFaithful /\ RequestsSent
    BY <1>0, <1>2, <2>2, FailuresGrow DEF FaithInv
  <2>4. ASSUME NEW t \in Threads, NEW r \in workload.requests, Start(t, r) PROVE AllFaithful'
    BY <2>1, <2>3, <2>4, StartFits, OthersFaithful
  <2>5. ASSUME NEW t \in Threads, ServeFromCache(t) PROVE AllFaithful'
    BY <2>1, <2>3, <2>5, ServeFromCacheFits, OthersFaithful
  <2>6. ASSUME NEW t \in Threads, AskProcessor(t) PROVE AllFaithful'
    BY <2>1, <2>2, <2>3, <2>6, AskProcessorFaithful
  <2>7. ASSUME NEW t \in Threads, Store(t) PROVE AllFaithful'
    BY <2>1, <2>3, <2>7, StoreFaithful
  <2>8. ASSUME NEW t \in Threads, LookUpPhrase(t) PROVE AllFaithful'
    BY <2>1, <2>3, <2>8, LookUpPhraseFits, OthersFaithful
  <2>9. ASSUME NEW t \in Threads, LookUpThrows(t) PROVE AllFaithful'
    BY <2>1, <2>3, <2>9, LookUpThrowsFits, OthersFaithful
  <2>10. ASSUME NEW t \in Threads, Respond(t) PROVE AllFaithful'
    BY <2>1, <2>3, <2>10, RespondFits, OthersFaithful
  <2> QED
    BY <1>2, <2>4, <2>5, <2>6, <2>7, <2>8, <2>9, <2>10 DEF Next, Step
<1> QED
  BY <1>1, <1>2

(* Nothing is cached and nothing is sent at first.                         *)
LEMMA InitFaithful == Init => FaithInv
<1> SUFFICES ASSUME Init PROVE FaithInv
  OBVIOUS
<1>1. \A q \in WildcardQueries : storage[Key(q)] = None
  BY QueryType DEF Init, WildcardQueries
<1> QED
  BY <1>1 DEF Init, FaithInv, RequestsSent, AllFaithful, CacheIsFaithful, ThreadFaithful

(* Every state has what is faithful.                                       *)
LEMMA AlwaysFaithful ==
  ASSUME AnswersFromOneList, KeysDiffer
  PROVE  Spec => [](FitsInv /\ FaithInv)
<1>1. Init => FitsInv /\ FaithInv
  BY InitFits, InitFaithful
<1>2. FitsInv /\ FaithInv /\ [Next]_vars => (FitsInv /\ FaithInv)'
  BY StepFits, StepFaithful
<1> QED
  BY <1>1, <1>2, PTL DEF Spec

(* A part of a sorted list of different elements is one, too.              *)
LEMMA PartSorted ==
  ASSUME NEW s \in RefLists, Sorted(s), Distinct(s), NEW I \in SUBSET (DOMAIN s)
  PROVE  Sorted(ElementsAt(s, I)) /\ Distinct(ElementsAt(s, I))
<1> DEFINE R == [id : Nat, freq : Nat]
           p == Ascending(I)
           e == ElementsAt(s, I)
<1>1. s \in Seq(R)
  BY DEF RefLists
<1> HIDE DEF R
<1>2. /\ p \in Seq(I) /\ DOMAIN e = DOMAIN p /\ \A i, j \in DOMAIN p : i < j => p[i] < p[j]
      /\ e = [n \in DOMAIN p |-> s[p[n]]]
  BY <1>1, ElementsAtPositions
<1>3. \A i \in DOMAIN p : p[i] \in DOMAIN s /\ e[i] = s[p[i]]
  BY <1>2
<1> HIDE DEF e, p
<1> QED
  BY <1>2, <1>3 DEF Sorted, Distinct, e

(* As long as no read failed, a cached list pruned to its options is what  *)
(* the query processor would answer, sorted and with nothing twice.        *)
THEOREM CacheStaysFaithful ==
  ASSUME AnswersFromOneList, KeysDiffer
  PROVE  Spec => []CacheFaithful
<1>1. ASSUME TypeOK, FaithInv PROVE CacheFaithful
  <2> SUFFICES ASSUME NEW q \in Queries, failures = 0, HasQmarks(q), storage[Key(q)] # None
               PROVE  LET item == storage[Key(q)]
                          refs == item.result.refs
                      IN /\ Prune(item.result, item.options).refs
                              = QueryProcessor(item.options, q).refs
                         /\ \A i, j \in DOMAIN refs :
                              i < j => ~ Before(refs[j], refs[i]) /\ refs[i] # refs[j]
    BY DEF CacheFaithful
  <2> DEFINE item == storage[Key(q)]
             s == List(q)
             o == item.options
  <2>1. q \in WildcardQueries
    BY DEF WildcardQueries
  <2>2. Faithful(workload, q, item) /\ workload \in Workloads
    BY <1>1, <2>1 DEF FaithInv, AllFaithful, CacheIsFaithful, TypeOK
  <2>3. PICK I \in SUBSET (DOMAIN s) : IsPartFor(workload, q, item, I)
    BY <2>2 DEF Faithful
  <2>4. PICK r \in workload.requests : o = ToOptions(r)
    BY <2>2 DEF Faithful
  <2>5. r \in Requests /\ o \in Options /\ o.count \in Nat /\ o.maxFreq \in Nat
    BY <2>2, <2>4, WorkloadType, OptionsType
  <2>6. s \in RefLists /\ Sorted(s) /\ Distinct(s)
    BY <2>1, ListType
  <2>7. item.result.refs = ElementsAt(s, I) /\ Wanted(s, o) \subseteq I
    BY <2>3 DEF IsPartFor
  <2> HIDE DEF item, s, o
  <2>8. Prune(item.result, o).refs = ElementsAt(s, Wanted(s, o))
    BY <2>5, <2>6, <2>7, PrunedToWanted
  <2>9. QueryProcessor(o, q).refs = ElementsAt(s, Wanted(s, o))
    BY <2>1, <2>5, AnswerIsWanted DEF s
  <2>10. Sorted(item.result.refs) /\ Distinct(item.result.refs)
    BY <2>6, <2>7, PartSorted
  <2> QED
    BY <2>8, <2>9, <2>10 DEF Sorted, Distinct, item, o
<1>2. FitsInv /\ FaithInv => CacheFaithful
  BY <1>1 DEF FitsInv
<1> QED
  BY <1>2, AlwaysFaithful, PTL

-----------------------------------------------------------------------------
(* What a request gets, where also every list is complete and no frequency *)
(* is cut off: the best phrases that it asks for.  While a request is      *)
(* processed, the phrases found so far cover each query that is done with: *)
(* a phrase of the query is among them, or as many that are as frequent.   *)

Named(found) == {PhraseOf(x) : x \in found.refs} \cup found.phrases

Allowed(q, r) == {p \in Matches(q) : r.freqMax = 0 \/ Freq[p] <= r.freqMax}

AsFrequent(A, c) == {p \in A : Freq[c] <= Freq[p]}

Covers(A, q, r) == \A c \in Allowed(q, r) \ A : Cardinality(AsFrequent(A, c)) >= r.maxPhrases

Gathered(A, r, left) ==
  /\ A \subseteq UNION {Allowed(q, r) : q \in Range(r.queries)}
  /\ \A q \in Range(r.queries) \ Range(left) : Covers(A, q, r)

(* The phrases of a query that a request allows.                           *)
LEMMA AllowedType ==
  ASSUME NEW q, NEW r \in Requests
  PROVE  /\ Allowed(q, r) \subseteq Phrases
         /\ \A p \in Phrases : /\ Freq[p] \in Nat /\ r.freqMax \in Nat
                               /\ r.freqMax = 0 \/ Freq[p] <= r.freqMax
                                    <=> Freq[p] <= ToOptions(r).maxFreq
<1>1. r.freqMax \in Nat
  BY RequestType
<1>2. \A p \in Phrases : Freq[p] \in 1 .. NoLimit /\ NoLimit \in Nat
  BY FreqAssumption
<1>3. ToOptions(r).maxFreq = IF r.freqMax # 0 THEN r.freqMax ELSE NoLimit
  BY OptionsType
<1> QED
  BY <1>1, <1>2, <1>3 DEF Allowed, Matches

(* A set with more phrases covers what a set covers.                       *)
LEMMA CoversMore ==
  ASSUME NEW B \in SUBSET Phrases, NEW A \in SUBSET B, NEW q, NEW r \in Requests, Covers(A, q, r)
  PROVE  Covers(B, q, r)
<1> SUFFICES ASSUME NEW c \in Allowed(q, r) \ B
             PROVE  Cardinality(AsFrequent(B, c)) >= r.maxPhrases
  BY DEF Covers
<1>1. Cardinality(AsFrequent(A, c)) >= r.maxPhrases
  BY DEF Covers
<1>2. AsFrequent(B, c) \in SUBSET Phrases /\ AsFrequent(A, c) \in SUBSET AsFrequent(B, c)
  BY DEF AsFrequent
<1>3. IsFiniteSet(AsFrequent(B, c))
  BY <1>2, PhrasesAssumption, FS_Subset
<1>4. Cardinality(AsFrequent(A, c)) <= Cardinality(AsFrequent(B, c))
  BY <1>2, <1>3, FS_Subset
<1>5. Cardinality(AsFrequent(A, c)) \in Nat /\ Cardinality(AsFrequent(B, c)) \in Nat
  BY <1>2, <1>3, FS_Subset, FS_CardinalityType
<1>6. r.maxPhrases \in Nat
  BY RequestType
<1> QED
  BY <1>1, <1>4, <1>5, <1>6

(* Phrases that cover the next query are added.                            *)
LEMMA GatheredMore ==
  ASSUME NEW A \in SUBSET Phrases, NEW r \in Requests, NEW left \in Seq(Queries), left # <<>>,
         Head(left) \in Range(r.queries), Gathered(A, r, left),
         NEW B, B \subseteq Allowed(Head(left), r), Covers(B, Head(left), r)
  PROVE  Gathered(A \cup B, r, Tail(left))
<1> DEFINE q == Head(left)
<1>1. B \in SUBSET Phrases
  BY AllowedType
<1>2. Range(left) \subseteq {q} \cup Range(Tail(left))
  <2>1. ASSUME NEW i \in DOMAIN left PROVE left[i] \in {q} \cup Range(Tail(left))
    <3>1. i \in 1 .. Len(left) /\ Len(left) \in Nat
      OBVIOUS
    <3>2. CASE i = 1
      BY <3>2
    <3>3. CASE i # 1
      <4>1. i - 1 \in DOMAIN Tail(left) /\ Tail(left)[i - 1] = left[i]
        BY <3>1, <3>3
      <4> QED
        BY <4>1 DEF Range
    <3> QED
      BY <3>2, <3>3
  <2> QED
    BY <2>1 DEF Range
<1>3. ASSUME NEW s \in Range(r.queries) \ Range(Tail(left)) PROVE Covers(A \cup B, s, r)
  <2>1. CASE s = q
    BY <1>1, <2>1, CoversMore
  <2>2. CASE s # q
    <3>1. Covers(A, s, r)
      BY <1>2, <1>3, <2>2 DEF Gathered
    <3> QED
      BY <1>1, <3>1, CoversMore
  <2> QED
    BY <2>1, <2>2
<1> QED
  BY <1>3 DEF Gathered

(* The phrase of an element of the list of a query.                        *)
LEMMA ListedPhrase ==
  ASSUME AnswersFromOneList, FreqsFit, NEW q \in WildcardQueries, NEW i \in DOMAIN List(q)
  PROVE  LET p == <<Len(q), List(q)[i].id>>
         IN /\ p \in Matches(q) /\ p \in Phrases
            /\ RefOf(p) = List(q)[i] /\ Freq[p] = List(q)[i].freq
<1>1. List(q)[i] \in Range(List(q))
  BY DEF Range
<1>2. PICK p \in Matches(q) : List(q)[i] = RefOf(p)
  BY <1>1, ListType
<1>3. p \in Phrases /\ p[1] = Len(q)
  BY PhrasesAssumption DEF Matches
<1>4. p = <<p[1], p[2]>> /\ RefOf(p).id = p[2] /\ RefOf(p).freq = RefFreq(p)
  BY <1>3, RefsType
<1>5. Freq[p] % RefFreqLimit = Freq[p]
  <2>1. Freq[p] \in Nat /\ Freq[p] < RefFreqLimit
    BY <1>3, RefsType DEF FreqsFit
  <2>2. RefFreqLimit \in Nat \ {0}
    BY FreqAssumption
  <2> QED
    BY <2>1, <2>2
<1> QED
  BY <1>2, <1>3, <1>4, <1>5 DEF RefFreq

(* A part of a list that has what a request asks for covers its query.     *)
LEMMA PartCovers ==
  ASSUME AnswersFromOneList, ListsAreComplete, FreqsFit,
         NEW q \in WildcardQueries, NEW r \in Requests,
         NEW I \in SUBSET Selected(List(q), ToOptions(r)), Wanted(List(q), ToOptions(r)) \subseteq I
  PROVE  LET B == {<<Len(q), ref.id>> : ref \in Range(ElementsAt(List(q), I))}
         IN B \subseteq Allowed(q, r) /\ Covers(B, q, r)
<1> DEFINE s == List(q)
           o == ToOptions(r)
           X == Selected(s, o)
           W == Wanted(s, o)
           k == r.maxPhrases
           phrase(i) == <<Len(q), s[i].id>>
           B == {<<Len(q), ref.id>> : ref \in Range(ElementsAt(s, I))}
<1>1. s \in RefLists /\ s \in Seq(Refs) /\ Sorted(s) /\ Distinct(s)
  BY ListType
<1>2. o.count = k /\ k \in Nat /\ o.count \in Nat /\ o.maxFreq \in Nat
  BY OptionsType
<1>3. /\ X \in SUBSET (DOMAIN s) /\ IsFiniteSet(X) /\ StrictlyOrders(Less, X)
      /\ W \in SUBSET X /\ X \in SUBSET Nat
  BY <1>1, <1>2, WantedType
<1>4. \A i \in DOMAIN s : /\ phrase(i) \in Matches(q) /\ phrase(i) \in Phrases
                          /\ RefOf(phrase(i)) = s[i] /\ Freq[phrase(i)] = s[i].freq
  BY ListedPhrase
<1>5. I \in SUBSET (DOMAIN s)
  BY <1>3
<1>6. B = {phrase(i) : i \in I}
  <2> DEFINE e == ElementsAt(s, I)
  <2>1. /\ \A n \in DOMAIN e : \E i \in I : e[n] = s[i]
        /\ \A i \in I : \E n \in DOMAIN e : e[n] = s[i]
    BY <1>1, <1>5, ElementsAtType
  <2> HIDE DEF e, s
  <2> QED
    BY <2>1 DEF Range, e
<1>7. \A i \in X : phrase(i) \in Allowed(q, r)
  <2> SUFFICES ASSUME NEW i \in X PROVE phrase(i) \in Allowed(q, r)
    OBVIOUS
  <2>1. i \in DOMAIN s /\ s[i].freq <= o.maxFreq
    BY DEF Selected
  <2>2. Freq[phrase(i)] <= o.maxFreq /\ phrase(i) \in Matches(q) /\ phrase(i) \in Phrases
    BY <1>4, <2>1
  <2> QED
    BY <2>2, AllowedType DEF Allowed
<1>8. B \subseteq Allowed(q, r)
  BY <1>6, <1>7
<1>9. ASSUME NEW c \in Allowed(q, r) \ B PROVE Cardinality(AsFrequent(B, c)) >= k
  <2>1. c \in Matches(q) /\ c \in Phrases /\ Freq[c] <= o.maxFreq
    BY AllowedType DEF Allowed, Matches
  <2>2. PICK i \in DOMAIN s : s[i] = RefOf(c)
    BY <2>1 DEF ListsAreComplete, Range, List
  <2>3. phrase(i) = c
    <3>1. c = <<c[1], c[2]>> /\ c[1] = Len(q) /\ RefOf(c).id = c[2]
      BY <2>1, RefsType, PhrasesAssumption DEF Matches
    <3> QED
      BY <2>2, <3>1
  <2>4. s[i].freq = Freq[c] /\ i \in X /\ i \notin I
    <3>1. s[i].freq = Freq[c]
      BY <1>4, <2>3
    <3>2. i \in X
      BY <2>1, <3>1 DEF Selected
    <3>3. i \notin I
      BY <1>6, <2>3
    <3> QED
      BY <3>1, <3>2, <3>3
  <2> HIDE DEF s, o, k
  <2>5. i \notin W
    BY <2>4 DEF s, o
  <2>6. Rank(i, X, Less) \in 0 .. Cardinality(X) - 1 /\ Cardinality(X) \in Nat
    BY <1>3, <2>4, RankType, FS_CardinalityType
  <2>7. ~ Rank(i, X, Less) < k
    BY <1>2, <2>4, <2>5 DEF Wanted, FirstOf
  <2>8. IsFiniteSet(W) /\ Cardinality(W) = Smaller(k, Cardinality(X))
    BY <1>2, <1>3, FirstOfSize DEF Wanted
  <2>9. Cardinality(W) = k
    BY <1>2, <2>6, <2>7, <2>8 DEF Smaller
  <2>10. \A w \in W : w \in I /\ w \in DOMAIN s /\ w \in Nat
    BY <1>3 DEF s, o
  <2>11. ASSUME NEW w \in W PROVE Freq[c] <= Freq[phrase(w)]
    <3>1. w < i
      <4>1. i \in Nat /\ w \in Nat /\ w # i
        BY <1>3, <2>4, <2>5, <2>10
      <4>2. ~ i < w
        <5>1. i < w => <<i, w>> \in Less
          BY <4>1 DEF Less
        <5> QED
          BY <1>2, <1>3, <2>4, <2>5, <5>1, FirstOfDown DEF Wanted
      <4> QED
        BY <4>1, <4>2
    <3>2. ~ s[w].freq < s[i].freq
      BY <1>1, <2>10, <3>1 DEF Sorted, Before
    <3>3. Freq[phrase(w)] = s[w].freq /\ phrase(w) \in Phrases
      BY <1>4, <2>10
    <3> QED
      BY <2>1, <2>4, <3>2, <3>3, RefsType
  <2> DEFINE G == AsFrequent(B, c)
             f == [w \in W |-> phrase(w)]
  <2>12. f \in Injection(W, G)
    <3>1. \A w \in W : phrase(w) \in G
      BY <1>6, <2>10, <2>11 DEF AsFrequent
    <3>2. ASSUME NEW v \in W, NEW w \in W, phrase(v) = phrase(w) PROVE v = w
      <4>1. s[v] = s[w]
        <5>1. RefOf(phrase(v)) = s[v] /\ RefOf(phrase(w)) = s[w]
          BY <1>4, <2>10
        <5> QED
          BY <3>2, <5>1
      <4> QED
        BY <1>1, <2>10, <4>1 DEF Distinct
    <3> HIDE DEF G, W, phrase
    <3> QED
      BY <3>1, <3>2 DEF Injection, IsInjective
  <2>13. IsFiniteSet(G)
    <3>1. G \in SUBSET Phrases
      BY <1>8, AllowedType DEF AsFrequent
    <3> QED
      BY <3>1, PhrasesAssumption, FS_Subset
  <2>14. Cardinality(W) <= Cardinality(G)
    <3> HIDE DEF f, G, W
    <3> QED
      BY <2>12, <2>13, FS_Injection
  <2>15. Cardinality(G) \in Nat
    BY <2>13, FS_CardinalityType
  <2> QED
    BY <1>2, <2>9, <2>14, <2>15
<1>10. Covers(B, q, r)
  BY <1>9 DEF Covers
<1> QED
  BY <1>8, <1>10

(* With whole frequencies, raw references go before each other as the      *)
(* phrases do that they name: the phrases of the best references are the   *)
(* best of the phrases.                                                    *)
LEMMA TopOfRefs ==
  ASSUME FreqsFit, NEW refs \in SUBSET LengthRefs, NEW k \in Nat
  PROVE  TopPhrases(refs, k) = FirstOf({PhraseOf(x) : x \in refs}, PhraseOrder, k)
<1> DEFINE N == {PhraseOf(x) : x \in refs}
           name == [x \in refs |-> PhraseOf(x)]
<1>1. ASSUME NEW x \in refs
      PROVE  /\ PhraseOf(x) \in Phrases /\ x = <<PhraseOf(x)[1], RefOf(PhraseOf(x))>>
             /\ x[2].freq = Freq[PhraseOf(x)]
  <2>1. PICK p \in Phrases : x = <<p[1], RefOf(p)>>
    BY DEF LengthRefs
  <2>2. PhraseOf(x) = p
    BY <2>1, RefsType DEF PhraseOf
  <2>3. Freq[p] \in Nat /\ Freq[p] < RefFreqLimit
    BY RefsType DEF FreqsFit
  <2>4. RefFreqLimit \in Nat \ {0}
    BY FreqAssumption
  <2>5. Freq[p] % RefFreqLimit = Freq[p]
    BY <2>3, <2>4
  <2>6. RefOf(p).freq = Freq[p]
    BY <2>5, RefsType DEF RefFreq
  <2> QED
    BY <2>1, <2>2, <2>6
<1>2. N \in SUBSET Phrases /\ IsFiniteSet(N)
  BY <1>1, PhrasesAssumption, FS_Subset
<1>3. \A x, y \in refs : PhraseOf(x) = PhraseOf(y) => x = y
  BY <1>1
<1>4. name \in Bijection(refs, N)
  BY <1>3 DEF Bijection, Injection, Surjection, IsInjective
<1>5. IsFiniteSet(refs)
  <2>1. name \in Injection(refs, N)
    BY <1>4 DEF Bijection
  <2> HIDE DEF N, name
  <2> QED
    BY <1>2, <2>1, FS_Injection
<1>6. ASSUME NEW x \in refs, NEW y \in refs
      PROVE  RefLess(y, x) <=> <<PhraseOf(y), PhraseOf(x)>> \in PhraseOrder
  BY <1>1 DEF RefLess, PhraseLess, PhraseOrder
<1>7. ASSUME NEW x \in refs
      PROVE  Cardinality({y \in refs : RefLess(y, x)}) = Rank(PhraseOf(x), N, PhraseOrder)
  <2> DEFINE S == {y \in refs : RefLess(y, x)}
             T == {p \in N : <<p, PhraseOf(x)>> \in PhraseOrder}
             g == [y \in S |-> PhraseOf(y)]
  <2>1. \A y \in S : PhraseOf(y) \in T
    BY <1>6
  <2>2. \A p \in T : \E y \in S : PhraseOf(y) = p
    BY <1>6
  <2>3. \A y, z \in S : PhraseOf(y) = PhraseOf(z) => y = z
    BY <1>3
  <2>4. IsFiniteSet(S)
    BY <1>5, FS_Subset
  <2> HIDE DEF S, T
  <2>5. g \in Bijection(S, T)
    BY <2>1, <2>2, <2>3 DEF Bijection, Injection, Surjection, IsInjective
  <2> HIDE DEF g
  <2>6. Cardinality(T) = Cardinality(S)
    BY <2>4, <2>5, FS_Bijection DEF ExistsBijection
  <2> QED
    BY <2>6 DEF S, T, Rank
<1> HIDE DEF N
<1>8. TopPhrases(refs, k) = {PhraseOf(x) : x \in {x \in refs : Rank(PhraseOf(x), N, PhraseOrder) < k}}
  BY <1>7 DEF TopPhrases
<1> QED
  BY <1>8 DEF FirstOf, N

(* The best phrases of all are the best of the best references and the     *)
(* phrases of the queries without wildcards.                               *)
LEMMA MergeRawIs ==
  ASSUME FreqsFit, NEW found \in RawResults, NEW k \in Nat
  PROVE  MergeRaw(found, k) = Ordered(FirstOf(Named(found), PhraseOrder, k), PhraseOrder)
<1> DEFINE N == {PhraseOf(x) : x \in found.refs}
           P == found.phrases
           X == N \cup P
           Y == FirstOf(N, PhraseOrder, k) \cup P
<1>1. found.refs \in SUBSET LengthRefs
  BY DEF RawResults
<1>2. X \in SUBSET Phrases /\ X = Named(found)
  BY MergeRawType DEF Named
<1>3. TopPhrases(found.refs, k) = FirstOf(N, PhraseOrder, k)
  BY <1>1, TopOfRefs
<1>4. IsFiniteSet(X) /\ StrictlyOrders(PhraseOrder, X)
  BY <1>2, PhrasesOrdered
<1>5. Y \in SUBSET X
  BY DEF FirstOf
<1>6. IsFiniteSet(Y) /\ StrictlyOrders(PhraseOrder, Y)
  BY <1>2, <1>5, PhrasesOrdered
<1>7. FirstOf(X, PhraseOrder, k) \subseteq Y
  <2> SUFFICES ASSUME NEW x \in FirstOf(X, PhraseOrder, k), x \notin P
               PROVE  x \in FirstOf(N, PhraseOrder, k)
    BY DEF FirstOf
  <2>1. x \in N /\ Rank(x, X, PhraseOrder) < k
    BY DEF FirstOf
  <2>2. N \in SUBSET X
    OBVIOUS
  <2> HIDE DEF X, N
  <2>3. /\ Rank(x, N, PhraseOrder) <= Rank(x, X, PhraseOrder)
        /\ Rank(x, N, PhraseOrder) \in Nat /\ Rank(x, X, PhraseOrder) \in Nat
    BY <1>4, <2>2, RankInPart
  <2> QED
    BY <2>1, <2>3 DEF FirstOf
<1>8. MergeRaw(found, k) = FirstN(Ordered(Y, PhraseOrder), k)
  BY <1>3 DEF MergeRaw
<1> HIDE DEF X, Y
<1>9. FirstOf(Y, PhraseOrder, k) = FirstOf(X, PhraseOrder, k)
  BY <1>4, <1>5, <1>7, FirstOfPart
<1>10. FirstN(Ordered(Y, PhraseOrder), k) = Ordered(FirstOf(Y, PhraseOrder, k), PhraseOrder)
  BY <1>6, OrderedPrefix
<1> QED
  BY <1>2, <1>8, <1>9, <1>10

(* The best of phrases that cover all queries are the best there are.      *)
LEMMA TopOfGathered ==
  ASSUME NEW C \in SUBSET Phrases, NEW A \in SUBSET C, NEW k \in Nat,
         \A c \in C \ A : Cardinality(AsFrequent(A, c)) >= k
  PROVE  LET X == FirstOf(A, PhraseOrder, k)
         IN /\ X \in SUBSET C
            /\ Cardinality(X) = Smaller(k, Cardinality(C))
            /\ \A p \in X, c \in C \ X : Freq[c] <= Freq[p]
<1> DEFINE X == FirstOf(A, PhraseOrder, k)
<1>1. IsFiniteSet(A) /\ StrictlyOrders(PhraseOrder, A) /\ IsFiniteSet(C) /\ A \in SUBSET Phrases
  BY PhrasesOrdered
<1>2. IsFiniteSet(X) /\ X \in SUBSET A /\ Cardinality(X) = Smaller(k, Cardinality(A))
  BY <1>1, FirstOfSize
<1>3. Cardinality(A) \in Nat /\ Cardinality(C) \in Nat /\ Cardinality(A) <= Cardinality(C)
  BY <1>1, FS_Subset, FS_CardinalityType
<1>4. ASSUME NEW c PROVE /\ AsFrequent(A, c) \in SUBSET A /\ IsFiniteSet(AsFrequent(A, c))
                         /\ Cardinality(AsFrequent(A, c)) \in Nat
                         /\ Cardinality(AsFrequent(A, c)) <= Cardinality(A)
  <2>1. AsFrequent(A, c) \in SUBSET A
    BY DEF AsFrequent
  <2> QED
    BY <1>1, <2>1, FS_Subset, FS_CardinalityType
<1>5. Cardinality(X) = Smaller(k, Cardinality(C))
  <2>1. CASE A = C
    BY <1>2, <2>1
  <2>2. CASE A # C
    <3>1. PICK c \in C \ A : TRUE
      BY <2>2
    <3>2. Cardinality(A) >= k
      BY <1>3, <1>4, <3>1
    <3> HIDE DEF X
    <3> QED
      BY <1>2, <1>3, <3>2 DEF Smaller
  <2> QED
    BY <2>1, <2>2
<1>6. ASSUME NEW p \in X, NEW c \in C \ X PROVE Freq[c] <= Freq[p]
  <2>1. p \in A /\ p \in Phrases /\ c \in Phrases /\ Freq[p] \in Nat /\ Freq[c] \in Nat
    BY <1>2, RefsType
  <2>2. SUFFICES ASSUME Freq[p] < Freq[c] PROVE FALSE
    BY <2>1
  <2>3. Rank(p, A, PhraseOrder) < k
    BY DEF FirstOf
  <2>4. CASE c \in A
    <3>1. <<c, p>> \in PhraseOrder
      BY <2>1, <2>2 DEF PhraseOrder, PhraseLess
    <3> QED
      BY <1>1, <2>4, <3>1, FirstOfDown
  <2>5. CASE c \notin A
    <3> DEFINE before == {y \in A : <<y, p>> \in PhraseOrder}
    <3>1. AsFrequent(A, c) \in SUBSET before
      <4> SUFFICES ASSUME NEW y \in A, Freq[c] <= Freq[y] PROVE <<y, p>> \in PhraseOrder
        BY DEF AsFrequent
      <4>1. y \in Phrases /\ Freq[y] \in Nat
        BY <1>1, RefsType
      <4> QED
        BY <2>1, <2>2, <4>1 DEF PhraseOrder, PhraseLess
    <3>2. IsFiniteSet(before)
      BY <1>1, FS_Subset
    <3>3. Cardinality(AsFrequent(A, c)) <= Cardinality(before) /\ Cardinality(before) \in Nat
      BY <3>1, <3>2, FS_Subset, FS_CardinalityType
    <3>4. Cardinality(before) = Rank(p, A, PhraseOrder)
      BY DEF Rank
    <3>5. Cardinality(AsFrequent(A, c)) >= k
      BY <2>5
    <3> HIDE DEF before
    <3> QED
      BY <1>4, <2>3, <3>3, <3>4, <3>5
  <2> QED
    BY <2>4, <2>5
<1> QED
  BY <1>2, <1>5, <1>6

(* A request is pending while its thread works on it; the phrases found    *)
(* until then cover the queries that are done with.                        *)
ThreadFree(at, r, reply) == at = "idle" <=> r = None \/ reply # None
ThreadServes(at, r, left, found) == at # "idle" => Gathered(Named(found), r, left)

AllFree == \A t \in Threads : ThreadFree(pc[t], request[t], response[t])
AllServed == \A t \in Threads : ThreadServes(pc[t], request[t], todo[t], raw[t])

ServInv == AllFree /\ (Undisturbed => AllServed)

(* With one limit for all requests, the cache serves a part of the list    *)
(* that has what the request asks for and nothing above the limit.         *)
LEMMA ServedServes ==
  ASSUME AnswersFromOneList, NEW w \in Workloads, OneLimit(w),
         NEW q \in WildcardQueries, NEW r \in w.requests,
         NEW item, item # None => Faithful(w, q, item), Served(item, ToOptions(r)) # None
  PROVE  \E I \in SUBSET Selected(List(q), ToOptions(r)) :
           /\ Served(item, ToOptions(r)).refs = ElementsAt(List(q), I)
           /\ Wanted(List(q), ToOptions(r)) \subseteq I
<1> DEFINE s == List(q)
           o == ToOptions(r)
<1>1. item # None
  BY DEF Served
<1>2. PICK I \in SUBSET (DOMAIN s) : IsPartFor(w, q, item, I)
  BY <1>1 DEF Faithful
<1>3. PICK x \in w.requests : item.options = ToOptions(x)
  BY <1>1 DEF Faithful
<1>4. /\ item.result.refs = ElementsAt(s, I) /\ Wanted(s, item.options) \subseteq I
      /\ I \subseteq Selected(s, item.options)
  BY <1>2 DEF IsPartFor
<1>5. /\ o.count \in Nat /\ o.maxFreq \in Nat
      /\ item.options.count \in Nat /\ item.options.maxFreq \in Nat
  BY <1>3, WorkloadType, OptionsType
<1>6. s \in RefLists
  BY ListType
<1>7. CASE item.options = o
  <2>1. Served(item, o) = item.result
    BY <1>1, <1>7 DEF Served
  <2> HIDE DEF o, s
  <2>2. I \in SUBSET Selected(s, o) /\ Wanted(s, o) \subseteq I
    BY <1>4, <1>7
  <2> QED
    BY <1>4, <2>1, <2>2 DEF o, s
<1>8. CASE item.options # o
  <2>1. IsPrunableFrom(item.options, o) /\ Served(item, o) = Prune(item.result, o)
    BY <1>1, <1>8 DEF Served
  <2>2. Selected(s, item.options) = Selected(s, o) /\ item.options.count >= o.count
    BY <2>1 DEF IsPrunableFrom, Selected
  <2>3. Wanted(s, o) \subseteq Wanted(s, item.options)
    <3> SUFFICES ASSUME NEW i \in Wanted(s, o) PROVE i \in Wanted(s, item.options)
      OBVIOUS
    <3> DEFINE X == Selected(s, o)
    <3>1. i \in X /\ Rank(i, X, Less) < o.count
      BY DEF Wanted, FirstOf
    <3>2. IsFiniteSet(X)
      BY <1>5, <1>6, WantedType
    <3>3. Rank(i, X, Less) \in Nat
      <4> HIDE DEF X
      <4>1. X \in SUBSET X
        OBVIOUS
      <4> QED
        BY <3>2, <4>1, RankInPart
    <3> HIDE DEF X, o
    <3>4. Rank(i, X, Less) < item.options.count
      BY <1>5, <2>2, <3>1, <3>3
    <3>5. X = Selected(s, item.options)
      BY <2>2 DEF X
    <3> QED
      BY <3>1, <3>4, <3>5 DEF Wanted, FirstOf
  <2>4. Wanted(s, o) \subseteq I /\ Wanted(s, o) \in SUBSET Selected(s, o)
    BY <1>4, <1>5, <1>6, <2>3, WantedType
  <2> HIDE DEF o, s
  <2>5. Prune(item.result, o).refs = ElementsAt(s, Wanted(s, o))
    BY <1>4, <1>5, <1>6, <2>4, PrunedToWanted
  <2> QED
    BY <2>1, <2>4, <2>5 DEF o, s
<1> QED
  BY <1>7, <1>8

(* What a request asks for of a list is added to the phrases found.        *)
LEMMA AddsResult ==
  ASSUME AnswersFromOneList, ListsAreComplete, FreqsFit,
         NEW r \in Requests, NEW left \in Seq(Queries), left # <<>>,
         Head(left) \in Range(r.queries), Head(left) \in WildcardQueries,
         NEW found \in RawResults, Gathered(Named(found), r, left),
         NEW I \in SUBSET Selected(List(Head(left)), ToOptions(r)),
         Wanted(List(Head(left)), ToOptions(r)) \subseteq I,
         NEW result, result.refs = ElementsAt(List(Head(left)), I)
  PROVE  Gathered(Named(WithResult(found, Head(left), result)), r, Tail(left))
<1> DEFINE q == Head(left)
           B == {<<Len(q), ref.id>> : ref \in Range(ElementsAt(List(q), I))}
           A == Named(found)
<1>1. B \subseteq Allowed(q, r) /\ Covers(B, q, r)
  BY PartCovers
<1>2. A \in SUBSET Phrases
  <2>1. found.refs \subseteq LengthRefs
    BY DEF RawResults
  <2> QED
    BY MergeRawType DEF Named
<1>3. Named(WithResult(found, q, result)) = A \cup B
  <2> DEFINE new == {<<Len(q), ref>> : ref \in Range(ElementsAt(List(q), I))}
  <2>1. {PhraseOf(x) : x \in new} = B
    <3> DEFINE n == Len(q)
               refs == Range(ElementsAt(List(q), I))
    <3>1. \A ref : PhraseOf(<<n, ref>>) = <<n, ref.id>>
      BY DEF PhraseOf
    <3> HIDE DEF n, refs
    <3>2. {PhraseOf(x) : x \in {<<n, ref>> : ref \in refs}} = {<<n, ref.id>> : ref \in refs}
      BY ONLY <3>1
    <3> QED
      BY ONLY <3>2 DEF n, refs
  <2>2. /\ WithResult(found, q, result).refs = found.refs \cup new
        /\ WithResult(found, q, result).phrases = found.phrases
    BY DEF WithResult
  <2> HIDE DEF q, new, B
  <2>3. {PhraseOf(x) : x \in found.refs \cup new} = {PhraseOf(x) : x \in found.refs} \cup B
    BY <2>1
  <2> QED
    BY <2>2, <2>3 DEF Named
<1> HIDE DEF A, B
<1>4. Gathered(A \cup B, r, Tail(left))
  BY <1>1, <1>2, GatheredMore DEF A
<1> QED
  BY <1>3, <1>4

(* A step of one thread keeps what is served.                              *)
LEMMA ServMoves ==
  ASSUME TypeOK, AllServed, NEW t \in Threads,
         NEW at, NEW r, NEW left, NEW item, NEW answer, NEW found, NEW reply,
         Moved(t, at, r, left, item, answer, found, reply),
         ThreadServes(at, r, left, found)
  PROVE  AllServed'
<1> SUFFICES ASSUME NEW u \in Threads PROVE ThreadServes(pc'[u], request'[u], todo'[u], raw'[u])
  BY DEF AllServed
<1>1. CASE u = t
  <2>1. pc'[u] = at /\ request'[u] = r /\ todo'[u] = left /\ raw'[u] = found
    BY <1>1 DEF Moved, TypeOK
  <2> QED
    BY <2>1
<1>2. CASE u # t
  <2>1. pc'[u] = pc[u] /\ request'[u] = request[u] /\ todo'[u] = todo[u] /\ raw'[u] = raw[u]
    BY <1>2 DEF Moved, TypeOK
  <2> QED
    BY <2>1 DEF AllServed
<1> QED
  BY <1>1, <1>2

(* The same for pending requests.                                          *)
LEMMA FreeMoves ==
  ASSUME TypeOK, AllFree, NEW t \in Threads,
         NEW at, NEW r, NEW left, NEW item, NEW answer, NEW found, NEW reply,
         Moved(t, at, r, left, item, answer, found, reply),
         ThreadFree(at, r, reply)
  PROVE  AllFree'
<1> SUFFICES ASSUME NEW u \in Threads PROVE ThreadFree(pc'[u], request'[u], response'[u])
  BY DEF AllFree
<1>1. CASE u = t
  <2>1. pc'[u] = at /\ request'[u] = r /\ response'[u] = reply
    BY <1>1 DEF Moved, TypeOK
  <2> QED
    BY <2>1
<1>2. CASE u # t
  <2>1. pc'[u] = pc[u] /\ request'[u] = request[u] /\ response'[u] = response[u]
    BY <1>2 DEF Moved, TypeOK
  <2> QED
    BY <2>1 DEF AllFree
<1> QED
  BY <1>1, <1>2

(* A response is something.                                                *)
LEMMA ReplyIsSome == \A reply \in Responses : reply # None
BY NoneAssumption

(* Every step keeps requests pending exactly while a thread works on them. *)
LEMMA StepFree ==
  ASSUME FitsInv, AllFree, Next
  PROVE  AllFree'
<1>1. TypeOK
  BY DEF FitsInv
<1>2. ASSUME NEW t \in Threads, NEW r \in workload.requests, Start(t, r) PROVE AllFree'
  <2>1. PICK at, left, found, reply :
          /\ at \in {"idle", "search"}
          /\ Moved(t, at, r, left, seen[t], fresh[t], found, reply)
          /\ at = "search" => reply = None
          /\ at = "idle" => reply = [error |-> "INVALID_QUERY"]
    BY <1>2, StartFits
  <2>2. r \in Requests /\ r # None
    BY <1>1, RequestType, WorkloadType DEF TypeOK
  <2>3. [error |-> "INVALID_QUERY"] # None
    <3>1. [error |-> "INVALID_QUERY"] \in Responses
      BY DEF Responses
    <3> QED
      BY <3>1, ReplyIsSome
  <2> QED
    BY <1>1, <2>1, <2>2, <2>3, FreeMoves DEF ThreadFree
<1>3. ASSUME NEW t \in Threads, Step(t) PROVE AllFree'
  <2>0. pc[t] # "idle" /\ UNCHANGED workload
    BY <1>3 DEF Step, ServeFromCache, AskProcessor, Store, LookUpPhrase, LookUpThrows, Respond,
                Searching
  <2>1. \E at, left, item, answer, found :
          /\ \/ /\ at \in {"search", "store"}
                /\ Moved(t, at, request[t], left, item, answer, found, response[t])
             \/ /\ at = "idle" /\ response'[t] \in Responses
                /\ Moved(t, at, request[t], left, item, answer, found, response'[t])
    <3>1. CASE ServeFromCache(t)
      BY <2>0, <3>1, ServeFromCacheFits
    <3>2. CASE AskProcessor(t)
      BY <2>0, <3>2, AskProcessorFits
    <3>3. CASE Store(t)
      BY <2>0, <3>3, StoreFits
    <3>4. CASE LookUpPhrase(t)
      BY <2>0, <3>4, LookUpPhraseFits
    <3>5. CASE LookUpThrows(t)
      <4>1. Moved(t, "idle", request[t], todo[t], seen[t], fresh[t], raw[t], [error |-> "UNKNOWN"])
        BY <2>0, <3>5, LookUpThrowsFits
      <4>2. [error |-> "UNKNOWN"] \in Responses
        BY DEF Responses
      <4>3. response'[t] = [error |-> "UNKNOWN"]
        BY <1>1, <4>1 DEF Moved, TypeOK
      <4> QED
        BY <4>1, <4>2, <4>3
    <3>6. CASE Respond(t)
      BY <2>0, <3>6, RespondFits
    <3> QED
      BY <1>3, <3>1, <3>2, <3>3, <3>4, <3>5, <3>6 DEF Step
  <2>2. PICK at, left, item, answer, found :
          \/ /\ at \in {"search", "store"}
             /\ Moved(t, at, request[t], left, item, answer, found, response[t])
          \/ /\ at = "idle" /\ response'[t] \in Responses
             /\ Moved(t, at, request[t], left, item, answer, found, response'[t])
    BY <2>1
  <2>3. ThreadFree(pc[t], request[t], response[t])
    BY DEF AllFree
  <2>4. CASE at \in {"search", "store"} /\ Moved(t, at, request[t], left, item, answer, found, response[t])
    <3>1. ThreadFree(at, request[t], response[t])
      BY <2>0, <2>3, <2>4 DEF ThreadFree
    <3> QED
      BY <1>1, <2>4, <3>1, FreeMoves
  <2>5. CASE /\ at = "idle" /\ response'[t] \in Responses
             /\ Moved(t, at, request[t], left, item, answer, found, response'[t])
    <3>1. ThreadFree(at, request[t], response'[t])
      BY <2>5, ReplyIsSome DEF ThreadFree
    <3> QED
      BY <1>1, <2>5, <3>1, FreeMoves
  <2> QED
    BY <2>2, <2>4, <2>5
<1> QED
  BY <1>2, <1>3 DEF Next

(* What a raw result names are phrases.                                    *)
LEMMA NamedType ==
  ASSUME NEW found \in RawResults
  PROVE  Named(found) \in SUBSET Phrases
<1>1. 0 \in Nat
  OBVIOUS
<1>2. {PhraseOf(x) : x \in found.refs} \cup found.phrases \subseteq Phrases
  BY <1>1, MergeRawType
<1> QED
  BY <1>2 DEF Named

(* The phrases of a query without wildcards cover it.                      *)
LEMMA AddsPhrases ==
  ASSUME NEW r \in Requests, NEW left \in Seq(Queries), left # <<>>,
         Head(left) \in Range(r.queries), Head(left) \in Queries, ~ HasQmarks(Head(left)),
         NEW found \in RawResults, Gathered(Named(found), r, left)
  PROVE  LET result == PlainResult(ToOptions(r), Head(left), WithText(Key(Head(left))))
         IN Gathered(Named(WithPhrases(found, result)), r, Tail(left))
<1> DEFINE q == Head(left)
           o == ToOptions(r)
           result == PlainResult(o, q, WithText(Key(q)))
           B == result.phrases
           A == Named(found)
<1>1. WithText(Key(q)) = Matches(q) /\ Matches(q) \subseteq Phrases
  BY PlainMatches DEF Matches
<1>2. o.count = r.maxPhrases /\ r.maxPhrases \in Nat
  BY OptionsType
<1>3. Allowed(q, r) = {p \in Matches(q) : Freq[p] <= o.maxFreq}
  BY <1>1, AllowedType DEF Allowed
<1>4. CASE o.count > 0 /\ Matches(q) # {}
  <2>1. B = Allowed(q, r)
    BY <1>1, <1>3, <1>4 DEF PlainResult
  <2>2. B \subseteq Allowed(q, r) /\ Covers(B, q, r)
    BY <2>1 DEF Covers
  <2>3. Gathered(A \cup B, r, Tail(left))
    <3>1. A \in SUBSET Phrases /\ Gathered(A, r, left)
      BY NamedType
    <3> HIDE DEF A, B
    <3> QED
      BY <2>2, <3>1, GatheredMore
  <2>4. Named(WithPhrases(found, result)) = A \cup B
    BY DEF Named, WithPhrases
  <2> QED
    BY <2>3, <2>4
<1>5. CASE ~ (o.count > 0 /\ Matches(q) # {})
  <2>1. B = {}
    BY <1>1, <1>5 DEF PlainResult
  <2>2. ASSUME NEW c \in Allowed(q, r) PROVE Cardinality(AsFrequent({}, c)) >= r.maxPhrases
    <3>1. AsFrequent({}, c) = {}
      BY DEF AsFrequent
    <3>2. Cardinality(AsFrequent({}, c)) = 0
      BY <3>1, FS_EmptySet
    <3>3. Matches(q) # {}
      BY <1>3
    <3>4. r.maxPhrases = 0
      BY <1>2, <1>5, <3>3
    <3> QED
      BY <3>2, <3>4
  <2>3. B \subseteq Allowed(q, r) /\ Covers(B, q, r)
    BY <2>1, <2>2 DEF Covers
  <2>4. Gathered(A \cup B, r, Tail(left))
    <3>1. A \in SUBSET Phrases /\ Gathered(A, r, left)
      BY NamedType
    <3> HIDE DEF A, B
    <3> QED
      BY <2>3, <3>1, GatheredMore
  <2>5. Named(WithPhrases(found, result)) = A \cup B
    BY DEF Named, WithPhrases
  <2> QED
    BY <2>4, <2>5
<1> QED
  BY <1>4, <1>5

(* A thread whose query is done with by a part of its list.                *)
LEMMA DoneServes ==
  ASSUME AnswersFromOneList, ListsAreComplete, FreqsFit, FitsInv, AllServed,
         NEW t \in Threads, pc[t] # "idle", todo[t] # <<>>, HasQmarks(Query(t)),
         NEW result,
         NEW I \in SUBSET Selected(List(Query(t)), OptionsOf(t)),
         Wanted(List(Query(t)), OptionsOf(t)) \subseteq I,
         result.refs = ElementsAt(List(Query(t)), I)
  PROVE  ThreadServes("search", request[t], Tail(todo[t]), WithResult(raw[t], Query(t), result))
<1>1. Gathered(Named(raw[t]), request[t], todo[t])
  BY DEF AllServed, ThreadServes
<1>2. /\ request[t] \in Requests /\ Query(t) \in Range(request[t].queries)
      /\ raw[t] \in RawResults /\ Query(t) \in WildcardQueries
  BY SearchingFits
<1>3. todo[t] \in Seq(Queries)
  BY DEF FitsInv, TypeOK
<1>4. Gathered(Named(WithResult(raw[t], Query(t), result)), request[t], Tail(todo[t]))
  BY <1>1, <1>2, <1>3, AddsResult DEF Query, OptionsOf
<1> QED
  BY <1>4 DEF ThreadServes

(* Every step keeps what is served, with one limit and no failed reads.    *)
LEMMA StepServes ==
  ASSUME AnswersFromOneList, ListsAreComplete, KeysDiffer, FreqsFit,
         FitsInv, FaithInv, AllServed, OneLimit(workload), failures = 0, failures' = 0, Next
  PROVE  AllServed'
<1>1. TypeOK /\ RequestsSent /\ AllFaithful /\ UNCHANGED workload /\ workload \in Workloads
  BY StepSends DEF FitsInv, FaithInv, TypeOK
<1>2. ASSUME NEW t \in Threads, NEW r \in workload.requests, Start(t, r) PROVE AllServed'
  <2>1. PICK at, left, found, reply :
          /\ at \in {"idle", "search"}
          /\ Moved(t, at, r, left, seen[t], fresh[t], found, reply)
          /\ at = "search" => left = r.queries /\ found = EmptyRaw
    BY <1>2, StartFits
  <2>2. Named(EmptyRaw) = {}
    BY DEF Named, EmptyRaw
  <2>3. Gathered(Named(EmptyRaw), r, r.queries)
    BY <2>2 DEF Gathered
  <2>4. ThreadServes(at, r, left, found)
    BY <2>1, <2>3 DEF ThreadServes
  <2> QED
    BY <1>1, <2>1, <2>4, ServMoves
<1>3. ASSUME NEW t \in Threads, ServeFromCache(t) PROVE AllServed'
  <2> DEFINE q == Query(t)
             result == Served(storage[Key(q)], OptionsOf(t))
  <2>1. pc[t] = "search" /\ todo[t] # <<>> /\ HasQmarks(q) /\ result # None
    BY <1>3 DEF ServeFromCache, Searching
  <2>2. request[t] \in workload.requests /\ q \in WildcardQueries
    <3>1. request[t] \in Requests /\ q \in WildcardQueries
      BY <2>1, SearchingFits
    <3>2. request[t] # None
      BY <3>1, RequestType
    <3> QED
      BY <1>1, <3>1, <3>2 DEF RequestsSent
  <2>3. storage[Key(q)] # None => Faithful(workload, q, storage[Key(q)])
    BY <1>1, <2>2 DEF AllFaithful, CacheIsFaithful
  <2>4. PICK I \in SUBSET Selected(List(q), OptionsOf(t)) :
          result.refs = ElementsAt(List(q), I) /\ Wanted(List(q), OptionsOf(t)) \subseteq I
    BY <1>1, <2>1, <2>2, <2>3, ServedServes DEF OptionsOf
  <2> HIDE DEF result
  <2>5. ThreadServes("search", request[t], Tail(todo[t]), WithResult(raw[t], q, result))
    BY <2>1, <2>4, DoneServes
  <2>6. Moved(t, "search", request[t], Tail(todo[t]), seen[t], fresh[t],
              WithResult(raw[t], q, result), response[t])
    BY <1>1, <1>3, ServeFromCacheFits DEF result
  <2> QED
    BY <1>1, <2>5, <2>6, ServMoves
<1>4. ASSUME NEW t \in Threads, AskProcessor(t) PROVE AllServed'
  <2>1. Moved(t, "store", request[t], todo[t], storage[Key(Query(t))], fresh'[t], raw[t],
              response[t])
    BY <1>1, <1>4, AskProcessorFits
  <2>2. pc[t] = "search"
    BY <1>4 DEF AskProcessor, Searching
  <2>3. ThreadServes("store", request[t], todo[t], raw[t])
    BY <2>2 DEF AllServed, ThreadServes
  <2> QED
    BY <1>1, <2>1, <2>3, ServMoves
<1>5. ASSUME NEW t \in Threads, Store(t) PROVE AllServed'
  <2> DEFINE q == Query(t)
  <2>1. pc[t] = "store"
    BY <1>5 DEF Store
  <2>2. todo[t] # <<>> /\ HasQmarks(q)
    BY <2>1 DEF FitsInv, ThreadFits, Query
  <2>3. /\ request[t] \in Requests /\ q \in WildcardQueries /\ OptionsOf(t) \in Options
        /\ OptionsOf(t).count \in Nat /\ OptionsOf(t).maxFreq \in Nat
    BY <2>1, <2>2, SearchingFits, OptionsType DEF OptionsOf
  <2>4. fresh[t].refs = QueryProcessor(OptionsOf(t), q).refs
    BY <1>1, <2>1 DEF AllFaithful, ThreadFaithful, OptionsOf, Query
  <2>5. fresh[t].refs = ElementsAt(List(q), Wanted(List(q), OptionsOf(t)))
    BY <2>3, <2>4, AnswerIsWanted
  <2>6. Wanted(List(q), OptionsOf(t)) \in SUBSET Selected(List(q), OptionsOf(t))
    BY <2>3, ListType, WantedType
  <2>7. ThreadServes("search", request[t], Tail(todo[t]), WithResult(raw[t], q, fresh[t]))
    BY <2>1, <2>2, <2>5, <2>6, DoneServes
  <2>8. Moved(t, "search", request[t], Tail(todo[t]), None, None,
              WithResult(raw[t], q, fresh[t]), response[t])
    BY <1>1, <1>5, StoreFits
  <2> QED
    BY <1>1, <2>7, <2>8, ServMoves
<1>6. ASSUME NEW t \in Threads, LookUpPhrase(t) PROVE AllServed'
  <2> DEFINE q == Query(t)
             result == PlainResult(OptionsOf(t), q, WithText(Key(q)))
             found == WithPhrases(raw[t], result)
  <2>1. pc[t] = "search" /\ todo[t] # <<>> /\ ~ HasQmarks(q)
    BY <1>6 DEF LookUpPhrase, Searching
  <2>2. Moved(t, "search", request[t], Tail(todo[t]), seen[t], fresh[t], found, response[t])
    BY <1>1, <1>6, LookUpPhraseFits
  <2>3. /\ request[t] \in Requests /\ q \in Range(request[t].queries)
        /\ raw[t] \in RawResults /\ q \in Queries
    BY <2>1, SearchingFits
  <2>4. Gathered(Named(raw[t]), request[t], todo[t]) /\ todo[t] \in Seq(Queries)
    BY <1>1, <2>1 DEF AllServed, ThreadServes, TypeOK
  <2>5. Gathered(Named(found), request[t], Tail(todo[t]))
    BY <2>1, <2>3, <2>4, AddsPhrases DEF Query, OptionsOf
  <2> HIDE DEF found
  <2>6. ThreadServes("search", request[t], Tail(todo[t]), found)
    BY <2>5 DEF ThreadServes
  <2> QED
    BY <1>1, <2>2, <2>6, ServMoves
<1>7. ASSUME NEW t \in Threads, LookUpThrows(t) \/ Respond(t) PROVE AllServed'
  <2>1. \E reply : Moved(t, "idle", request[t], todo[t], seen[t], fresh[t], raw[t], reply)
    BY <1>1, <1>7, LookUpThrowsFits, RespondFits
  <2>2. ThreadServes("idle", request[t], todo[t], raw[t])
    BY DEF ThreadServes
  <2> QED
    BY <1>1, <2>1, <2>2, ServMoves
<1> QED
  BY <1>2, <1>3, <1>4, <1>5, <1>6, <1>7 DEF Next, Step

(* The terms of the service, which has operators of its own for the n-gram *)
(* collection.                                                             *)
LEMMA ServiceTerms ==
  /\ \A r : Service!Candidates(r) = UNION {Allowed(q, r) : q \in Range(r.queries)}
  /\ \A X : Service!Ordered(X, Service!PhraseOrder) = Ordered(X, PhraseOrder)
  /\ \A m, n : Service!Smaller(m, n) = Smaller(m, n)
  /\ Service!Vocabulary = Vocabulary
  /\ \A X : Service!Cardinality(X) = Cardinality(X)
<1>0. ASSUME NEW X PROVE Service!Cardinality(X) = Cardinality(X)
  BY DEF Service!Cardinality, Cardinality
<1>1. ASSUME NEW r
      PROVE  Service!Candidates(r) = UNION {Allowed(q, r) : q \in Range(r.queries)}
  <2>1. \A q : Service!Matches(q) = Matches(q)
    BY DEF Service!Matches, Matches
  <2>2. \A s : Service!Range(s) = Range(s)
    BY DEF Service!Range, Range
  <2> QED
    BY <2>1, <2>2 DEF Service!Candidates, Allowed
<1>2. ASSUME NEW X PROVE Service!Ordered(X, Service!PhraseOrder) = Ordered(X, PhraseOrder)
  <2>1. Service!PhraseOrder = PhraseOrder
    BY DEF Service!PhraseOrder, Service!PhraseLess, Service!IdLess, PhraseOrder, PhraseLess, IdLess
  <2> QED
    <3>1. \A x : Service!Rank(x, X, PhraseOrder) = Rank(x, X, PhraseOrder)
      BY <1>0 DEF Service!Rank, Rank
    <3>2. Service!Ordered(X, PhraseOrder) = Ordered(X, PhraseOrder)
      BY <1>0, <3>1 DEF Service!Ordered, Ordered
    <3> QED
      BY <2>1, <3>2
<1>3. \A m, n : Service!Smaller(m, n) = Smaller(m, n)
  BY DEF Service!Smaller, Smaller
<1>4. Service!Vocabulary = Vocabulary
  BY DEF Service!Vocabulary, Service!Range, Vocabulary, Range
<1> QED
  BY <1>0, <1>1, <1>2, <1>3, <1>4

(* What a thread responds when all queries are done with is a result of    *)
(* the service.                                                            *)
LEMMA ResponseIsResult ==
  ASSUME KeysDiffer, FreqsFit, NEW r \in Requests, NEW found \in RawResults,
         RawFits(found, r), Gathered(Named(found), r, <<>>)
  PROVE  [phrases |-> MergeRaw(found, r.maxPhrases), unknown |-> found.unknown \ Vocabulary]
           \in Service!Results(r)
<1> DEFINE A == Named(found)
           C == UNION {Allowed(q, r) : q \in Range(r.queries)}
           k == r.maxPhrases
           X == FirstOf(A, PhraseOrder, k)
<1>1. k \in Nat
  BY RequestType
<1>2. C \in SUBSET Phrases
  BY AllowedType
<1>3. A \in SUBSET C
  BY DEF Gathered
<1>4. \A c \in C \ A : Cardinality(AsFrequent(A, c)) >= k
  <2>1. Range(<<>>) = {}
    BY DEF Range
  <2>2. \A q \in Range(r.queries) : Covers(A, q, r)
    BY <2>1 DEF Gathered
  <2> QED
    BY <2>2 DEF Covers
<1>5. /\ X \in SUBSET C /\ Cardinality(X) = Smaller(k, Cardinality(C))
      /\ \A p \in X, c \in C \ X : Freq[c] <= Freq[p]
  <2> HIDE DEF A, C, k
  <2> QED
    BY <1>1, <1>2, <1>3, <1>4, TopOfGathered
<1>6. MergeRaw(found, k) = Ordered(X, PhraseOrder)
  BY <1>1, MergeRawIs
<1>7. Service!Candidates(r) = C
  BY ServiceTerms
<1> HIDE DEF X, C
<1>8. X \in Service!TopSets(r)
  BY <1>5, <1>7, ServiceTerms DEF Service!TopSets
<1>9. MergeRaw(found, k) \in {Service!Ordered(Y, Service!PhraseOrder) : Y \in Service!TopSets(r)}
  BY <1>6, <1>8, ServiceTerms
<1>10. found.unknown \ Vocabulary
         \in SUBSET ((UNION {Service!Range(q) : q \in Service!Range(r.queries)}) \ Service!Vocabulary)
  <2>1. ASSUME NEW u \in found.unknown PROVE \E q \in Range(r.queries) : u \in Range(q)
    <3>1. PICK q \in Range(r.queries) : u \in FitWords(q)
      BY <2>1 DEF RawFits
    <3>2. q \in Queries
      BY <3>1 DEF Queries
    <3>3. u \in Range(q)
      BY <3>1, <3>2 DEF FitWords, SameKey, KeysDiffer, WildcardQueries
    <3> QED
      BY <3>1, <3>3
  <2>2. \A s : Service!Range(s) = Range(s)
    BY DEF Service!Range, Range
  <2> QED
    BY <2>1, <2>2, ServiceTerms
<1> QED
  BY <1>9, <1>10 DEF Service!Results

(* Each step is one of the service or does not show, where no read fails   *)
(* and all requests have one limit.                                        *)
LEMMA StepImplements ==
  ASSUME KeysDiffer, FreqsFit, FitsInv, FaithInv, ServInv, Undisturbed, Undisturbed', Next,
         ~ UNCHANGED <<request, response>>
  PROVE  Service!Next
<1>1. TypeOK /\ AllFree /\ AllServed
  BY DEF FitsInv, ServInv
<1>2. /\ failures = 0 /\ workload.failures = 0
  <2>1. failures \in 0 .. workload.failures /\ workload.failures = 0
    BY <1>1 DEF TypeOK, MaxReadFailures, Undisturbed
  <2> QED
    BY <2>1
<1>3. ASSUME NEW t \in Threads, NEW r \in workload.requests, Start(t, r) PROVE Service!Next
  <2>1. r \in Requests /\ Service!Free(t)
    <3>1. r \in Requests
      BY <1>1, WorkloadType DEF TypeOK
    <3>2. pc[t] = "idle"
      BY <1>3 DEF Start
    <3>3. request[t] = None \/ response[t] # None
      BY <1>1, <3>2 DEF AllFree, ThreadFree
    <3> QED
      BY <3>1, <3>3 DEF Service!Free
  <2>2. CASE r.valid
    <3>1. Service!Accept(t, r)
      BY <1>3, <2>1, <2>2 DEF Start, Service!Accept
    <3> QED
      BY <2>1, <3>1 DEF Service!Next
  <2>3. CASE ~ r.valid
    <3>1. Service!Refuse(t, r)
      BY <1>3, <2>1, <2>3 DEF Start, Service!Refuse
    <3> QED
      BY <2>1, <3>1 DEF Service!Next
  <2> QED
    BY <2>2, <2>3
<1>4. ASSUME NEW t \in Threads, Respond(t) PROVE Service!Next
  <2>1. pc[t] = "search" /\ todo[t] = <<>> /\ UNCHANGED request
    BY <1>4 DEF Respond
  <2>2. response' = [response EXCEPT ![t] = [phrases |-> MergeRaw(raw[t], request[t].maxPhrases),
                                             unknown |-> raw[t].unknown \ Vocabulary]]
    BY <1>2, <1>4 DEF Respond, MaxReadFailures
  <2>3. request[t] \in Requests /\ RawFits(raw[t], request[t]) /\ raw[t] \in RawResults
    BY <1>1, <2>1, ThreadTypes DEF FitsInv, ThreadFits
  <2>4. Gathered(Named(raw[t]), request[t], <<>>)
    BY <1>1, <2>1 DEF AllServed, ThreadServes
  <2>5. [phrases |-> MergeRaw(raw[t], request[t].maxPhrases), unknown |-> raw[t].unknown \ Vocabulary]
          \in Service!Results(request[t])
    BY <2>3, <2>4, ResponseIsResult
  <2>6. ~ Service!Free(t)
    BY <1>1, <2>1 DEF AllFree, ThreadFree, Service!Free
  <2>7. Service!Answer(t)
    BY <2>1, <2>2, <2>5, <2>6 DEF Service!Answer
  <2> QED
    BY <2>7 DEF Service!Next
<1>5. ASSUME NEW t \in Threads,
             ServeFromCache(t) \/ AskProcessor(t) \/ Store(t) \/ LookUpPhrase(t)
      PROVE  FALSE
  BY <1>5 DEF ServeFromCache, AskProcessor, Store, LookUpPhrase
<1>6. ASSUME NEW t \in Threads, LookUpThrows(t) PROVE FALSE
  BY <1>2, <1>6 DEF LookUpThrows, MaxReadFailures
<1> QED
  BY <1>3, <1>4, <1>5, <1>6 DEF Next, Step

(* Every step keeps what the service needs.                                *)
LEMMA StepServed ==
  ASSUME AnswersFromOneList, ListsAreComplete, KeysDiffer, FreqsFit
  PROVE  FitsInv /\ FaithInv /\ ServInv /\ [Next]_vars => ServInv'
<1> SUFFICES ASSUME FitsInv, FaithInv, ServInv, [Next]_vars PROVE ServInv'
  OBVIOUS
<1>1. CASE UNCHANGED vars
  <2>1. UNCHANGED <<workload, pc, request, todo, raw, response>>
    BY <1>1 DEF vars, cacheVars
  <2> QED
    BY <2>1 DEF ServInv, AllFree, AllServed, Undisturbed, MaxReadFailures
<1>2. CASE Next
  <2>1. UNCHANGED workload /\ TypeOK /\ AllFree
    BY <1>2, StepSends DEF FitsInv, FaithInv, ServInv
  <2>2. AllFree'
    BY <1>2, <2>1, StepFree
  <2>3. ASSUME Undisturbed' PROVE AllServed'
    <3>1. Undisturbed /\ OneLimit(workload) /\ AllServed
      BY <2>1, <2>3 DEF Undisturbed, MaxReadFailures, OneLimit, ServInv
    <3>2. workload.failures = 0 /\ failures \in 0 .. 0
      BY <2>1, <3>1 DEF Undisturbed, MaxReadFailures, TypeOK
    <3>3. TypeOK'
      BY StepFits DEF FitsInv
    <3>4. failures' \in 0 .. 0
      BY <2>1, <3>2, <3>3 DEF TypeOK, MaxReadFailures
    <3> QED
      BY <1>2, <3>1, <3>2, <3>4, StepServes
  <2> QED
    BY <2>2, <2>3 DEF ServInv
<1> QED
  BY <1>1, <1>2

(* Threads that share the cache answer every request as if it were the     *)
(* only one, where no read fails and all requests have one frequency limit.*)
THEOREM SearchImplementsService ==
  ASSUME AnswersFromOneList, ListsAreComplete, KeysDiffer, FreqsFit
  PROVE  Spec => ImplementsService
<1>1. Init => Service!Init
  BY DEF Init, Service!Init
<1>2. Init => ServInv
  BY DEF Init, ServInv, AllFree, AllServed, ThreadFree, ThreadServes
<1>3. FitsInv /\ FaithInv /\ ServInv /\ [Next]_vars
        => [Service!Next]_<<IF Undisturbed THEN request ELSE [t \in Threads |-> None],
                            IF Undisturbed THEN response ELSE [t \in Threads |-> None]>>
  <2> SUFFICES ASSUME FitsInv, FaithInv, ServInv, [Next]_vars
               PROVE  [Service!Next]_<<IF Undisturbed THEN request ELSE [t \in Threads |-> None],
                                       IF Undisturbed THEN response ELSE [t \in Threads |-> None]>>
    OBVIOUS
  <2>1. CASE UNCHANGED vars
    <3>1. UNCHANGED <<workload, request, response>>
      BY <2>1 DEF vars
    <3> QED
      BY <3>1 DEF Undisturbed, MaxReadFailures
  <2>2. CASE Next
    <3>1. UNCHANGED workload
      BY <2>2, StepSends DEF FitsInv, FaithInv
    <3>2. Undisturbed' <=> Undisturbed
      BY <3>1 DEF Undisturbed, MaxReadFailures
    <3>3. CASE Undisturbed /\ ~ UNCHANGED <<request, response>>
      BY <2>2, <3>2, <3>3, StepImplements
    <3>4. CASE ~ Undisturbed \/ UNCHANGED <<request, response>>
      BY <3>2, <3>4
    <3> QED
      BY <3>3, <3>4
  <2> QED
    BY <2>1, <2>2
<1>4. Init => FitsInv /\ FaithInv /\ ServInv
  BY <1>2, InitFits, InitFaithful
<1>5. FitsInv /\ FaithInv /\ ServInv /\ [Next]_vars => (FitsInv /\ FaithInv /\ ServInv)'
  BY StepFits, StepFaithful, StepServed
<1> QED
  BY <1>1, <1>3, <1>4, <1>5, PTL DEF Spec, ImplementsService, Service!Spec

-----------------------------------------------------------------------------
(* The search with the query processor of Retrieval.                       *)

(* The search asks this processor.                                         *)
AsksTheIndex ==
  \A q \in WildcardQueries, o \in AskedOptions : QueryProcessor(o, q) = Process(o, q)

(* A wildcard query has a word: for one without there is no list to read.  *)
AsksForWords == \A q \in WildcardQueries : Units(q) # {}

(* The options that the processor is asked with have limits.               *)
LEMMA AskedOptionsType ==
  ASSUME NEW o \in AskedOptions
  PROVE  IsOptions(o)
<1>1. ASSUME NEW p \in Options PROVE p.count \in Nat /\ p.maxFreq \in Nat
  <2>1. PICK r \in Requests : p = ToOptions(r)
    BY DEF Options
  <2> QED
    BY <2>1, OptionsType
<1>2. CASE o \in Options
  BY <1>1, <1>2 DEF IsOptions
<1>3. CASE \E p \in Options, r \in Phrases : o = [p EXCEPT !.maxFreq = Freq[r]]
  <2>1. PICK p \in Options, r \in Phrases : o = [p EXCEPT !.maxFreq = Freq[r]]
    BY <1>3
  <2>2. \E r0 : p = ToOptions(r0)
    BY DEF Options
  <2>3. o.count = p.count /\ o.maxFreq = Freq[r]
    BY <2>1, <2>2 DEF ToOptions
  <2> QED
    BY <1>1, <2>3, RefType DEF IsOptions
<1>4. CASE o = Unlimited
  <2>1. Cardinality(Phrases) \in Nat /\ NoLimit \in Nat
    BY PhrasesAssumption, FS_CardinalityType, FreqAssumption
  <2> QED
    BY <1>4, <2>1 DEF Unlimited, IsOptions
<1> QED
  BY <1>2, <1>3, <1>4 DEF AskedOptions

(* So has what it is asked.                                                *)
LEMMA WildcardQueryType ==
  ASSUME NEW q \in WildcardQueries
  PROVE  q \in Queries /\ IsQuery(q)
BY QueryType DEF WildcardQueries, IsQuery

(* What the search assumes of the processor (process()): references to     *)
(* phrases that the query matches, and unknown words of the query.  This   *)
(* is the statement of ProcessAssumption, which is not used here.          *)
THEOREM ProcessorIsAsAssumed ==
  ASSUME AsksTheIndex
  PROVE  \A q \in WildcardQueries, o \in AskedOptions :
           LET answer == QueryProcessor(o, q)
           IN /\ answer \in Results
              /\ Range(answer.refs) \subseteq {RefOf(p) : p \in Matches(q)}
              /\ answer.unknown \subseteq Range(q) \ {Qmark}
<1> SUFFICES ASSUME NEW q \in WildcardQueries, NEW o \in AskedOptions
             PROVE  LET answer == Process(o, q)
                    IN /\ answer \in Results
                       /\ Range(answer.refs) \subseteq {RefOf(p) : p \in Matches(q)}
                       /\ answer.unknown \subseteq Range(q) \ {Qmark}
  BY DEF AsksTheIndex
<1> DEFINE answer == Process(o, q)
<1>1. IsOptions(o) /\ IsQuery(q)
  BY AskedOptionsType, WildcardQueryType
<1>2. answer.refs \in Seq(AllRefs) /\ Range(answer.refs) \subseteq Candidates(o, q)
  BY <1>1, ProcessSound
<1>3. answer.unknown \in SUBSET (Words \cap WordsOf(q))
  BY <1>1, ProcessOutcome
<1>4. answer = [refs |-> answer.refs, unknown |-> answer.unknown]
  BY DEF Process
<1>5. AllRefs = Refs
  BY DEF AllRefs, Refs
<1> HIDE DEF answer
<1>6. answer \in Results
  BY <1>2, <1>3, <1>4, <1>5 DEF Results
<1>7. Range(answer.refs) \subseteq {RefOf(p) : p \in Matches(q)}
  BY <1>2 DEF Candidates
<1>8. WordsOf(q) \subseteq Range(q) \ {Qmark}
  BY DEF WordsOf, Units, Range
<1> QED
  BY <1>3, <1>6, <1>7, <1>8 DEF answer

-----------------------------------------------------------------------------
(* Lists that are read as a whole.                                         *)

(* All that a query matches, in the order of the list of its most frequent *)
(* word.                                                                   *)
AllOf(q) == ElementsAt(LastList(q), PlacesOf(LastList(q), RefsOf(Matches(q))))

(* The list that the last round reads.                                     *)
LEMMA LastListType ==
  ASSUME NEW q, IsQuery(q), Units(q) # {}
  PROVE  /\ LastList(q) \in Seq(AllRefs) /\ Len(LastList(q)) <= Cardinality(Phrases)
         /\ Falling(LastList(q)) /\ Unrepeated(LastList(q))
         /\ RefsOf(Matches(q)) \subseteq Range(LastList(q))
<1> DEFINE n == Len(UnitOrder(q))
<1>1. n \in Nat /\ n # 0
  <2>1. UnitOrder(q) \in Seq(Units(q)) /\ \A i \in Units(q) : \E k \in DOMAIN UnitOrder(q) : UnitOrder(q)[k] = i
    BY UnitOrderType
  <2> QED
    BY <2>1
<1>2. n \in 1 .. n
  BY <1>1
<1> QED
  BY <1>2, UnitListType DEF LastList

(* What is in it.                                                          *)
LEMMA AllOfType ==
  ASSUME NEW q, IsQuery(q), Units(q) # {}
  PROVE  /\ AllOf(q) \in Seq(AllRefs) /\ Falling(AllOf(q)) /\ Unrepeated(AllOf(q))
         /\ Range(AllOf(q)) = RefsOf(Matches(q))
         /\ Len(AllOf(q)) <= Cardinality(Phrases)
<1> DEFINE l == LastList(q)
           M == RefsOf(Matches(q))
           I == PlacesOf(l, M)
           s == AllOf(q)
<1>1. /\ l \in Seq(AllRefs) /\ Len(l) <= Cardinality(Phrases) /\ Falling(l) /\ Unrepeated(l)
      /\ M \subseteq Range(l)
  BY LastListType
<1>2. s = ElementsAt(l, I)
  BY DEF AllOf
<1> HIDE DEF l, M, s
<1>3. I \in SUBSET (DOMAIN l) /\ {l[i] : i \in I} = M
  BY <1>1 DEF PlacesOf, Range
<1> HIDE DEF I
<1>4. s \in Seq(AllRefs) /\ Falling(s) /\ Unrepeated(s) /\ Range(s) = M
  BY <1>1, <1>2, <1>3, PartType
<1>5. Len(s) <= Cardinality(Phrases)
  <2>1. /\ IsFiniteSet(Range(s)) /\ Cardinality(Range(s)) = Len(s)
        /\ IsFiniteSet(Range(l)) /\ Cardinality(Range(l)) = Len(l)
    BY <1>1, <1>4, ElementsCount
  <2>2. Cardinality(Range(s)) <= Cardinality(Range(l))
    BY <1>1, <1>4, <2>1, FS_Subset
  <2>3. Len(s) \in Nat /\ Len(l) \in Nat /\ Cardinality(Phrases) \in Nat
    BY <1>1, <1>4, PhrasesAssumption, FS_CardinalityType
  <2> QED
    BY <1>1, <2>1, <2>2, <2>3
<1> QED
  BY <1>4, <1>5 DEF M, s

(* What the processor returns of it: the first elements within the limit.  *)
LEMMA AnswerOfWhole ==
  ASSUME Monotone, Whole, NEW o, IsOptions(o), NEW q, IsQuery(q), Units(q) # {}
  PROVE  LET s == AllOf(q)
         IN Process(o, q).refs = FirstN(ElementsAt(s, {i \in DOMAIN s : s[i].freq <= o.maxFreq}), o.count)
<1> DEFINE l == LastList(q)
           M == RefsOf(Matches(q))
           I == PlacesOf(l, M)
           s == AllOf(q)
           p == Ascending(I)
           J == {i \in DOMAIN s : s[i].freq <= o.maxFreq}
           C == Candidates(o, q)
<1>1. Process(o, q).refs = FirstN(ElementsAt(l, PlacesOf(l, C)), o.count)
  BY ProcessWhole
<1>2. l \in Seq(AllRefs) /\ s = ElementsAt(l, I)
  BY LastListType DEF AllOf
<1>3. \A c : c \in C <=> c \in M /\ c.freq <= o.maxFreq
  <2>1. \A m \in Matches(q) : RefOf(m).freq = RefFreq(m)
    BY RefType DEF Matches
  <2> QED
    BY <2>1 DEF Candidates, RefsOf
<1> HIDE DEF l, M, s, C
<1>4. I \in SUBSET (DOMAIN l) /\ PlacesOf(l, C) = {i \in I : l[i].freq <= o.maxFreq}
  BY <1>3 DEF PlacesOf
<1> HIDE DEF I
<1>5. /\ p \in Seq(I) /\ \A i \in I : \E n \in DOMAIN p : p[n] = i
      /\ s = [n \in DOMAIN p |-> l[p[n]]]
  BY <1>2, <1>4, ElementsAtPositions
<1> HIDE DEF p
<1>6. J \in SUBSET (DOMAIN s)
  OBVIOUS
<1>7. {p[j] : j \in J} = {i \in I : l[i].freq <= o.maxFreq}
  <2>1. \A n \in DOMAIN p : p[n] \in I /\ s[n] = l[p[n]] /\ DOMAIN s = DOMAIN p
    BY <1>5
  <2> QED
    BY <1>5, <2>1
<1> HIDE DEF J
<1>8. ElementsAt(s, J) = ElementsAt(l, {p[j] : j \in J})
  BY <1>2, <1>4, <1>6, ElementsAtElementsAt DEF p
<1>9. Process(o, q).refs = FirstN(ElementsAt(s, J), o.count)
  BY <1>1, <1>4, <1>7, <1>8
<1> QED
  BY <1>9 DEF s, J

(* Without limits it returns all of it.                                    *)
LEMMA UnlimitedAnswer ==
  ASSUME Monotone, Whole, NEW q, IsQuery(q), Units(q) # {}
  PROVE  Process(Unlimited, q).refs = AllOf(q)
<1> DEFINE s == AllOf(q)
           J == {i \in DOMAIN s : s[i].freq <= Unlimited.maxFreq}
<1>1. /\ Unlimited.count = Cardinality(Phrases) /\ Unlimited.maxFreq = NoLimit
      /\ IsOptions(Unlimited)
  BY AskedOptionsType DEF Unlimited, AskedOptions
<1>2. Process(Unlimited, q).refs = FirstN(ElementsAt(s, J), Cardinality(Phrases))
  BY <1>1, AnswerOfWhole
<1>3. s \in Seq(AllRefs) /\ Len(s) <= Cardinality(Phrases)
  BY AllOfType
<1>4. \A e \in AllRefs : e.freq <= NoLimit
  <2>1. ASSUME NEW p \in Phrases PROVE RefOf(p).freq <= NoLimit
    BY RefType, FreqAssumption
  <2> QED
    BY <2>1 DEF AllRefs
<1> HIDE DEF s
<1>5. J = DOMAIN s
  <2>1. \A i \in DOMAIN s : s[i] \in AllRefs
    BY <1>3
  <2>2. \A i \in DOMAIN s : s[i].freq <= Unlimited.maxFreq
    BY <1>1, <1>4, <2>1
  <2> QED
    BY <2>2
<1>6. ElementsAt(s, DOMAIN s) = s
  BY <1>3, WholePart
<1>7. FirstN(s, Cardinality(Phrases)) = s
  <2>1. Len(s) \in Nat /\ Cardinality(Phrases) \in Nat /\ Smaller(Cardinality(Phrases), Len(s)) = Len(s)
    BY <1>3, PhrasesAssumption, FS_CardinalityType DEF Smaller
  <2>2. SubSeq(s, 1, Len(s)) = s
    BY <1>3
  <2> QED
    BY <2>1, <2>2 DEF FirstN
<1> QED
  BY <1>2, <1>5, <1>6, <1>7 DEF s

(* Where every list is read from its start to its end, all answers to a    *)
(* query are parts of one list, which has all phrases that it matches:     *)
(* what is_prunable_from() and prune() rely on when they answer a request  *)
(* from the cached list of another one.                                    *)
THEOREM WholeListsAnswerAlike ==
  ASSUME AsksTheIndex, AsksForWords, Monotone, Whole
  PROVE  AnswersFromOneList /\ ListsAreComplete
<1>1. ASSUME NEW q \in WildcardQueries
      PROVE  /\ IsQuery(q) /\ Units(q) # {}
             /\ QueryProcessor(Unlimited, q) = Process(Unlimited, q)
             /\ QueryProcessor(Unlimited, q).refs = AllOf(q)
  BY WildcardQueryType, UnlimitedAnswer DEF AsksForWords, AsksTheIndex, AskedOptions
<1>2. ASSUME NEW q \in WildcardQueries, NEW i \in DOMAIN AllOf(q), NEW j \in DOMAIN AllOf(q), i < j
      PROVE  ~ Before(AllOf(q)[j], AllOf(q)[i]) /\ AllOf(q)[i] # AllOf(q)[j]
  <2>1. AllOf(q) \in Seq(AllRefs) /\ Falling(AllOf(q)) /\ Unrepeated(AllOf(q))
    BY <1>1, AllOfType
  <2>2. AllOf(q)[j].freq <= AllOf(q)[i].freq /\ AllOf(q)[i] # AllOf(q)[j]
    BY <1>2, <2>1 DEF Falling, Unrepeated
  <2>3. AllOf(q)[i].freq \in Nat /\ AllOf(q)[j].freq \in Nat
    BY <2>1, RefFreqType
  <2> QED
    BY <2>2, <2>3 DEF Before
<1>3. ASSUME NEW q \in WildcardQueries, NEW o \in Options
      PROVE  QueryProcessor(o, q).refs = Prune(QueryProcessor(Unlimited, q), o).refs
  <2>1. o \in AskedOptions /\ IsOptions(o)
    BY AskedOptionsType DEF AskedOptions
  <2>2. QueryProcessor(o, q).refs = Process(o, q).refs
    BY <2>1 DEF AsksTheIndex
  <2> DEFINE s == AllOf(q)
             part == FirstN(ElementsAt(s, {i \in DOMAIN s : s[i].freq <= o.maxFreq}), o.count)
  <2>3. Process(o, q).refs = part
    BY <1>1, <2>1, AnswerOfWhole
  <2>4. Prune(QueryProcessor(Unlimited, q), o).refs = part
    BY <1>1 DEF Prune
  <2> QED
    BY <2>2, <2>3, <2>4
<1>4. AnswersFromOneList
  BY <1>1, <1>2, <1>3 DEF AnswersFromOneList
<1>5. ListsAreComplete
  BY <1>1, AllOfType DEF ListsAreComplete, RefsOf
<1> QED
  BY <1>4, <1>5

(* The server with its index: threads that share the cache answer every    *)
(* request as if it were the only one and looked at all phrases, where no  *)
(* read fails and all requests have one frequency limit, for every         *)
(* collection whose lists are read as a whole.                             *)
THEOREM IndexedSearchImplementsService ==
  ASSUME AsksTheIndex, AsksForWords, Monotone, Whole, KeysDiffer, FreqsFit
  PROVE  Spec => ImplementsService
BY WholeListsAnswerAlike, SearchImplementsService

(* And the cache of this server is never at odds with its index.           *)
THEOREM IndexedCacheStaysFaithful ==
  ASSUME AsksTheIndex, AsksForWords, Monotone, Whole, KeysDiffer
  PROVE  Spec => []CacheFaithful
BY WholeListsAnswerAlike, CacheStaysFaithful

=============================================================================
