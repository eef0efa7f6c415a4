----------------------------- MODULE ListsProofs ----------------------------
(***************************************************************************)
(* What the listings of Lists contain, and in which order.                 *)
(***************************************************************************)
EXTENDS Lists, FiniteSetTheorems, FunctionTheorems, TLAPS

(* A member of an ordered set has fewer members before it than there are.  *)
LEMMA RankType ==
  ASSUME NEW X, IsFiniteSet(X), NEW R, StrictlyOrders(R, X), NEW x \in X
  PROVE  Rank(x, X, R) \in 0 .. Cardinality(X) - 1
<1> DEFINE below == {y \in X : <<y, x>> \in R}
<1>1. below \in SUBSET (X \ {x})
  BY DEF StrictlyOrders
<1>2. IsFiniteSet(X \ {x}) /\ Cardinality(X \ {x}) = Cardinality(X) - 1
  BY FS_RemoveElement
<1> HIDE DEF below
<1>3. IsFiniteSet(below) /\ Cardinality(below) <= Cardinality(X) - 1
  <2>1. IsFiniteSet(below) /\ Cardinality(below) <= Cardinality(X \ {x})
    BY ONLY <1>1, <1>2, FS_Subset
  <2> QED
    BY <1>2, <2>1
<1>4. Cardinality(below) \in Nat /\ Cardinality(X) \in Nat
  BY <1>3, FS_CardinalityType
<1> QED
  BY <1>3, <1>4 DEF Rank, below

(* The rank grows with the order.                                          *)
LEMMA RankMonotone ==
  ASSUME NEW X, IsFiniteSet(X), NEW R, StrictlyOrders(R, X),
         NEW x \in X, NEW y \in X, <<x, y>> \in R
  PROVE  Rank(x, X, R) < Rank(y, X, R)
<1> DEFINE below(z) == {w \in X : <<w, z>> \in R}
<1>1. below(x) \in SUBSET X /\ below(y) \in SUBSET X
  OBVIOUS
<1>2. IsFiniteSet(below(x)) /\ IsFiniteSet(below(y))
  BY <1>1, FS_Subset
<1>3. x \notin below(x)
  BY DEF StrictlyOrders
<1>4. below(x) \cup {x} \in SUBSET below(y)
  BY DEF StrictlyOrders
<1>5. Cardinality(below(x) \cup {x}) = Cardinality(below(x)) + 1
  BY <1>2, <1>3, FS_AddElement
<1>6. Cardinality(below(x) \cup {x}) <= Cardinality(below(y))
  BY <1>2, <1>4, FS_Subset
<1>7. Cardinality(below(x)) \in Nat /\ Cardinality(below(y)) \in Nat
  BY <1>2, FS_CardinalityType
<1> HIDE DEF below
<1>8. Cardinality(below(x)) < Cardinality(below(y))
  BY <1>5, <1>6, <1>7
<1> QED
  BY <1>8 DEF Rank, below

(* Members with one rank are equal.                                        *)
LEMMA RankInjective ==
  ASSUME NEW X, IsFiniteSet(X), NEW R, StrictlyOrders(R, X),
         NEW x \in X, NEW y \in X, Rank(x, X, R) = Rank(y, X, R)
  PROVE  x = y
<1> SUFFICES ASSUME x # y PROVE FALSE
  OBVIOUS
<1>1. <<x, y>> \in R \/ <<y, x>> \in R
  BY DEF StrictlyOrders
<1>2. Rank(x, X, R) < Rank(y, X, R) \/ Rank(y, X, R) < Rank(x, X, R)
  BY <1>1, RankMonotone
<1>3. Rank(x, X, R) \in Int /\ Rank(y, X, R) \in Int
  BY RankType
<1> QED
  BY <1>2, <1>3

(* Every rank below the number of members is that of a member: the ranks   *)
(* are as many as the members, and no two members share one.               *)
LEMMA RankOnto ==
  ASSUME NEW X, IsFiniteSet(X), NEW R, StrictlyOrders(R, X),
         NEW n \in 0 .. Cardinality(X) - 1
  PROVE  \E x \in X : Rank(x, X, R) = n
<1> DEFINE ranks == 0 .. Cardinality(X) - 1
           rank  == [x \in X |-> Rank(x, X, R)]
<1>1. Cardinality(X) \in Nat
  BY FS_CardinalityType
<1>2. rank \in [X -> ranks]
  BY RankType
<1>3. \A x, y \in X : rank[x] = rank[y] => x = y
  BY RankInjective
<1>4. rank \in Injection(X, ranks)
  BY <1>2, <1>3, Fun_IsInj
<1>5. IsFiniteSet(ranks) /\ Cardinality(ranks) = Cardinality(X)
  BY <1>1, FS_Interval
<1>6. rank \in Surjection(X, ranks)
  BY <1>4, <1>5, FS_Injection
<1>7. \A t \in ranks : \E x \in X : rank[x] = t
  BY <1>6 DEF Surjection
<1> QED
  BY <1>7

(* Ordered(X, R) lists the members of X, each once, in the order R.        *)
THEOREM OrderedListing ==
  ASSUME NEW X, IsFiniteSet(X), NEW R, StrictlyOrders(R, X)
  PROVE  /\ Ordered(X, R) \in Seq(X)
         /\ Len(Ordered(X, R)) = Cardinality(X)
         /\ \A x \in X : \E n \in DOMAIN Ordered(X, R) : Ordered(X, R)[n] = x
         /\ \A i, j \in DOMAIN Ordered(X, R) :
              i < j => <<Ordered(X, R)[i], Ordered(X, R)[j]>> \in R
<1> DEFINE s == Ordered(X, R)
           c == Cardinality(X)
<1>1. c \in Nat
  BY FS_CardinalityType
<1>2. ASSUME NEW n \in 1 .. c
      PROVE  s[n] \in X /\ Rank(s[n], X, R) = n - 1
  <2>1. n - 1 \in 0 .. c - 1
    BY <1>1
  <2>2. \E x \in X : Rank(x, X, R) = n - 1
    BY <2>1, RankOnto
  <2>3. s[n] = CHOOSE x \in X : Rank(x, X, R) = n - 1
    BY DEF Ordered
  <2> QED
    BY <2>2, <2>3
<1>3. s \in [1 .. c -> X]
  BY <1>2 DEF Ordered
<1>4. s \in Seq(X) /\ Len(s) = c /\ DOMAIN s = 1 .. c
  BY <1>1, <1>3
<1>5. ASSUME NEW x \in X
      PROVE  \E n \in 1 .. c : s[n] = x
  <2>1. Rank(x, X, R) + 1 \in 1 .. c
    BY <1>1, RankType
  <2>2. Rank(s[Rank(x, X, R) + 1], X, R) = Rank(x, X, R)
    BY <1>1, <1>2, <2>1, RankType
  <2>3. s[Rank(x, X, R) + 1] = x
    BY <1>2, <2>1, <2>2, RankInjective
  <2> QED
    BY <2>1, <2>3
<1>6. ASSUME NEW i \in 1 .. c, NEW j \in 1 .. c, i < j
      PROVE  <<s[i], s[j]>> \in R
  <2>0. Rank(s[i], X, R) = i - 1 /\ Rank(s[j], X, R) = j - 1
    BY <1>2
  <2>1. s[i] \in X /\ s[j] \in X /\ Rank(s[i], X, R) < Rank(s[j], X, R)
    BY <1>1, <1>2, <1>6, <2>0
  <2>2. s[i] # s[j] /\ Rank(s[i], X, R) \in Int /\ Rank(s[j], X, R) \in Int
    BY <2>1, RankType
  <2>3. <<s[j], s[i]>> \notin R
    <3> SUFFICES ASSUME <<s[j], s[i]>> \in R PROVE FALSE
      OBVIOUS
    <3>1. Rank(s[j], X, R) < Rank(s[i], X, R)
      BY <2>1, RankMonotone
    <3> QED
      BY <2>1, <2>2, <3>1
  <2> QED
    BY <2>1, <2>2, <2>3 DEF StrictlyOrders
<1> QED
  BY <1>4, <1>5, <1>6

(* ElementsAt(s, I) is a sequence of the elements of s at positions of I.  *)
LEMMA ElementsAtType ==
  ASSUME NEW S, NEW s \in Seq(S), NEW I \in SUBSET (DOMAIN s)
  PROVE  /\ ElementsAt(s, I) \in Seq(S)
         /\ \A n \in DOMAIN ElementsAt(s, I) : \E i \in I : ElementsAt(s, I)[n] = s[i]
         /\ \A i \in I : \E n \in DOMAIN ElementsAt(s, I) : ElementsAt(s, I)[n] = s[i]
<1> DEFINE less == {ij \in I \X I : ij[1] < ij[2]}
           order == Ordered(I, less)
<1>1. I \in SUBSET Nat /\ IsFiniteSet(I)
  <2>1. DOMAIN s = 1 .. Len(s) /\ Len(s) \in Nat
    OBVIOUS
  <2>2. IsFiniteSet(1 .. Len(s))
    BY <2>1, FS_Interval
  <2> QED
    BY <2>1, <2>2, FS_Subset
<1>2. StrictlyOrders(less, I)
  BY <1>1 DEF StrictlyOrders
<1>3. order \in Seq(I)
  BY <1>1, <1>2, OrderedListing
<1>9. \A i \in I : \E n \in DOMAIN order : order[n] = i
  <2> HIDE DEF less
  <2> QED
    BY <1>1, <1>2, OrderedListing
<1>4. ElementsAt(s, I) = [n \in DOMAIN order |-> s[order[n]]]
  BY DEF ElementsAt
<1> HIDE DEF order
<1>5. /\ order \in [1 .. Len(order) -> I] /\ Len(order) \in Nat
      /\ \A i \in I : s[i] \in S
  BY <1>3
<1>6. ElementsAt(s, I) \in [1 .. Len(order) -> S]
  BY <1>4, <1>5
<1>7. \A n \in DOMAIN ElementsAt(s, I) : \E i \in I : ElementsAt(s, I)[n] = s[i]
  BY <1>4, <1>5
<1>8. \A i \in I : \E n \in DOMAIN ElementsAt(s, I) : ElementsAt(s, I)[n] = s[i]
  BY <1>4, <1>9
<1> QED
  BY <1>5, <1>6, <1>7, <1>8

(* FirstN(s, n) is a prefix of s with at most n elements.                  *)
LEMMA FirstNType ==
  ASSUME NEW S, NEW s \in Seq(S), NEW n \in Nat
  PROVE  /\ FirstN(s, n) \in Seq(S)
         /\ Len(FirstN(s, n)) <= n
         /\ \A i \in DOMAIN FirstN(s, n) : i \in DOMAIN s /\ FirstN(s, n)[i] = s[i]
<1> DEFINE m == Smaller(n, Len(s))
<1>1. m \in 0 .. Len(s) /\ m <= n
  BY DEF Smaller
<1>2. FirstN(s, n) = [i \in 1 .. m |-> s[i]]
  BY <1>1 DEF FirstN
<1> QED
  BY <1>1, <1>2

-----------------------------------------------------------------------------
(* The first members of a set in an order.                                 *)

(* The k first members of X in the order R, or all of them.                *)
FirstOf(X, R, k) == {x \in X : Rank(x, X, R) < k}

(* A part of an ordered set is ordered.                                    *)
LEMMA OrderOfPart ==
  ASSUME NEW X, NEW R, StrictlyOrders(R, X), NEW Y \in SUBSET X
  PROVE  StrictlyOrders(R, Y)
BY DEF StrictlyOrders

(* In a part of a set a member has no more members before it.              *)
LEMMA RankInPart ==
  ASSUME NEW X, IsFiniteSet(X), NEW R, NEW Y \in SUBSET X, NEW x
  PROVE  Rank(x, Y, R) <= Rank(x, X, R) /\ Rank(x, Y, R) \in Nat /\ Rank(x, X, R) \in Nat
<1> DEFINE below(Z) == {y \in Z : <<y, x>> \in R}
<1>1. below(Y) \in SUBSET below(X) /\ below(X) \in SUBSET X
  OBVIOUS
<1>2. IsFiniteSet(below(X))
  BY <1>1, FS_Subset
<1>3. Cardinality(below(Y)) <= Cardinality(below(X)) /\ IsFiniteSet(below(Y))
  BY <1>1, <1>2, FS_Subset
<1>4. Cardinality(below(Y)) \in Nat /\ Cardinality(below(X)) \in Nat
  BY <1>2, <1>3, FS_CardinalityType
<1> QED
  BY <1>3, <1>4 DEF Rank

(* What is before one of the first members is one of them.                 *)
LEMMA FirstOfDown ==
  ASSUME NEW X, IsFiniteSet(X), NEW R, StrictlyOrders(R, X), NEW k \in Nat,
         NEW y \in FirstOf(X, R, k), NEW x \in X, <<x, y>> \in R
  PROVE  x \in FirstOf(X, R, k)
<1>1. Rank(x, X, R) < Rank(y, X, R)
  BY RankMonotone DEF FirstOf
<1>2. Rank(x, X, R) \in Int /\ Rank(y, X, R) \in Int
  BY RankType DEF FirstOf
<1> QED
  BY <1>1, <1>2 DEF FirstOf

(* The first members keep their ranks among themselves.                    *)
LEMMA RankInFirst ==
  ASSUME NEW X, IsFiniteSet(X), NEW R, StrictlyOrders(R, X), NEW k \in Nat,
         NEW x \in FirstOf(X, R, k)
  PROVE  Rank(x, FirstOf(X, R, k), R) = Rank(x, X, R)
<1>1. {y \in X : <<y, x>> \in R} = {y \in FirstOf(X, R, k) : <<y, x>> \in R}
  <2>1. ASSUME NEW y \in X, <<y, x>> \in R PROVE y \in FirstOf(X, R, k)
    BY <2>1, FirstOfDown
  <2> QED
    BY <2>1 DEF FirstOf
<1> QED
  BY <1>1 DEF Rank

(* There are k first members, unless the set has fewer.                    *)
LEMMA FirstOfSize ==
  ASSUME NEW X, IsFiniteSet(X), NEW R, StrictlyOrders(R, X), NEW k \in Nat
  PROVE  /\ IsFiniteSet(FirstOf(X, R, k))
         /\ FirstOf(X, R, k) \in SUBSET X
         /\ Cardinality(FirstOf(X, R, k)) = Smaller(k, Cardinality(X))
<1> DEFINE first == FirstOf(X, R, k)
           m == Smaller(k, Cardinality(X))
           rank == [x \in first |-> Rank(x, X, R)]
           ranks == 0 .. m - 1
<1>1. first \in SUBSET X
  BY DEF FirstOf
<1>2. Cardinality(X) \in Nat /\ m \in Nat
  BY FS_CardinalityType DEF Smaller
<1>3. IsFiniteSet(first)
  BY <1>1, FS_Subset
<1>4. rank \in [first -> ranks]
  <2>1. ASSUME NEW x \in first PROVE Rank(x, X, R) \in ranks
    <3>1. Rank(x, X, R) \in 0 .. Cardinality(X) - 1 /\ Rank(x, X, R) < k
      BY <1>1, RankType DEF FirstOf
    <3> QED
      BY <1>2, <3>1 DEF Smaller
  <2> QED
    BY <2>1
<1>5. \A x, y \in first : rank[x] = rank[y] => x = y
  BY <1>1, RankInjective
<1>6. \A n \in ranks : \E x \in first : rank[x] = n
  <2> SUFFICES ASSUME NEW n \in ranks PROVE \E x \in first : rank[x] = n
    OBVIOUS
  <2>1. n \in 0 .. Cardinality(X) - 1 /\ n < k
    BY <1>2 DEF Smaller
  <2>2. PICK x \in X : Rank(x, X, R) = n
    BY <2>1, RankOnto
  <2> QED
    BY <2>1, <2>2 DEF FirstOf
<1>7. rank \in Bijection(first, ranks)
  BY <1>4, <1>5, <1>6, Fun_IsBij
<1>8. Cardinality(ranks) = m
  BY <1>2, FS_Interval
<1>9. ExistsBijection(first, ranks)
  BY <1>7 DEF ExistsBijection
<1>10. Cardinality(ranks) = Cardinality(first)
  BY <1>3, <1>9, FS_Bijection
<1> QED
  BY <1>1, <1>3, <1>8, <1>10

(* The first members of a set are those of every part that has them.       *)
LEMMA FirstOfPart ==
  ASSUME NEW X, IsFiniteSet(X), NEW R, StrictlyOrders(R, X), NEW k \in Nat,
         NEW Y \in SUBSET X, FirstOf(X, R, k) \subseteq Y
  PROVE  FirstOf(Y, R, k) = FirstOf(X, R, k)
<1> DEFINE first == FirstOf(X, R, k)
<1>1. IsFiniteSet(Y)
  BY FS_Subset
<1>2. ASSUME NEW x \in first PROVE x \in FirstOf(Y, R, k)
  <2>1. Rank(x, Y, R) <= Rank(x, X, R) /\ Rank(x, Y, R) \in Nat /\ Rank(x, X, R) \in Nat
    BY RankInPart
  <2> QED
    BY <2>1 DEF FirstOf
<1>3. ASSUME NEW x \in FirstOf(Y, R, k) PROVE x \in first
  <2> SUFFICES ASSUME x \notin first PROVE FALSE
    OBVIOUS
  <2>1. x \in Y /\ x \in X /\ Rank(x, Y, R) < k
    BY <1>3 DEF FirstOf
  <2>2. Rank(x, X, R) >= k /\ Rank(x, X, R) \in 0 .. Cardinality(X) - 1
    BY <2>1, RankType DEF FirstOf
  <2>3. Cardinality(X) \in Nat /\ Cardinality(X) > k
    BY <2>2, FS_CardinalityType
  <2>4. Cardinality(first) = k
    BY <2>3, FirstOfSize DEF Smaller
  <2>5. ASSUME NEW y \in first PROVE y \in {z \in Y : <<z, x>> \in R}
    <3>1. y \in X /\ y # x
      BY DEF FirstOf
    <3>2. <<x, y>> \notin R
      BY <2>1, FirstOfDown
    <3> QED
      BY <2>1, <3>1, <3>2 DEF StrictlyOrders
  <2>6. IsFiniteSet({z \in Y : <<z, x>> \in R})
    BY <1>1, FS_Subset
  <2>7. k <= Rank(x, Y, R)
    BY <2>4, <2>5, <2>6, FS_Subset DEF Rank
  <2>8. Rank(x, Y, R) \in Nat
    BY RankInPart
  <2> QED
    BY <2>1, <2>7, <2>8
<1> QED
  BY <1>2, <1>3

(* The n-th member has n-1 members before it.                              *)
LEMMA NthMember ==
  ASSUME NEW X, IsFiniteSet(X), NEW R, StrictlyOrders(R, X), NEW n \in 1 .. Cardinality(X)
  PROVE  Ordered(X, R)[n] \in X /\ Rank(Ordered(X, R)[n], X, R) = n - 1
<1>1. Cardinality(X) \in Nat
  BY FS_CardinalityType
<1>2. n - 1 \in 0 .. Cardinality(X) - 1
  BY <1>1
<1>3. \E x \in X : Rank(x, X, R) = n - 1
  BY <1>2, RankOnto
<1>4. Ordered(X, R)[n] = CHOOSE x \in X : Rank(x, X, R) = n - 1
  BY DEF Ordered
<1> QED
  BY <1>3, <1>4

(* A member with n-1 members before it is the n-th.                        *)
LEMMA MemberOfRank ==
  ASSUME NEW X, IsFiniteSet(X), NEW R, StrictlyOrders(R, X), NEW x \in X
  PROVE  /\ Rank(x, X, R) + 1 \in 1 .. Cardinality(X)
         /\ Ordered(X, R)[Rank(x, X, R) + 1] = x
<1>1. Cardinality(X) \in Nat /\ Rank(x, X, R) \in 0 .. Cardinality(X) - 1
  BY FS_CardinalityType, RankType
<1>2. Rank(x, X, R) + 1 \in 1 .. Cardinality(X)
  BY <1>1
<1>3. /\ Ordered(X, R)[Rank(x, X, R) + 1] \in X
      /\ Rank(Ordered(X, R)[Rank(x, X, R) + 1], X, R) = Rank(x, X, R)
  BY <1>1, <1>2, NthMember
<1> QED
  BY <1>2, <1>3, RankInjective

(* A listing that visits every member in the order is the ordered one.     *)
LEMMA OrderedUnique ==
  ASSUME NEW X, IsFiniteSet(X), NEW R, StrictlyOrders(R, X), NEW s \in Seq(X),
         \A x \in X : \E i \in DOMAIN s : s[i] = x,
         \A i, j \in DOMAIN s : i < j => <<s[i], s[j]>> \in R
  PROVE  s = Ordered(X, R)
<1> DEFINE n == Len(s)
<1>1. n \in Nat /\ DOMAIN s = 1 .. n /\ s \in [1 .. n -> X]
  OBVIOUS
<1>2. \A i, j \in 1 .. n : s[i] = s[j] => i = j
  <2> SUFFICES ASSUME NEW i \in 1 .. n, NEW j \in 1 .. n, s[i] = s[j], i # j PROVE FALSE
    OBVIOUS
  <2>1. i < j \/ j < i
    BY <1>1
  <2>2. <<s[i], s[i]>> \in R /\ s[i] \in X
    BY <1>1, <2>1
  <2> QED
    BY <2>2 DEF StrictlyOrders
<1>3. s \in Bijection(1 .. n, X)
  BY <1>1, <1>2, Fun_IsBij
<1>4. IsFiniteSet(1 .. n) /\ Cardinality(1 .. n) = n
  BY <1>1, FS_Interval
<1>5. Cardinality(X) = n
  BY <1>3, <1>4, FS_Bijection DEF ExistsBijection
<1>6. ASSUME NEW i \in 1 .. n PROVE Rank(s[i], X, R) = i - 1
  <2> DEFINE below == {y \in X : <<y, s[i]>> \in R}
             part == [j \in 1 .. i - 1 |-> s[j]]
  <2>0. i \in Nat /\ i - 1 \in Nat
    BY <1>1
  <2>1. \A j \in 1 .. i - 1 : j \in 1 .. n /\ part[j] = s[j] /\ s[j] \in below
    <3> SUFFICES ASSUME NEW j \in 1 .. i - 1
                 PROVE  j \in 1 .. n /\ part[j] = s[j] /\ s[j] \in below
      OBVIOUS
    <3>1. j \in 1 .. n /\ j < i
      BY <1>1, <2>0
    <3>2. s[j] \in X /\ <<s[j], s[i]>> \in R
      BY <1>1, <3>1
    <3> QED
      BY <3>1, <3>2
  <2>2. part \in [1 .. i - 1 -> below]
    BY <2>1
  <2>3. \A j, k \in 1 .. i - 1 : part[j] = part[k] => j = k
    BY <2>1, <1>2
  <2>4. \A y \in below : \E j \in 1 .. i - 1 : part[j] = y
    <3> SUFFICES ASSUME NEW y \in below PROVE \E j \in 1 .. i - 1 : part[j] = y
      OBVIOUS
    <3>1. PICK j \in 1 .. n : s[j] = y
      BY <1>1
    <3>2. ASSUME j >= i PROVE FALSE
      <4>1. s[i] \in X /\ s[j] \in X /\ <<s[j], s[i]>> \in R
        BY <1>1, <3>1
      <4>2. CASE j = i
        BY <4>1, <4>2 DEF StrictlyOrders
      <4>3. CASE j > i
        <5>1. <<s[i], s[j]>> \in R
          BY <1>1, <4>3
        <5>2. <<s[i], s[i]>> \in R
          BY <4>1, <5>1 DEF StrictlyOrders
        <5> QED
          BY <4>1, <5>2 DEF StrictlyOrders
      <4> QED
        BY <1>1, <3>2, <4>2, <4>3
    <3>3. j \in 1 .. i - 1
      BY <1>1, <3>2
    <3> QED
      BY <3>1, <3>3
  <2>5. part \in Bijection(1 .. i - 1, below)
    BY <2>2, <2>3, <2>4, Fun_IsBij
  <2>6. IsFiniteSet(1 .. i - 1) /\ Cardinality(1 .. i - 1) = i - 1
    BY <2>0, FS_Interval
  <2>7. Cardinality(below) = i - 1
    BY <2>5, <2>6, FS_Bijection DEF ExistsBijection
  <2> QED
    BY <2>7 DEF Rank
<1>7. ASSUME NEW i \in 1 .. n PROVE s[i] = Ordered(X, R)[i]
  <2>1. s[i] \in X /\ Rank(s[i], X, R) + 1 = i
    BY <1>1, <1>6
  <2> QED
    BY <2>1, MemberOfRank
<1>8. Ordered(X, R) = [i \in 1 .. n |-> Ordered(X, R)[i]]
  BY <1>5 DEF Ordered
<1> QED
  BY <1>1, <1>7, <1>8

(* The first members in their order are a prefix of the listing.           *)
LEMMA OrderedPrefix ==
  ASSUME NEW X, IsFiniteSet(X), NEW R, StrictlyOrders(R, X), NEW k \in Nat
  PROVE  FirstN(Ordered(X, R), k) = Ordered(FirstOf(X, R, k), R)
<1> DEFINE first == FirstOf(X, R, k)
           m == Smaller(k, Cardinality(X))
           s == Ordered(X, R)
           p == FirstN(s, k)
<1>1. /\ s \in Seq(X) /\ Len(s) = Cardinality(X) /\ Cardinality(X) \in Nat
      /\ \A i, j \in DOMAIN s : i < j => <<s[i], s[j]>> \in R
  BY OrderedListing, FS_CardinalityType
<1>2. IsFiniteSet(first) /\ first \in SUBSET X
  BY FirstOfSize
<1>3. StrictlyOrders(R, first)
  BY <1>2, OrderOfPart
<1> HIDE DEF s, first
<1>4. m \in Nat /\ m <= Len(s)
  BY <1>1 DEF Smaller
<1>5. p = [i \in 1 .. m |-> s[i]]
  BY <1>1, <1>4 DEF FirstN
<1>6. ASSUME NEW i \in 1 .. m PROVE s[i] \in first
  <2>1. i \in 1 .. Cardinality(X) /\ i - 1 < k
    BY <1>1, <1>4 DEF Smaller
  <2> QED
    BY <2>1, NthMember DEF FirstOf, s, first
<1>7. p \in Seq(first) /\ DOMAIN p = 1 .. m
  BY <1>4, <1>5, <1>6
<1>8. ASSUME NEW x \in first PROVE \E i \in DOMAIN p : p[i] = x
  <2>1. x \in X /\ Rank(x, X, R) < k
    BY DEF FirstOf, first
  <2>2. /\ Rank(x, X, R) + 1 \in 1 .. Cardinality(X)
        /\ s[Rank(x, X, R) + 1] = x
    BY <2>1, MemberOfRank DEF s
  <2>3. Rank(x, X, R) \in 0 .. Cardinality(X) - 1
    BY <2>1, RankType
  <2>4. Rank(x, X, R) + 1 \in 1 .. m
    BY <1>1, <2>1, <2>2, <2>3 DEF Smaller
  <2> QED
    BY <1>5, <2>2, <2>4
<1>9. \A i, j \in DOMAIN p : i < j => <<p[i], p[j]>> \in R
  BY <1>1, <1>4, <1>5
<1>10. p = Ordered(first, R)
  BY <1>2, <1>3, <1>7, <1>8, <1>9, OrderedUnique
<1> QED
  BY <1>10 DEF s, first

(* A listing goes along with a change of names that keeps the order.       *)
LEMMA OrderedRenamed ==
  ASSUME NEW X, IsFiniteSet(X), NEW R, StrictlyOrders(R, X),
         NEW Y, NEW S, NEW h \in Bijection(X, Y),
         \A x, y \in X : <<x, y>> \in R => <<h[x], h[y]>> \in S,
         IsFiniteSet(Y), StrictlyOrders(S, Y)
  PROVE  Ordered(Y, S) = [n \in DOMAIN Ordered(X, R) |-> h[Ordered(X, R)[n]]]
<1> DEFINE s == Ordered(X, R)
           t == [n \in DOMAIN s |-> h[s[n]]]
<1>1. /\ s \in Seq(X)
      /\ \A x \in X : \E n \in DOMAIN s : s[n] = x
      /\ \A i, j \in DOMAIN s : i < j => <<s[i], s[j]>> \in R
  BY OrderedListing
<1>2. h \in [X -> Y] /\ \A y \in Y : \E x \in X : h[x] = y
  BY Fun_IsBij DEF Bijection, Surjection
<1> HIDE DEF s
<1>3. t \in Seq(Y) /\ DOMAIN t = DOMAIN s
  <2>1. Len(s) \in Nat /\ DOMAIN s = 1 .. Len(s) /\ \A n \in DOMAIN s : h[s[n]] \in Y
    BY <1>1, <1>2
  <2> QED
    BY <2>1
<1>4. \A y \in Y : \E n \in DOMAIN t : t[n] = y
  <2> SUFFICES ASSUME NEW y \in Y PROVE \E n \in DOMAIN t : t[n] = y
    OBVIOUS
  <2>1. PICK x \in X : h[x] = y
    BY <1>2
  <2>2. PICK n \in DOMAIN s : s[n] = x
    BY <1>1
  <2> QED
    BY <2>1, <2>2
<1>5. \A i, j \in DOMAIN t : i < j => <<t[i], t[j]>> \in S
  <2> SUFFICES ASSUME NEW i \in DOMAIN s, NEW j \in DOMAIN s, i < j
               PROVE  <<h[s[i]], h[s[j]]>> \in S
    BY <1>3
  <2>1. s[i] \in X /\ s[j] \in X /\ <<s[i], s[j]>> \in R
    BY <1>1
  <2> QED
    BY <2>1
<1> HIDE DEF t
<1>6. t = Ordered(Y, S)
  BY <1>3, <1>4, <1>5, OrderedUnique
<1> QED
  BY <1>6 DEF s, t

-----------------------------------------------------------------------------
(* The elements of a sequence at some of its positions.                    *)

Less == {ij \in Nat \X Nat : ij[1] < ij[2]}
Ascending(I) == Ordered(I, Less)

(* Ascending are ordered by Less.                                          *)
LEMMA LessOrders ==
  ASSUME NEW I \in SUBSET Nat
  PROVE  StrictlyOrders(Less, I)
BY DEF StrictlyOrders, Less

(* A set of positions of a sequence is a finite set of numbers.            *)
LEMMA PositionsFinite ==
  ASSUME NEW S, NEW s \in Seq(S), NEW I \in SUBSET (DOMAIN s)
  PROVE  I \in SUBSET Nat /\ IsFiniteSet(I) /\ StrictlyOrders(Less, I)
<1>1. DOMAIN s = 1 .. Len(s) /\ Len(s) \in Nat
  OBVIOUS
<1>2. IsFiniteSet(1 .. Len(s))
  BY <1>1, FS_Interval
<1>3. I \in SUBSET Nat /\ IsFiniteSet(I)
  BY <1>1, <1>2, FS_Subset
<1> QED
  BY <1>3, LessOrders

(* Of an order only the part on the members counts.                        *)
LEMMA OrderedSame ==
  ASSUME NEW X, NEW R, NEW S, \A x, y \in X : <<x, y>> \in R <=> <<x, y>> \in S
  PROVE  Ordered(X, R) = Ordered(X, S)
<1>1. \A x \in X : Rank(x, X, R) = Rank(x, X, S)
  <2> SUFFICES ASSUME NEW x \in X PROVE Rank(x, X, R) = Rank(x, X, S)
    OBVIOUS
  <2>1. {y \in X : <<y, x>> \in R} = {y \in X : <<y, x>> \in S}
    OBVIOUS
  <2> QED
    BY <2>1 DEF Rank
<1>2. ASSUME NEW n
      PROVE  (CHOOSE x \in X : Rank(x, X, R) = n - 1) = (CHOOSE x \in X : Rank(x, X, S) = n - 1)
  BY <1>1
<1> QED
  BY <1>2 DEF Ordered

(* ElementsAt lists the elements along the positions.                      *)
LEMMA ElementsAtPositions ==
  ASSUME NEW S, NEW s \in Seq(S), NEW I \in SUBSET (DOMAIN s)
  PROVE  /\ Ascending(I) \in Seq(I)
         /\ \A i \in I : \E n \in DOMAIN Ascending(I) : Ascending(I)[n] = i
         /\ \A i, j \in DOMAIN Ascending(I) : i < j => Ascending(I)[i] < Ascending(I)[j]
         /\ ElementsAt(s, I) = [n \in DOMAIN Ascending(I) |-> s[Ascending(I)[n]]]
         /\ DOMAIN ElementsAt(s, I) = DOMAIN Ascending(I)
<1> DEFINE R == {ij \in I \X I : ij[1] < ij[2]}
<1>1. I \in SUBSET Nat /\ IsFiniteSet(I) /\ StrictlyOrders(Less, I)
  BY PositionsFinite
<1>2. \A x, y \in I : <<x, y>> \in R <=> <<x, y>> \in Less
  BY <1>1 DEF Less
<1>3. Ordered(I, R) = Ascending(I)
  BY <1>2, OrderedSame DEF Ascending
<1>4. ElementsAt(s, I) = [n \in DOMAIN Ascending(I) |-> s[Ascending(I)[n]]]
  BY <1>3 DEF ElementsAt
<1>5. /\ Ascending(I) \in Seq(I)
      /\ \A i \in I : \E n \in DOMAIN Ascending(I) : Ascending(I)[n] = i
      /\ \A i, j \in DOMAIN Ascending(I) : i < j => <<Ascending(I)[i], Ascending(I)[j]>> \in Less
  BY <1>1, OrderedListing DEF Ascending
<1>6. \A i, j \in DOMAIN Ascending(I) : i < j => Ascending(I)[i] < Ascending(I)[j]
  BY <1>5 DEF Less
<1> QED
  BY <1>4, <1>5, <1>6

(* The first elements of those at some positions.                          *)
LEMMA FirstElementsAt ==
  ASSUME NEW S, NEW s \in Seq(S), NEW I \in SUBSET (DOMAIN s), NEW k \in Nat
  PROVE  FirstN(ElementsAt(s, I), k) = ElementsAt(s, FirstOf(I, Less, k))
<1> DEFINE first == FirstOf(I, Less, k)
           e == ElementsAt(s, I)
           p == Ascending(I)
           m == Smaller(k, Len(p))
<1>1. I \in SUBSET Nat /\ IsFiniteSet(I) /\ StrictlyOrders(Less, I)
  BY PositionsFinite
<1>2. p \in Seq(I) /\ e = [n \in DOMAIN p |-> s[p[n]]]
  BY ElementsAtPositions
<1>3. FirstN(p, k) = Ascending(first)
  BY <1>1, OrderedPrefix DEF Ascending
<1>4. first \in SUBSET (DOMAIN s)
  BY DEF FirstOf
<1>5. ElementsAt(s, first) = [n \in DOMAIN Ascending(first) |-> s[Ascending(first)[n]]]
  BY <1>4, ElementsAtPositions
<1> HIDE DEF p, e, first
<1>6. Len(p) \in Nat /\ DOMAIN p = 1 .. Len(p) /\ m \in Nat /\ m <= Len(p)
  BY <1>2 DEF Smaller
<1>7. FirstN(p, k) = [n \in 1 .. m |-> p[n]]
  BY <1>2, <1>6 DEF FirstN
<1>8. e \in Seq(S) /\ Len(e) = Len(p)
  <2>1. \A n \in 1 .. Len(p) : s[p[n]] \in S
    BY <1>2, <1>6
  <2>2. e \in [1 .. Len(p) -> S]
    BY <1>2, <1>6, <2>1
  <2> QED
    BY ONLY <1>6, <2>2
<1>9. FirstN(e, k) = [n \in 1 .. m |-> e[n]]
  BY <1>6, <1>8 DEF FirstN
<1>10. FirstN(e, k) = [n \in 1 .. m |-> s[p[n]]]
  BY <1>2, <1>6, <1>9
<1>11. ElementsAt(s, first) = [n \in 1 .. m |-> s[p[n]]]
  BY <1>3, <1>5, <1>6, <1>7
<1> QED
  BY <1>10, <1>11 DEF e, first

(* The elements at some of the positions of those at some positions.       *)
LEMMA ElementsAtElementsAt ==
  ASSUME NEW S, NEW s \in Seq(S), NEW I \in SUBSET (DOMAIN s),
         NEW J \in SUBSET (DOMAIN ElementsAt(s, I))
  PROVE  ElementsAt(ElementsAt(s, I), J) = ElementsAt(s, {Ascending(I)[j] : j \in J})
<1> DEFINE e == ElementsAt(s, I)
           p == Ascending(I)
           Y == {p[j] : j \in J}
           h == [j \in J |-> p[j]]
<1>1. /\ p \in Seq(I) /\ e = [n \in DOMAIN p |-> s[p[n]]] /\ DOMAIN e = DOMAIN p
      /\ \A i, j \in DOMAIN p : i < j => p[i] < p[j]
  BY ElementsAtPositions
<1>2. e \in Seq(S)
  BY ElementsAtType
<1> HIDE DEF e, p
<1>3. J \in SUBSET (DOMAIN e) /\ J \in SUBSET (DOMAIN p)
  BY <1>1 DEF e
<1>4. J \in SUBSET Nat /\ IsFiniteSet(J) /\ StrictlyOrders(Less, J)
  BY <1>2, <1>3, PositionsFinite
<1>5. Y \in SUBSET (DOMAIN s)
  BY <1>1, <1>3
<1>6. Y \in SUBSET Nat /\ IsFiniteSet(Y) /\ StrictlyOrders(Less, Y)
  BY <1>5, PositionsFinite
<1>7. h \in Bijection(J, Y)
  <2>1. h \in [J -> Y] /\ \A y \in Y : \E j \in J : h[j] = y
    OBVIOUS
  <2>2. ASSUME NEW i \in J, NEW j \in J, h[i] = h[j] PROVE i = j
    <3>1. i \in Nat /\ j \in Nat /\ p[i] = p[j] /\ p[i] \in Nat
      BY <1>3, <1>4, <1>6, <2>2
    <3>2. ~ i < j /\ ~ j < i
      <4>1. i \in DOMAIN p /\ j \in DOMAIN p
        BY <1>3
      <4>2. (i < j => p[i] < p[j]) /\ (j < i => p[j] < p[i])
        BY ONLY <1>1, <4>1
      <4> QED
        BY ONLY <3>1, <4>2
    <3> QED
      BY <3>1, <3>2
  <2> QED
    BY <2>1, <2>2, Fun_IsBij
<1>8. \A i, j \in J : <<i, j>> \in Less => <<h[i], h[j]>> \in Less
  <2> SUFFICES ASSUME NEW i \in J, NEW j \in J, <<i, j>> \in Less
               PROVE  <<h[i], h[j]>> \in Less
    OBVIOUS
  <2>1. i < j /\ i \in DOMAIN p /\ j \in DOMAIN p
    BY <1>3 DEF Less
  <2>2. p[i] < p[j]
    BY ONLY <1>1, <2>1
  <2>3. h[i] = p[i] /\ h[j] = p[j] /\ h[i] \in Nat /\ h[j] \in Nat
    BY <1>6
  <2> QED
    BY ONLY <2>2, <2>3 DEF Less
<1> HIDE DEF Y
<1>9. Ascending(Y) = [n \in DOMAIN Ascending(J) |-> h[Ascending(J)[n]]]
  BY <1>4, <1>6, <1>7, <1>8, OrderedRenamed DEF Ascending
<1>10. /\ ElementsAt(e, J) = [n \in DOMAIN Ascending(J) |-> e[Ascending(J)[n]]]
       /\ Ascending(J) \in Seq(J)
  BY <1>2, <1>3, ElementsAtPositions
<1>11. ElementsAt(s, Y) = [n \in DOMAIN Ascending(Y) |-> s[Ascending(Y)[n]]]
  BY <1>5, ElementsAtPositions
<1>12. ASSUME NEW n \in DOMAIN Ascending(J)
       PROVE  e[Ascending(J)[n]] = s[h[Ascending(J)[n]]]
  <2>1. Ascending(J)[n] \in J
    BY <1>10
  <2> QED
    BY <1>1, <1>3, <2>1
<1> HIDE DEF h
<1>13. ElementsAt(e, J) = ElementsAt(s, Y)
  BY <1>9, <1>10, <1>11, <1>12
<1> QED
  BY <1>13 DEF e, p, Y

-----------------------------------------------------------------------------
(* Numbers and recursion.                                                  *)

(* A finite set of numbers has a least one.                                *)
LEMMA LeastMember ==
  ASSUME NEW I \in SUBSET Nat, IsFiniteSet(I), I # {}
  PROVE  \E m \in I : \A x \in I : m <= x
<1> DEFINE s == Ordered(I, Less)
<1>1. /\ s \in Seq(I) /\ \A x \in I : \E n \in DOMAIN s : s[n] = x
      /\ \A i, j \in DOMAIN s : i < j => <<s[i], s[j]>> \in Less
  BY LessOrders, OrderedListing
<1> HIDE DEF s
<1>2. PICK y \in I : TRUE
  OBVIOUS
<1>3. 1 \in DOMAIN s /\ s[1] \in I
  BY <1>1, <1>2
<1>4. ASSUME NEW x \in I PROVE s[1] <= x
  <2>1. PICK n \in DOMAIN s : s[n] = x
    BY <1>1
  <2>2. n \in Nat /\ (n = 1 \/ 1 < n)
    BY <1>1
  <2>3. <<s[1], s[n]>> \in Less => s[1] < s[n]
    BY DEF Less
  <2>4. s[1] \in Nat /\ x \in Nat
    BY <1>3
  <2>5. CASE 1 < n
    BY <1>1, <1>3, <2>1, <2>3, <2>4, <2>5
  <2> QED
    BY <2>1, <2>2, <2>4, <2>5
<1> QED
  BY <1>3, <1>4

(* Induction up to a number, for a property that is given as a set.        *)
LEMMA UpTo ==
  ASSUME NEW N \in Nat, NEW T, 0 \in T, \A n \in 1 .. N : n - 1 \in T => n \in T
  PROVE  \A n \in 0 .. N : n \in T
<1> DEFINE bad == {n \in 0 .. N : n \notin T}
<1> SUFFICES ASSUME bad # {} PROVE FALSE
  OBVIOUS
<1>1. IsFiniteSet(0 .. N)
  BY FS_Interval
<1>2. IsFiniteSet(bad) /\ bad \in SUBSET Nat
  BY <1>1, FS_Subset
<1>3. PICK m \in bad : \A x \in bad : m <= x
  BY <1>2, LeastMember
<1>4. m \in 1 .. N /\ m - 1 \in 0 .. N /\ ~ m <= m - 1
  BY <1>3
<1>5. m - 1 \in T
  BY <1>3, <1>4
<1> QED
  BY <1>3, <1>4, <1>5

(* g starts with a, and the n-th step from there takes f[n].               *)
Iterable(N, S, a, f) == N \in Nat /\ a \in S /\ f \in [1 .. N -> [S -> S]]
Iterates(g, N, a, f) == g[0] = a /\ \A n \in 1 .. N : g[n] = f[n][g[n - 1]]

(* A function that is defined by recursion from 0 up to a number exists.   *)
LEMMA IterationExists ==
  ASSUME NEW N, NEW S, NEW a, NEW f, Iterable(N, S, a, f)
  PROVE  \E g \in [0 .. N -> S] : Iterates(g, N, a, f)
<1>0. N \in Nat /\ a \in S /\ f \in [1 .. N -> [S -> S]]
  BY DEF Iterable
<1> DEFINE T == {m \in 0 .. N : \E g \in [0 .. m -> S] : Iterates(g, m, a, f)}
<1>1. 0 \in T
  <2> DEFINE h == [n \in 0 .. 0 |-> a]
  <2>1. h \in [0 .. 0 -> S] /\ Iterates(h, 0, a, f)
    BY <1>0 DEF Iterates
  <2> HIDE DEF h
  <2> QED
    BY <1>0, <2>1
<1>2. ASSUME NEW m \in 1 .. N, m - 1 \in T PROVE m \in T
  <2>1. PICK g \in [0 .. m - 1 -> S] : Iterates(g, m - 1, a, f)
    BY <1>2
  <2>0. m \in Nat /\ m <= N /\ N \in Nat
    BY <1>0
  <2> DEFINE h == [n \in 0 .. m |-> IF n = m THEN f[m][g[m - 1]] ELSE g[n]]
  <2>2. g[m - 1] \in S /\ f[m] \in [S -> S]
    BY <1>0, <2>0, <2>1
  <2>3. h \in [0 .. m -> S]
    <3>1. f[m][g[m - 1]] \in S
      BY <2>2
    <3>2. ASSUME NEW n \in 0 .. m, n # m PROVE g[n] \in S
      <4>1. n \in 0 .. m - 1
        BY <2>0, <3>2
      <4> QED
        BY <2>1, <4>1
    <3> QED
      BY <3>1, <3>2
  <2>4. h[0] = a
    BY <2>0, <2>1 DEF Iterates
  <2>5. ASSUME NEW n \in 1 .. m PROVE h[n] = f[n][h[n - 1]]
    <3>1. n - 1 \in 0 .. m /\ n - 1 # m /\ n \in 0 .. m
      BY <2>0
    <3>2. CASE n = m
      BY <3>1, <3>2
    <3>3. CASE n # m
      <4>1. n \in 1 .. m - 1
        BY <2>0, <3>3
      <4> QED
        BY <2>1, <3>1, <3>3, <4>1 DEF Iterates
    <3> QED
      BY <3>2, <3>3
  <2>6. Iterates(h, m, a, f)
    BY <2>4, <2>5 DEF Iterates
  <2> HIDE DEF h
  <2> QED
    BY <1>0, <2>0, <2>3, <2>6
<1>3. N \in T
  <2> HIDE DEF T
  <2>1. \A m \in 1 .. N : m - 1 \in T => m \in T
    BY <1>2
  <2>2. \A n \in 0 .. N : n \in T
    BY <1>0, <1>1, <2>1, UpTo
  <2> QED
    BY <1>0, <2>2
<1> QED
  BY <1>3

(* The running sum is a number at every place.                             *)
LEMMA SumType ==
  ASSUME NEW S, NEW list \in Seq(S), \A e \in S : e.freq \in Nat
  PROVE  \A i \in 0 .. Len(list) : RunningSum(list)[i] \in Nat
<1> DEFINE N == Len(list)
           f == [i \in 1 .. N |-> [m \in Nat |-> m + list[i].freq]]
           sum == RunningSum(list)
           T == {i \in 0 .. N : sum[i] \in Nat}
<1>1. N \in Nat /\ \A i \in 1 .. N : list[i].freq \in Nat
  OBVIOUS
<1>2. f \in [1 .. N -> [Nat -> Nat]]
  BY <1>1
<1>3. \A i \in 1 .. N, m \in Nat : f[i][m] = m + list[i].freq
  OBVIOUS
<1> HIDE DEF f
<1>4. PICK g \in [0 .. N -> Nat] : g[0] = 0 /\ \A i \in 1 .. N : g[i] = f[i][g[i - 1]]
  <2> HIDE DEF N
  <2>1. Iterable(N, Nat, 0, f)
    BY <1>1, <1>2 DEF Iterable
  <2>2. PICK g \in [0 .. N -> Nat] : Iterates(g, N, 0, f)
    BY <2>1, IterationExists
  <2> QED
    BY <2>2 DEF Iterates
<1>5. g = [i \in 0 .. N |-> IF i = 0 THEN 0 ELSE g[i - 1] + list[i].freq]
  <2>1. \A i \in 1 .. N : i - 1 \in 0 .. N /\ g[i - 1] \in Nat
    <3> HIDE DEF N
    <3>1. \A i \in 1 .. N : i - 1 \in 0 .. N
      BY ONLY <1>1
    <3>2. g \in [0 .. N -> Nat]
      BY ONLY <1>4
    <3> QED
      BY ONLY <3>1, <3>2
  <2>2. \A i \in 1 .. N : g[i] = g[i - 1] + list[i].freq
    BY <1>3, <1>4, <2>1
  <2> HIDE DEF N
  <2>3. \A i \in 0 .. N : i = 0 \/ i \in 1 .. N
    BY <1>1
  <2>4. \A i \in 0 .. N : g[i] = IF i = 0 THEN 0 ELSE g[i - 1] + list[i].freq
    BY <1>1, <1>4, <2>2, <2>3
  <2> QED
    BY <1>4, <2>4
<1>6. sum = [i \in 0 .. N |-> IF i = 0 THEN 0 ELSE sum[i - 1] + list[i].freq]
  BY <1>5 DEF RunningSum
<1> HIDE DEF sum
<1>7. sum[0] = 0 /\ \A i \in 1 .. N : sum[i] = sum[i - 1] + list[i].freq
  BY <1>1, <1>6
<1>8. 0 \in T /\ \A i \in 1 .. N : i - 1 \in T => i \in T
  <2> HIDE DEF N
  <2>1. \A i \in 1 .. N : list[i].freq \in Nat
    BY ONLY <1>1
  <2>2. 0 \in T
    BY ONLY <1>1, <1>7
  <2>3. ASSUME NEW i \in 1 .. N, i - 1 \in T PROVE i \in T
    <3>1. sum[i] = sum[i - 1] + list[i].freq
      BY ONLY <1>7
    <3>2. sum[i - 1] \in Nat /\ list[i].freq \in Nat
      BY ONLY <2>1, <2>3
    <3>3. i \in 0 .. N
      BY ONLY <1>1
    <3> QED
      BY ONLY <3>1, <3>2, <3>3
  <2> QED
    BY ONLY <2>2, <2>3
<1>9. \A i \in 0 .. N : i \in T
  <2> HIDE DEF T, N
  <2> QED
    BY <1>1, <1>8, UpTo
<1> QED
  BY <1>9 DEF sum

-----------------------------------------------------------------------------
(* Sequences that are joined.                                              *)

(* Each element of s has a place in one of the lists with the numbers in   *)
(* X, each such place is that of one element.                              *)
ListedAt(s, place, lists, X) ==
  /\ place \in [1 .. Len(s) -> X \X Nat]
  /\ \A k \in 1 .. Len(s) :
       /\ place[k][2] \in DOMAIN lists[place[k][1]]
       /\ s[k] = lists[place[k][1]][place[k][2]]
  /\ \A l \in X : \A m \in DOMAIN lists[l] : \E k \in 1 .. Len(s) : place[k] = <<l, m>>
  /\ \A j, k \in 1 .. Len(s) : place[j] = place[k] => j = k

(* One more list is appended.                                              *)
LEMMA OneMoreListed ==
  ASSUME NEW S, NEW s \in Seq(S), NEW lists, NEW X, NEW place, ListedAt(s, place, lists, X),
         NEW l, l \notin X, lists[l] \in Seq(S)
  PROVE  \E p : ListedAt(s \o lists[l], p, lists, X \cup {l})
<1> DEFINE N == Len(s)
           t == lists[l]
           M == Len(t)
           p == [k \in 1 .. N + M |-> IF k <= N THEN place[k] ELSE <<l, k - N>>]
           u == s \o t
           Y == X \cup {l}
<1>1. /\ N \in Nat /\ M \in Nat /\ DOMAIN t = 1 .. M /\ Len(u) = N + M
      /\ \A k \in 1 .. N + M : u[k] = IF k <= N THEN s[k] ELSE t[k - N]
  OBVIOUS
<1>2. /\ place \in [1 .. N -> X \X Nat]
      /\ \A k \in 1 .. N : place[k][2] \in DOMAIN lists[place[k][1]] /\ s[k] = lists[place[k][1]][place[k][2]]
      /\ \A i \in X : \A m \in DOMAIN lists[i] : \E k \in 1 .. N : place[k] = <<i, m>>
      /\ \A j, k \in 1 .. N : place[j] = place[k] => j = k
  BY DEF ListedAt
<1> HIDE DEF N, M, t, u
<1>3. /\ \A k \in 1 .. N : k \in 1 .. N + M /\ p[k] = place[k]
      /\ \A m \in 1 .. M : N + m \in 1 .. N + M /\ p[N + m] = <<l, m>>
  BY <1>1
<1>4. ASSUME NEW k \in 1 .. N + M
      PROVE  k \in 1 .. N \/ (\E m \in 1 .. M : k = N + m)
  <2>1. k <= N \/ (k - N \in 1 .. M /\ k = N + (k - N))
    BY <1>1
  <2> QED
    BY <1>1, <2>1
<1> HIDE DEF p
<1>5. \A k \in 1 .. N : u[k] = s[k]
  BY <1>1
<1>6. \A m \in 1 .. M : u[N + m] = t[m]
  BY <1>1
<1>7. ASSUME NEW k \in 1 .. N + M
      PROVE  /\ p[k] \in Y \X Nat
             /\ p[k][2] \in DOMAIN lists[p[k][1]] /\ u[k] = lists[p[k][1]][p[k][2]]
  <2>1. CASE k \in 1 .. N
    BY <1>2, <1>3, <1>5, <2>1 DEF Y
  <2>2. ASSUME NEW m \in 1 .. M, k = N + m
        PROVE  /\ p[k] \in Y \X Nat
               /\ p[k][2] \in DOMAIN lists[p[k][1]] /\ u[k] = lists[p[k][1]][p[k][2]]
    <3>1. p[k] = <<l, m>> /\ u[k] = t[m] /\ m \in Nat /\ m \in DOMAIN t
      BY ONLY <1>1, <1>3, <1>6, <2>2
    <3>2. l \in Y
      BY DEF Y
    <3> QED
      BY <3>1, <3>2 DEF t
  <2> QED
    BY <1>4, <2>1, <2>2
<1>8. ASSUME NEW i \in Y, NEW m \in DOMAIN lists[i]
      PROVE  \E k \in 1 .. N + M : p[k] = <<i, m>>
  <2>1. CASE i = l
    BY <1>1, <1>3, <2>1 DEF t
  <2>2. CASE i \in X
    BY <1>2, <1>3, <2>2
  <2> QED
    BY <2>1, <2>2 DEF Y
<1>9. ASSUME NEW j \in 1 .. N + M, NEW k \in 1 .. N + M, p[j] = p[k] PROVE j = k
  <2>1. CASE j \in 1 .. N /\ k \in 1 .. N
    BY <1>2, <1>3, <1>9, <2>1
  <2>2. ASSUME NEW m \in 1 .. M, NEW i \in 1 .. N PROVE p[N + m] # p[i]
    <3>1. p[N + m][1] = l /\ p[i] = place[i] /\ place[i][1] \in X
      BY <1>2, <1>3
    <3> QED
      BY <3>1
  <2>3. ASSUME NEW m \in 1 .. M, NEW i \in 1 .. M, p[N + m] = p[N + i] PROVE m = i
    BY <1>3, <2>3
  <2>4. CASE \E m \in 1 .. M : j = N + m
    <3>1. PICK m \in 1 .. M : j = N + m
      BY <2>4
    <3> QED
      BY <1>4, <1>9, <2>2, <2>3, <3>1
  <2>5. CASE \E m \in 1 .. M : k = N + m
    <3>1. PICK m \in 1 .. M : k = N + m
      BY <2>5
    <3> QED
      BY <1>4, <1>9, <2>2, <2>3, <3>1
  <2> QED
    BY <1>4, <2>1, <2>4, <2>5
<1>10. p \in [1 .. N + M -> Y \X Nat]
  <2>1. p = [k \in 1 .. N + M |-> p[k]]
    BY DEF p
  <2> QED
    BY <1>7, <2>1
<1>11. ListedAt(u, p, lists, Y)
  <2> HIDE DEF Y
  <2>1. Len(u) = N + M
    BY <1>1
  <2> QED
    BY ONLY <2>1, <1>7, <1>8, <1>9, <1>10 DEF ListedAt
<1> QED
  BY <1>11 DEF u, t, Y

(* Joined lists have the elements of all lists at all their places.        *)
LEMMA JoinedPlaces ==
  ASSUME NEW S, NEW lists, DOMAIN lists \in SUBSET Nat, IsFiniteSet(DOMAIN lists),
         \A l \in DOMAIN lists : lists[l] \in Seq(S)
  PROVE  /\ Joined(lists) \in Seq(S)
         /\ \E place : ListedAt(Joined(lists), place, lists, DOMAIN lists)
<1> DEFINE X == DOMAIN lists
           order == Ordered(X, {ij \in X \X X : ij[1] < ij[2]})
           N == Len(order)
           f == [n \in 1 .. N |-> [s \in Seq(S) |-> s \o lists[order[n]]]]
           first(n) == {order[i] : i \in 1 .. n}
<1>1. /\ order \in Seq(X)
      /\ \A x \in X : \E n \in DOMAIN order : order[n] = x
      /\ \A i, j \in DOMAIN order : i < j => order[i] < order[j]
  <2>1. StrictlyOrders(Less, X) /\ \A x, y \in X : <<x, y>> \in {ij \in X \X X : ij[1] < ij[2]} <=> <<x, y>> \in Less
    BY LessOrders DEF Less
  <2>2. order = Ordered(X, Less)
    BY <2>1, OrderedSame
  <2> HIDE DEF X, order
  <2>3. /\ order \in Seq(X)
        /\ \A x \in X : \E n \in DOMAIN order : order[n] = x
        /\ \A i, j \in DOMAIN order : i < j => <<order[i], order[j]>> \in Less
    BY <2>1, <2>2, OrderedListing DEF X
  <2> QED
    BY <2>3 DEF Less
<1> HIDE DEF order
<1>2. N \in Nat /\ DOMAIN order = 1 .. N /\ \A i \in 1 .. N : order[i] \in X
  BY <1>1
<1> HIDE DEF N
<1>3. \A i \in 1 .. N : lists[order[i]] \in Seq(S)
  BY <1>2
<1>4. f \in [1 .. N -> [Seq(S) -> Seq(S)]]
  BY <1>3
<1>5. \A i \in 1 .. N, s \in Seq(S) : f[i][s] = s \o lists[order[i]]
  OBVIOUS
<1> HIDE DEF f
<1>6. PICK g \in [0 .. N -> Seq(S)] : g[0] = <<>> /\ \A i \in 1 .. N : g[i] = f[i][g[i - 1]]
  <2>1. Iterable(N, Seq(S), <<>>, f)
    BY <1>2, <1>4 DEF Iterable
  <2>2. PICK g \in [0 .. N -> Seq(S)] : Iterates(g, N, <<>>, f)
    BY <2>1, IterationExists
  <2> QED
    BY <2>2 DEF Iterates
<1>7. g = [i \in 0 .. N |-> IF i = 0 THEN <<>> ELSE g[i - 1] \o lists[order[i]]]
  <2>1. \A i \in 1 .. N : i - 1 \in 0 .. N /\ i \in 0 .. N
    BY ONLY <1>2
  <2>2. \A i \in 1 .. N : g[i] = g[i - 1] \o lists[order[i]]
    BY <1>5, <1>6, <2>1
  <2>3. \A i \in 0 .. N : i = 0 \/ i \in 1 .. N
    BY ONLY <1>2
  <2> QED
    BY <1>6, <2>2, <2>3
<1> DEFINE upTo == CHOOSE upTo : upTo = [n \in 0 .. N |-> IF n = 0 THEN <<>> ELSE upTo[n - 1] \o lists[order[n]]]
<1>8. upTo = [i \in 0 .. N |-> IF i = 0 THEN <<>> ELSE upTo[i - 1] \o lists[order[i]]]
  BY <1>7
<1>9. Joined(lists) = upTo[N]
  BY DEF Joined, order, N
<1> HIDE DEF upTo
<1>10. upTo[0] = <<>> /\ \A i \in 1 .. N : upTo[i] = upTo[i - 1] \o lists[order[i]]
  <2>1. 0 \in 0 .. N /\ \A i \in 1 .. N : i \in 0 .. N /\ i # 0
    BY ONLY <1>2
  <2> QED
    BY ONLY <1>8, <2>1
<1> DEFINE T == {n \in 0 .. N : upTo[n] \in Seq(S) /\ \E place : ListedAt(upTo[n], place, lists, first(n))}
<1>11. 0 \in T
  <2>1. first(0) = {} /\ 0 \in 0 .. N
    BY <1>2
  <2>2. ListedAt(<<>>, <<>>, lists, {})
    BY DEF ListedAt
  <2> HIDE DEF first
  <2>3. upTo[0] = <<>> /\ <<>> \in Seq(S)
    BY <1>10
  <2>4. ListedAt(upTo[0], <<>>, lists, first(0))
    BY <2>1, <2>2, <2>3
  <2> QED
    BY <2>1, <2>3, <2>4
<1>12. ASSUME NEW n \in 1 .. N, n - 1 \in T PROVE n \in T
  <2>1. PICK place : ListedAt(upTo[n - 1], place, lists, first(n - 1))
    BY <1>12
  <2>2. order[n] \notin first(n - 1)
    <3> SUFFICES ASSUME NEW i \in 1 .. n - 1, order[i] = order[n] PROVE FALSE
      OBVIOUS
    <3>1. i \in 1 .. N /\ i < n
      BY <1>2
    <3>2. order[i] < order[n] /\ order[i] \in Nat
      BY <1>1, <1>2, <3>1
    <3> QED
      BY <3>2
  <2>3. first(n) = first(n - 1) \cup {order[n]}
    <3>1. \A i \in Nat : i \in 1 .. n <=> i \in 1 .. n - 1 \/ i = n
      BY <1>2
    <3> QED
      BY <3>1
  <2>4. upTo[n - 1] \in Seq(S) /\ lists[order[n]] \in Seq(S) /\ upTo[n] = upTo[n - 1] \o lists[order[n]]
    BY <1>3, <1>10, <1>12
  <2> HIDE DEF first
  <2>5. \E p : ListedAt(upTo[n], p, lists, first(n))
    <3>1. \E p : ListedAt(upTo[n - 1] \o lists[order[n]], p, lists, first(n - 1) \cup {order[n]})
      <4> DEFINE s == upTo[n - 1]
                 l == order[n]
                 Y == first(n - 1)
      <4>1. s \in Seq(S) /\ ListedAt(s, place, lists, Y) /\ l \notin Y /\ lists[l] \in Seq(S)
        BY <2>1, <2>2, <2>4
      <4> HIDE DEF s, l, Y
      <4>2. \E p : ListedAt(s \o lists[l], p, lists, Y \cup {l})
        BY <4>1, OneMoreListed
      <4> QED
        BY <4>2 DEF s, l, Y
    <3> QED
      BY <2>3, <2>4, <3>1
  <2>6. n \in 0 .. N /\ upTo[n] \in Seq(S)
    BY <1>2, <2>4
  <2> QED
    BY <2>5, <2>6
<1>13. N \in T
  <2> HIDE DEF T
  <2>1. \A n \in 1 .. N : n - 1 \in T => n \in T
    BY <1>12
  <2>2. \A n \in 0 .. N : n \in T
    BY <1>2, <1>11, <2>1, UpTo
  <2> QED
    BY <1>2, <2>2
<1>14. first(N) = X
  BY <1>1, <1>2
<1> QED
  BY <1>9, <1>13, <1>14

=============================================================================
