-------------------------- MODULE RetrievalProofs ---------------------------
(***************************************************************************)
(* Proofs about Retrieval, for every collection of phrases and every way   *)
(* to read lists: what process() returns is right, and what it leaves out. *)
(***************************************************************************)
EXTENDS Retrieval, ListsProofs

-----------------------------------------------------------------------------
(* The lists of the index.                                                 *)

AllRefs == {RefOf(p) : p \in Phrases}
Falling(s) == \A i, j \in DOMAIN s : i < j => s[j].freq <= s[i].freq
Unrepeated(s) == \A i, j \in DOMAIN s : s[i] = s[j] => i = j

(* A reference has the number of its phrase and a frequency.               *)
LEMMA RefType ==
  ASSUME NEW p \in Phrases
  PROVE  /\ p \in (Nat \ {0}) \X Nat /\ Freq[p] \in Nat /\ Freq[p] <= NoLimit
         /\ RefOf(p).id = p[2] /\ RefOf(p).freq = RefFreq(p)
         /\ RefFreq(p) \in Nat /\ RefFreq(p) <= Freq[p]
<1>1. p \in (Nat \ {0}) \X Nat
  BY PhrasesAssumption
<1>2. Freq[p] \in Nat /\ Freq[p] <= NoLimit /\ NoLimit \in Nat
  BY FreqAssumption
<1>3. RefFreqLimit \in Nat \ {0}
  BY FreqAssumption
<1>4. Freq[p] % RefFreqLimit \in Nat /\ Freq[p] % RefFreqLimit <= Freq[p]
  BY <1>2, <1>3
<1> QED
  BY <1>1, <1>2, <1>4 DEF RefOf, RefFreq

(* Among phrases of one length a reference names one.                      *)
LEMMA RefNames ==
  ASSUME NEW p \in Phrases, NEW r \in Phrases, p[1] = r[1], RefOf(p) = RefOf(r)
  PROVE  p = r
BY RefType

(* The frequency of a reference is a number.                               *)
LEMMA RefFreqType ==
  ASSUME NEW e \in AllRefs
  PROVE  e.freq \in Nat
BY RefType DEF AllRefs

(* The list of a word has the references of its phrases, once each and by  *)
(* descending frequency.                                                   *)
LEMMA PostlistType ==
  ASSUME NEW len, NEW pos, NEW word \in Words
  PROVE  LET list == Postlist(len, pos, word)
         IN /\ list \in Seq(AllRefs) /\ Len(list) <= Cardinality(Phrases)
            /\ Range(list) = {RefOf(p) : p \in Listed(len, pos, word)}
            /\ Falling(list) /\ Unrepeated(list)
<1> DEFINE X == Listed(len, pos, word)
           R == {pr \in X \X X : ListedBefore(word, pr[1], pr[2])}
           order == Ordered(X, R)
           list == Postlist(len, pos, word)
<1>1. X \in SUBSET Phrases /\ IsFiniteSet(Phrases) /\ \A p \in X : p[1] = len
  BY PhrasesAssumption DEF Listed
<1>2. IsFiniteSet(X) /\ Cardinality(X) <= Cardinality(Phrases)
  BY <1>1, FS_Subset
<1>3. \A p, r \in X : <<p, r>> \in R <=> ListedBefore(word, p, r)
  OBVIOUS
<1> HIDE DEF X, R
<1>4. \A p \in X : RefFreq(p) \in Nat /\ Tie[word][p] \in Nat
  BY <1>1, RefType, TieAssumption
<1>5. \A p, r \in X : Tie[word][p] = Tie[word][r] => p = r
  BY <1>1, TieAssumption
<1>6. StrictlyOrders(R, X)
  BY <1>3, <1>4, <1>5 DEF StrictlyOrders, ListedBefore
<1>7. /\ order \in Seq(X) /\ Len(order) = Cardinality(X)
      /\ \A x \in X : \E n \in DOMAIN order : order[n] = x
      /\ \A i, j \in DOMAIN order : i < j => <<order[i], order[j]>> \in R
  BY <1>2, <1>6, OrderedListing
<1>8. list = [i \in DOMAIN order |-> RefOf(order[i])]
  BY DEF Postlist, X, R
<1> HIDE DEF order, list
<1>9. DOMAIN order = 1 .. Len(order) /\ Len(order) \in Nat /\ \A i \in DOMAIN order : order[i] \in X
  BY <1>7
<1>10. \A i \in DOMAIN order : RefOf(order[i]) \in AllRefs
  BY <1>1, <1>9 DEF AllRefs
<1>11. list \in Seq(AllRefs) /\ Len(list) = Len(order) /\ DOMAIN list = DOMAIN order
  BY <1>8, <1>9, <1>10
<1>12. Range(list) = {RefOf(p) : p \in X}
  BY <1>7, <1>8, <1>9, <1>11 DEF Range
<1>13. Falling(list)
  <2> SUFFICES ASSUME NEW i \in DOMAIN list, NEW j \in DOMAIN list, i < j
               PROVE  list[j].freq <= list[i].freq
    BY DEF Falling
  <2>1. order[i] \in X /\ order[j] \in X /\ ListedBefore(word, order[i], order[j])
    BY <1>3, <1>7, <1>9, <1>11
  <2>2. list[i].freq = RefFreq(order[i]) /\ list[j].freq = RefFreq(order[j])
    BY <1>1, <1>8, <1>11, <2>1, RefType
  <2> QED
    BY <1>4, <2>1, <2>2 DEF ListedBefore
<1>14. Unrepeated(list)
  <2> SUFFICES ASSUME NEW i \in DOMAIN list, NEW j \in DOMAIN list, list[i] = list[j], i # j
               PROVE  FALSE
    BY DEF Unrepeated
  <2>1. order[i] \in X /\ order[j] \in X /\ RefOf(order[i]) = RefOf(order[j])
    BY <1>8, <1>9, <1>11
  <2>2. order[i] = order[j]
    BY <1>1, <2>1, RefNames
  <2>3. i \in Nat /\ j \in Nat /\ (i < j \/ j < i)
    BY <1>9, <1>11
  <2> QED
    BY <1>6, <1>7, <1>11, <2>1, <2>2, <2>3 DEF StrictlyOrders
<1> QED
  BY <1>2, <1>7, <1>11, <1>12, <1>13, <1>14 DEF list, X

(* Each entry of the index of a list is about an element of the list.      *)
LEMMA IndexPostlistType ==
  ASSUME NEW list \in Seq(AllRefs)
  PROVE  LET index == IndexPostlist(list)
         IN /\ \E n \in Nat : DOMAIN index = 1 .. n /\ (n > 0 => IndexStep <= Len(list))
            /\ \A k \in DOMAIN index : \E i \in DOMAIN list :
                 index[k].pos = i - 1 /\ index[k].freq = list[i].freq
<1> DEFINE N == Len(list)
           n == N \div IndexStep
           sum == RunningSum(list)
           reaches(i, k) == sum[i] * n >= k * sum[N]
           first(k) == CHOOSE i \in DOMAIN list :
                         reaches(i, k) /\ \A j \in 1 .. i - 1 : ~ reaches(j, k)
           index == IndexPostlist(list)
<1>1. index = [k \in 1 .. n |-> [pos |-> first(k) - 1, freq |-> list[first(k)].freq]]
  BY DEF IndexPostlist
<1>2. N \in Nat /\ DOMAIN list = 1 .. N /\ IndexStep \in Nat \ {0}
  BY IndexAssumption
<1>3. n \in Nat /\ (N < IndexStep => n = 0)
  BY <1>2
<1>4. \A i \in 0 .. N : sum[i] \in Nat
  BY RefFreqType, SumType
<1> HIDE DEF sum, n
<1>5. ASSUME NEW k \in 1 .. n PROVE first(k) \in DOMAIN list
  <2> DEFINE I == {i \in DOMAIN list : reaches(i, k)}
  <2>1. N \in DOMAIN list /\ sum[N] \in Nat
    BY <1>2, <1>3, <1>4
  <2>2. N \in I
    BY <1>3, <2>1
  <2>3. IsFiniteSet(1 .. N)
    BY <1>2, FS_Interval
  <2>4. I \in SUBSET Nat /\ IsFiniteSet(I)
    BY <1>2, <2>3, FS_Subset
  <2>5. PICK m \in I : \A x \in I : m <= x
    BY <2>2, <2>4, LeastMember
  <2>6. m \in DOMAIN list /\ reaches(m, k) /\ \A j \in 1 .. m - 1 : ~ reaches(j, k)
    BY <1>2, <2>5
  <2> QED
    BY <2>6
<1> HIDE DEF first
<1>6. DOMAIN index = 1 .. n /\ (n > 0 => IndexStep <= Len(list))
  BY <1>1, <1>2, <1>3
<1>7. ASSUME NEW k \in DOMAIN index
      PROVE  \E i \in DOMAIN list : index[k].pos = i - 1 /\ index[k].freq = list[i].freq
  <2>1. k \in 1 .. n /\ first(k) \in DOMAIN list
    BY <1>5, <1>6
  <2>2. index[k].pos = first(k) - 1 /\ index[k].freq = list[first(k)].freq
    BY <1>1, <2>1
  <2> QED
    BY <2>1, <2>2
<1> QED
  BY <1>3, <1>6, <1>7 DEF index

(* What a list has in front of the place where it is read from is at the   *)
(* wanted frequency or above.                                              *)
LEMMA IndexBeginType ==
  ASSUME NEW list \in Seq(AllRefs), Falling(list), NEW f \in Nat
  PROVE  LET b == IndexBegin(IndexPostlist(list), f)
         IN /\ b \in 0 .. Len(list)
            /\ \A i \in 1 .. b : f <= list[i].freq
            /\ Len(list) < IndexStep => b = 0
<1> DEFINE index == IndexPostlist(list)
           low == {k \in DOMAIN index : index[k].freq <= f}
           k == CHOOSE k \in low : \A j \in low : k <= j
           b == IndexBegin(index, f)
<1>1. PICK n \in Nat : DOMAIN index = 1 .. n /\ (n > 0 => IndexStep <= Len(list))
  BY IndexPostlistType
<1>2. \A j \in DOMAIN index : \E i \in DOMAIN list :
        index[j].pos = i - 1 /\ index[j].freq = list[i].freq
  BY IndexPostlistType
<1>3. /\ DOMAIN list = 1 .. Len(list) /\ Len(list) \in Nat /\ IndexStep \in Nat
      /\ \A i \in DOMAIN list : list[i].freq \in Nat
  BY RefFreqType, IndexAssumption
<1>4. b = CASE low = {} -> 0
            [] low # {} /\ index[k].freq = f -> index[k].pos
            [] OTHER -> IF k = 1 THEN 0 ELSE index[k - 1].pos
  BY DEF IndexBegin
<1> HIDE DEF index, b, k
<1>5. CASE b = 0
  BY <1>3, <1>5 DEF b, index
<1>6. CASE b # 0
  <2>1. low # {}
    BY <1>4, <1>6
  <2>2. IsFiniteSet(1 .. n)
    BY FS_Interval
  <2>3. low \in SUBSET Nat /\ IsFiniteSet(low)
    BY <1>1, <2>2, FS_Subset
  <2>4. k \in low /\ \A j \in low : k <= j
    <3>1. \E m \in low : \A j \in low : m <= j
      BY <2>1, <2>3, LeastMember
    <3> HIDE DEF low
    <3> QED
      BY <3>1 DEF k
  <2>5. PICK j \in DOMAIN index : b = index[j].pos /\ f <= index[j].freq
    <3>1. CASE index[k].freq = f
      <4>1. k \in DOMAIN index
        BY <2>4
      <4> QED
        BY <1>3, <1>4, <2>1, <2>4, <3>1, <4>1
    <3>2. CASE index[k].freq # f
      <4>1. k # 1 /\ b = index[k - 1].pos
        BY <1>4, <1>6, <2>1, <3>2
      <4>2. k - 1 \in DOMAIN index /\ k - 1 \notin low
        BY <1>1, <2>4, <4>1
      <4>3. index[k - 1].freq \in Nat
        BY <1>2, <1>3, <4>2
      <4> QED
        BY <4>1, <4>2, <4>3
    <3> QED
      BY <3>1, <3>2
  <2>6. PICK i \in DOMAIN list : b = i - 1 /\ f <= list[i].freq
    BY <1>2, <2>5
  <2>7. b \in 0 .. Len(list)
    BY <1>3, <2>6
  <2>8. ASSUME NEW x \in 1 .. b PROVE f <= list[x].freq
    <3>1. x \in DOMAIN list /\ x < i
      BY <1>3, <2>6
    <3> QED
      BY <1>3, <2>6, <3>1 DEF Falling
  <2>9. ~ Len(list) < IndexStep
    BY <1>1, <1>3, <2>1
  <2> QED
    BY <2>7, <2>8, <2>9 DEF b, index
<1> QED
  BY <1>5, <1>6

(* A slice of a list: what it leaves out is in front of it or not more     *)
(* frequent than anything in it.                                           *)
LEMMA SliceType ==
  ASSUME NEW s \in Seq(AllRefs), Falling(s), Unrepeated(s),
         NEW a \in Nat, NEW n \in Nat, a + n <= Len(s)
  PROVE  LET t == SubSeq(s, a + 1, a + n)
         IN /\ t \in Seq(AllRefs) /\ Len(t) = n /\ Falling(t) /\ Unrepeated(t)
            /\ Range(t) \subseteq Range(s)
            /\ \A x \in Range(s) : \/ x \in Range(t)
                                   \/ \E i \in 1 .. a : x = s[i]
                                   \/ \A r \in Range(t) : x.freq <= r.freq
<1> DEFINE t == SubSeq(s, a + 1, a + n)
<1>1. /\ Len(s) \in Nat /\ DOMAIN s = 1 .. Len(s)
      /\ \A i \in DOMAIN s : s[i] \in AllRefs /\ s[i].freq \in Nat
  BY RefFreqType
<1>2. \A i \in 1 .. n : a + i \in DOMAIN s
  BY <1>1
<1>3. t = [i \in 1 .. n |-> s[a + i]]
  <2>1. (a + n) - (a + 1) + 1 = n /\ \A i \in 1 .. n : i + (a + 1) - 1 = a + i
    OBVIOUS
  <2>2. t = [i \in 1 .. (a + n) - (a + 1) + 1 |-> s[i + (a + 1) - 1]]
    OBVIOUS
  <2> QED
    BY <2>1, <2>2
<1> HIDE DEF t
<1>4. t \in Seq(AllRefs) /\ Len(t) = n /\ DOMAIN t = 1 .. n
  BY <1>1, <1>2, <1>3
<1>5. Falling(t)
  <2>1. \A i, j \in 1 .. n : i < j => a + i < a + j
    OBVIOUS
  <2> QED
    BY <1>2, <1>3, <1>4, <2>1 DEF Falling
<1>6. Unrepeated(t)
  <2> SUFFICES ASSUME NEW i \in 1 .. n, NEW j \in 1 .. n, t[i] = t[j] PROVE i = j
    BY <1>4 DEF Unrepeated
  <2>1. a + i = a + j
    BY <1>2, <1>3 DEF Unrepeated
  <2> QED
    BY <2>1
<1>7. Range(t) \subseteq Range(s)
  BY <1>2, <1>3 DEF Range
<1>8. ASSUME NEW x \in Range(s), x \notin Range(t), ~ \E i \in 1 .. a : x = s[i],
             NEW r \in Range(t)
      PROVE  x.freq <= r.freq
  <2>1. PICK k \in DOMAIN s : x = s[k]
    BY DEF Range
  <2>2. PICK j \in 1 .. n : r = s[a + j]
    BY <1>3, <1>4 DEF Range
  <2>3. k \notin 1 .. a
    BY <1>8, <2>1
  <2>4. k \notin a + 1 .. a + n
    <3> SUFFICES ASSUME k \in a + 1 .. a + n PROVE FALSE
      OBVIOUS
    <3>1. k - a \in 1 .. n /\ a + (k - a) = k
      BY <1>1
    <3>2. t[k - a] = x
      BY <1>3, <2>1, <3>1
    <3> QED
      BY <1>4, <1>8, <3>1, <3>2 DEF Range
  <2>5. a + j \in DOMAIN s /\ a + j < k
    BY <1>1, <1>2, <2>1, <2>3, <2>4
  <2> QED
    BY <2>1, <2>2, <2>5 DEF Falling
<1>9. \A x \in Range(s) : \/ x \in Range(t)
                          \/ \E i \in 1 .. a : x = s[i]
                          \/ \A r \in Range(t) : x.freq <= r.freq
  BY <1>8
<1> QED
  BY <1>4, <1>5, <1>6, <1>7, <1>9 DEF t

(* The part of a list that is read.                                        *)
LEMMA WindowType ==
  ASSUME NEW list \in Seq(AllRefs), Falling(list), Unrepeated(list),
         NEW f \in Nat, NEW pruning \in Nat
  PROVE  LET read == Window(list, f, pruning)
         IN /\ read \in Seq(AllRefs) /\ Falling(read) /\ Unrepeated(read)
            /\ Range(read) \subseteq Range(list)
            /\ \A x \in Range(list) : \/ x \in Range(read)
                                      \/ f <= x.freq
                                      \/ \A r \in Range(read) : x.freq <= r.freq
            /\ Len(list) < IndexStep =>
                 \A x \in Range(list) : \/ x \in Range(read)
                                        \/ \A r \in Range(read) : x.freq <= r.freq
            /\ Len(list) < IndexStep /\ Len(list) <= pruning => read = list
<1> DEFINE b == IndexBegin(IndexPostlist(list), f)
           n == Smaller(b + pruning, Len(list)) - b
           read == SubSeq(list, b + 1, b + n)
<1>1. Len(list) \in Nat
  OBVIOUS
<1>2. /\ b \in 0 .. Len(list) /\ \A i \in 1 .. b : f <= list[i].freq
      /\ Len(list) < IndexStep => b = 0
  BY IndexBeginType
<1>3. Window(list, f, pruning) = SubSeq(list, b + 1, Smaller(b + pruning, Len(list)))
  BY DEF Window
<1> HIDE DEF b
<1>4. b \in Nat /\ n \in Nat /\ b + n = Smaller(b + pruning, Len(list)) /\ b + n <= Len(list)
  BY <1>1, <1>2 DEF Smaller
<1>5. Window(list, f, pruning) = read
  BY <1>3, <1>4
<1>6. Len(list) < IndexStep /\ Len(list) <= pruning => b = 0 /\ n = Len(list)
  BY <1>1, <1>2 DEF Smaller
<1> HIDE DEF n
<1>7. /\ read \in Seq(AllRefs) /\ Falling(read) /\ Unrepeated(read)
      /\ Range(read) \subseteq Range(list)
      /\ \A x \in Range(list) : \/ x \in Range(read)
                                \/ \E i \in 1 .. b : x = list[i]
                                \/ \A r \in Range(read) : x.freq <= r.freq
  BY <1>4, SliceType
<1>8. b = 0 /\ n = Len(list) => read = list
  <2> SUFFICES ASSUME b = 0, n = Len(list) PROVE read = list
    OBVIOUS
  <2>1. read = SubSeq(list, 1, Len(list))
    BY <1>1
  <2> QED
    BY <2>1
<1> HIDE DEF read
<1>9. ASSUME NEW x \in Range(list), NEW i \in 1 .. b, x = list[i]
      PROVE  f <= x.freq /\ ~ Len(list) < IndexStep
  BY <1>2, <1>9
<1> QED
  BY <1>5, <1>6, <1>7, <1>8, <1>9

(* The elements of a list at some positions, and the first of them.        *)
LEMMA PartType ==
  ASSUME NEW s \in Seq(AllRefs), Falling(s), Unrepeated(s), NEW I \in SUBSET (DOMAIN s)
  PROVE  LET t == ElementsAt(s, I)
         IN /\ t \in Seq(AllRefs) /\ Falling(t) /\ Unrepeated(t)
            /\ Range(t) = {s[i] : i \in I}
<1> DEFINE t == ElementsAt(s, I)
           p == Ascending(I)
<1>1. /\ p \in Seq(I) /\ DOMAIN t = DOMAIN p /\ t = [n \in DOMAIN p |-> s[p[n]]]
      /\ \A i \in I : \E n \in DOMAIN p : p[n] = i
      /\ \A i, j \in DOMAIN p : i < j => p[i] < p[j]
  BY ElementsAtPositions
<1> HIDE DEF t, p
<1>2. DOMAIN p = 1 .. Len(p) /\ Len(p) \in Nat /\ \A n \in DOMAIN p : p[n] \in I
  BY <1>1
<1>3. \A i \in DOMAIN s : s[i] \in AllRefs
  OBVIOUS
<1>4. t \in Seq(AllRefs)
  <2>1. \A n \in 1 .. Len(p) : s[p[n]] \in AllRefs
    BY <1>2, <1>3
  <2>2. t = [n \in 1 .. Len(p) |-> s[p[n]]]
    BY <1>1, <1>2
  <2> QED
    BY <1>2, <2>1, <2>2
<1>5. Falling(t)
  BY <1>1, <1>2 DEF Falling
<1>6. Unrepeated(t)
  <2> SUFFICES ASSUME NEW i \in DOMAIN p, NEW j \in DOMAIN p, t[i] = t[j], i # j PROVE FALSE
    BY <1>1 DEF Unrepeated
  <2>1. p[i] = p[j] /\ p[i] \in Nat
    BY <1>1, <1>2 DEF Unrepeated
  <2>2. i < j \/ j < i
    BY <1>2
  <2> QED
    BY <1>1, <2>1, <2>2
<1>7. Range(t) = {s[i] : i \in I}
  BY <1>1, <1>2 DEF Range
<1> QED
  BY <1>4, <1>5, <1>6, <1>7 DEF t

(* The first elements of a list are those that are most frequent.          *)
LEMMA FirstType ==
  ASSUME NEW s \in Seq(AllRefs), Falling(s), Unrepeated(s), NEW k \in Nat
  PROVE  LET t == FirstN(s, k)
         IN /\ t \in Seq(AllRefs) /\ Falling(t) /\ Unrepeated(t) /\ Len(t) = Smaller(k, Len(s))
            /\ Range(t) \subseteq Range(s)
            /\ \A x \in Range(s) : \/ x \in Range(t)
                                   \/ \A r \in Range(t) : x.freq <= r.freq
<1> DEFINE n == Smaller(k, Len(s))
<1>1. n \in Nat /\ 0 + n <= Len(s) /\ 0 + 1 = 1 /\ 0 + n = n
  BY DEF Smaller
<1>2. FirstN(s, k) = SubSeq(s, 0 + 1, 0 + n)
  BY <1>1 DEF FirstN
<1> HIDE DEF n
<1> DEFINE t == SubSeq(s, 0 + 1, 0 + n)
<1>3. /\ t \in Seq(AllRefs) /\ Len(t) = n /\ Falling(t) /\ Unrepeated(t)
      /\ Range(t) \subseteq Range(s)
      /\ \A x \in Range(s) : \/ x \in Range(t)
                             \/ \E i \in 1 .. 0 : x = s[i]
                             \/ \A r \in Range(t) : x.freq <= r.freq
  BY <1>1, SliceType
<1> HIDE DEF t
<1>4. ~ \E i \in 1 .. 0 : TRUE
  OBVIOUS
<1>5. FirstN(s, k) = t
  BY <1>2 DEF t
<1> QED
  BY <1>3, <1>4, <1>5 DEF n

(* A list without repetitions is as long as the set of its elements.       *)
LEMMA ElementsCount ==
  ASSUME NEW s \in Seq(AllRefs), Unrepeated(s)
  PROVE  IsFiniteSet(Range(s)) /\ Cardinality(Range(s)) = Len(s)
<1>1. DOMAIN s = 1 .. Len(s) /\ Len(s) \in Nat
  OBVIOUS
<1>2. IsFiniteSet(1 .. Len(s)) /\ Cardinality(1 .. Len(s)) = Len(s)
  BY <1>1, FS_Interval
<1>3. s \in Bijection(1 .. Len(s), Range(s))
  BY <1>1 DEF Bijection, Injection, Surjection, IsInjective, Range, Unrepeated
<1>4. ExistsBijection(1 .. Len(s), Range(s))
  BY <1>3 DEF ExistsBijection
<1> QED
  BY <1>2, <1>4, FS_Bijection

-----------------------------------------------------------------------------
(* One round.                                                              *)

(* Is the list of a word read from an entry of its index, and is it read   *)
(* to the end?                                                             *)
Indexed == IndexStep <= Cardinality(Phrases)
Pruned == PruningLow < Cardinality(Phrases) \/ PruningHigh < Cardinality(Phrases)
Whole == ~ Indexed /\ ~ Pruned

(* What a round takes from a list: B is the set to intersect.              *)
Hits(list, limit, pruning, B) ==
  LET read == Window(list, limit, pruning)
  IN ElementsAt(read, {i \in DOMAIN read : read[i].freq <= limit /\ read[i] \in B})

(* Where those hits are if the list is read as a whole.                    *)
PlacesOf(list, S) == {i \in DOMAIN list : list[i] \in S}
Places(list, limit, B) == {i \in DOMAIN list : list[i].freq <= limit /\ list[i] \in B}

Above(c, S) == \A r \in S : r.freq <= c.freq
Below(c, S) == \A r \in S : c.freq <= r.freq
Bounded(S, limit) == \A c \in S : c.freq <= limit

(* What S lacks of C is above or below all of S, below if lists are read   *)
(* from the start, and it lacks nothing if they are also read to the end.  *)
Spans(S, C) ==
  /\ \A c \in C \ S : Above(c, S) \/ Below(c, S)
  /\ ~ Indexed => \A c \in C \ S : Below(c, S)
  /\ Whole => C \subseteq S

(* The type of what a round takes.                                         *)
LEMMA HitsType ==
  ASSUME NEW list \in Seq(AllRefs), Falling(list), Unrepeated(list),
         NEW l \in Nat, NEW pruning \in Nat, NEW B
  PROVE  LET hits == Hits(list, l, pruning, B)
         IN /\ hits \in Seq(AllRefs) /\ Falling(hits) /\ Unrepeated(hits)
            /\ Range(hits) = {e \in Range(Window(list, l, pruning)) :
                                   e.freq <= l /\ e \in B}
            /\ Range(hits) \subseteq Range(list)
<1> DEFINE read == Window(list, l, pruning)
           I == {i \in DOMAIN read : read[i].freq <= l /\ read[i] \in B}
           hits == ElementsAt(read, I)
<1>1. /\ read \in Seq(AllRefs) /\ Falling(read) /\ Unrepeated(read)
      /\ Range(read) \subseteq Range(list)
  BY WindowType
<1>2. Hits(list, l, pruning, B) = hits
  BY DEF Hits
<1> HIDE DEF read
<1>3. I \in SUBSET (DOMAIN read)
  OBVIOUS
<1>4. {read[i] : i \in I} = {e \in Range(read) : e.freq <= l /\ e \in B}
  BY DEF Range
<1> HIDE DEF I
<1>5. /\ hits \in Seq(AllRefs) /\ Falling(hits) /\ Unrepeated(hits)
      /\ Range(hits) = {read[i] : i \in I}
  BY <1>1, <1>3, PartType
<1> HIDE DEF hits
<1> QED
  BY <1>1, <1>2, <1>4, <1>5 DEF read

(* A round loses of C only what is just at the limit, or is less frequent  *)
(* than everything that it takes.                                          *)
LEMMA HitsCover ==
  ASSUME NEW list \in Seq(AllRefs), Falling(list), Unrepeated(list),
         Len(list) <= Cardinality(Phrases), NEW l \in Nat,
         NEW pruning \in {PruningLow, PruningHigh}, NEW B, NEW C \in SUBSET Range(list),
         Spans(B, C), Bounded(C \cap B, l)
  PROVE  LET hits == Hits(list, l, pruning, B)
         IN /\ Spans(Range(hits), C)
            /\ \A c \in (C \cap B) \ Range(hits) : c.freq = l \/ Below(c, Range(hits))
            /\ Whole => hits = ElementsAt(list, Places(list, l, B))
<1> DEFINE read == Window(list, l, pruning)
           hits == Hits(list, l, pruning, B)
           H == Range(hits)
<1>1. pruning \in Nat /\ IndexStep \in Nat /\ Len(list) \in Nat
  BY IndexAssumption
<1>2. Cardinality(Phrases) \in Nat
  BY PhrasesAssumption, FS_CardinalityType
<1>3. /\ ~ Indexed => Len(list) < IndexStep
      /\ Whole => Len(list) < IndexStep /\ Len(list) <= pruning
  BY <1>1, <1>2, IndexAssumption DEF Whole, Indexed, Pruned
<1>4. /\ \A x \in Range(list) : \/ x \in Range(read)
                                \/ l <= x.freq
                                \/ \A r \in Range(read) : x.freq <= r.freq
      /\ Len(list) < IndexStep =>
           \A x \in Range(list) : \/ x \in Range(read)
                                  \/ \A r \in Range(read) : x.freq <= r.freq
      /\ Len(list) < IndexStep /\ Len(list) <= pruning => read = list
  BY <1>1, WindowType
<1>5. H = {e \in Range(read) : e.freq <= l /\ e \in B} /\ H \subseteq Range(list)
  BY <1>1, HitsType
<1>6. \A x \in Range(list) : x.freq \in Nat
  BY RefFreqType DEF Range
<1>7. Whole => hits = ElementsAt(list, Places(list, l, B))
  BY <1>3, <1>4 DEF Hits, Places
<1> HIDE DEF read, hits, H
<1>8. ASSUME NEW c \in (C \cap B) \ H
      PROVE  /\ c.freq = l \/ Below(c, H)
             /\ ~ Indexed => Below(c, H)
             /\ ~ Whole
  <2>1. c \in Range(list) /\ c \notin Range(read) /\ c.freq <= l /\ c.freq \in Nat
    BY <1>5, <1>6 DEF Bounded
  <2>2. l <= c.freq => c.freq = l
    BY <2>1
  <2>3. (\A r \in Range(read) : c.freq <= r.freq) => Below(c, H)
    BY <1>5 DEF Below
  <2> QED
    BY <1>3, <1>4, <2>1, <2>2, <2>3
<1>9. ASSUME NEW c \in C \ H
      PROVE  /\ Above(c, H) \/ Below(c, H)
             /\ ~ Indexed => Below(c, H)
             /\ ~ Whole
  <2>1. CASE c \in B
    <3>1. c.freq = l => Above(c, H)
      BY <1>5 DEF Above
    <3> QED
      BY <1>8, <2>1, <3>1
  <2>2. CASE c \notin B
    <3>1. Above(c, B) => Above(c, H)
      BY <1>5 DEF Above
    <3>2. Below(c, B) => Below(c, H)
      BY <1>5 DEF Below
    <3> QED
      BY <2>2, <3>1, <3>2 DEF Spans
  <2> QED
    BY <2>1, <2>2
<1>10. Spans(H, C)
  BY <1>9 DEF Spans
<1> QED
  BY <1>7, <1>8, <1>10 DEF H, hits

-----------------------------------------------------------------------------
(* The words of a query and its jump-in frequency.                         *)

Units(q) == {i \in DOMAIN q : q[i] # Qmark}
WordsOf(q) == {q[i] : i \in Units(q)}

(* A wildcard query or any other.                                          *)
IsQuery(q) == q \in Seq(Words \cup {Qmark})

(* A frequency in the phrase dictionary is one of a phrase.                *)
LEMMA DictFreqType ==
  ASSUME NEW words
  PROVE  \A f \in DictFreq(words) : f \in Nat /\ \E p \in Phrases : Text[p] = words /\ Freq[p] = f
BY RefType DEF DictFreq, WithText

(* The frequency of a word is a number.                                    *)
LEMMA UnitFreqType ==
  ASSUME NEW word
  PROVE  UnitFreq(word) \in Nat
<1>1. CASE DictFreq(<<word>>) = {}
  BY <1>1 DEF UnitFreq
<1>2. CASE DictFreq(<<word>>) # {}
  <2>1. UnitFreq(word) \in DictFreq(<<word>>)
    BY <1>2 DEF UnitFreq
  <2> QED
    BY <2>1, DictFreqType
<1> QED
  BY <1>1, <1>2

(* The words are ordered: each of their positions comes once.              *)
LEMMA UnitOrderType ==
  ASSUME NEW q, IsQuery(q)
  PROVE  /\ UnitOrder(q) \in Seq(Units(q)) /\ Len(UnitOrder(q)) = Cardinality(Units(q))
         /\ Len(UnitOrder(q)) <= Len(q) /\ Len(q) \in Nat /\ DOMAIN q = 1 .. Len(q)
         /\ \A i \in Units(q) : \E n \in DOMAIN UnitOrder(q) : UnitOrder(q)[n] = i
         /\ \A i \in Units(q) : i \in DOMAIN q /\ q[i] \in Words
<1> DEFINE U == Units(q)
           before(i, j) == \/ UnitFreq(q[i]) < UnitFreq(q[j])
                           \/ UnitFreq(q[i]) = UnitFreq(q[j]) /\ i < j
           R == {ij \in U \X U : before(ij[1], ij[2])}
<1>1. Len(q) \in Nat /\ DOMAIN q = 1 .. Len(q) /\ \A i \in DOMAIN q : q[i] \in Words \cup {Qmark}
  BY DEF IsQuery
<1>2. \A i \in U : i \in DOMAIN q /\ i \in Nat /\ q[i] \in Words /\ UnitFreq(q[i]) \in Nat
  BY <1>1, UnitFreqType DEF Units
<1>3. IsFiniteSet(U) /\ Cardinality(U) <= Len(q)
  <2>1. IsFiniteSet(1 .. Len(q)) /\ Cardinality(1 .. Len(q)) = Len(q)
    BY <1>1, FS_Interval
  <2>2. U \in SUBSET (1 .. Len(q))
    BY <1>1 DEF Units
  <2> QED
    BY <2>1, <2>2, FS_Subset
<1>4. \A i, j \in U : <<i, j>> \in R <=> before(i, j)
  OBVIOUS
<1>5. UnitOrder(q) = Ordered(U, R)
  BY DEF UnitOrder, Units
<1> HIDE DEF U, R
<1>6. StrictlyOrders(R, U)
  BY <1>2, <1>4 DEF StrictlyOrders
<1>7. /\ Ordered(U, R) \in Seq(U) /\ Len(Ordered(U, R)) = Cardinality(U)
      /\ \A x \in U : \E n \in DOMAIN Ordered(U, R) : Ordered(U, R)[n] = x
  BY <1>3, <1>6, OrderedListing
<1> QED
  BY <1>1, <1>2, <1>3, <1>5, <1>7 DEF U

(* No phrase is more frequent than a part of it.                           *)
Monotone ==
  \A p, part \in Phrases :
    (\E i \in 0 .. p[1] - part[1] :
       \A j \in 1 .. part[1] : Text[part][j] = Text[p][i + j]) => Freq[p] <= Freq[part]

(* What a longest run of words of the query says of a phrase that matches. *)
LEMMA PartOfMatch ==
  ASSUME Monotone, NEW q, IsQuery(q), NEW p \in Matches(q), NEW words \in LongestSubstrings(q),
         NEW part \in WithText(words)
  PROVE  Freq[p] <= Freq[part]
<1>1. PICK a, b \in DOMAIN q : /\ a <= b /\ words = SubSeq(q, a, b)
                               /\ \A n \in a .. b : q[n] # Qmark
  BY DEF LongestSubstrings
<1>2. /\ p \in Phrases /\ Len(Text[p]) = Len(q) /\ part \in Phrases /\ Text[part] = words
      /\ \A i \in DOMAIN q : q[i] \in {Qmark, Text[p][i]}
  BY DEF Matches, WithText
<1>3. p[1] = Len(q) /\ part[1] = Len(words)
  BY <1>2, PhrasesAssumption
<1>4. Len(q) \in Nat /\ DOMAIN q = 1 .. Len(q) /\ a \in Nat /\ b \in Nat
  BY <1>1 DEF IsQuery
<1>5. words = [i \in 1 .. b - a + 1 |-> q[i + a - 1]]
  <2>1. words = [i \in 1 .. b - a + 1 |-> q[i + a - 1]]
    BY <1>1, <1>4 DEF IsQuery
  <2> QED
    BY <2>1
<1>6. Len(words) = b - a + 1
  BY <1>1, <1>4, <1>5
<1>7. a - 1 \in 0 .. p[1] - part[1]
  BY <1>1, <1>3, <1>4, <1>6
<1>8. ASSUME NEW j \in 1 .. part[1] PROVE Text[part][j] = Text[p][(a - 1) + j]
  <2>1. j \in 1 .. b - a + 1 /\ (a - 1) + j = j + a - 1 /\ j + a - 1 \in a .. b
    BY <1>3, <1>4, <1>6
  <2>2. j + a - 1 \in DOMAIN q
    BY <1>1, <1>4, <2>1
  <2>3. Text[part][j] = q[j + a - 1]
    BY <1>2, <1>5, <2>1
  <2>4. q[j + a - 1] = Text[p][j + a - 1]
    BY <1>1, <1>2, <2>1, <2>2
  <2> QED
    BY <2>1, <2>3, <2>4
<1> QED
  BY <1>2, <1>7, <1>8 DEF Monotone

(* The jump-in frequency is a number that no match exceeds, in collections *)
(* where none is more frequent than a part of it.                          *)
LEMMA JumpinType ==
  ASSUME NEW q, IsQuery(q)
  PROVE  /\ JumpinFreq(q) \in Nat
         /\ Monotone => \A p \in Matches(q) : RefFreq(p) <= JumpinFreq(q)
<1> DEFINE freqs == UNION {DictFreq(s) : s \in LongestSubstrings(q)}
           least == CHOOSE f \in freqs : \A g \in freqs : f <= g
<1>1. JumpinFreq(q) = IF freqs = {} THEN NoLimit ELSE least
  BY DEF JumpinFreq
<1>2. \A p \in Matches(q) : p \in Phrases /\ RefFreq(p) \in Nat /\ Freq[p] \in Nat
                            /\ RefFreq(p) <= Freq[p] /\ Freq[p] <= NoLimit
  BY RefType DEF Matches
<1>3. \A f \in freqs : f \in Nat /\ \E p \in Phrases : Freq[p] = f
  BY DictFreqType
<1>4. ASSUME Monotone, NEW f \in freqs, NEW p \in Matches(q) PROVE Freq[p] <= f
  <2>1. PICK s \in LongestSubstrings(q) : f \in DictFreq(s)
    OBVIOUS
  <2>2. PICK part \in WithText(s) : f = Freq[part]
    BY <2>1 DEF DictFreq
  <2> QED
    BY <1>4, <2>2, PartOfMatch
<1> HIDE DEF freqs, least
<1>5. CASE freqs = {}
  BY <1>1, <1>2, <1>5, FreqAssumption
<1>6. CASE freqs # {}
  <2>1. freqs \in SUBSET {Freq[p] : p \in Phrases}
    BY <1>3
  <2>2. IsFiniteSet({Freq[p] : p \in Phrases})
    <3> DEFINE T == {Freq[p] : p \in Phrases}
    <3>1. Freq \in Surjection(Phrases, T)
      BY FreqAssumption DEF Surjection
    <3> QED
      BY <3>1, PhrasesAssumption, FS_Surjection
  <2>3. freqs \in SUBSET Nat /\ IsFiniteSet(freqs)
    BY <1>3, <2>1, <2>2, FS_Subset
  <2>4. \E f \in freqs : \A g \in freqs : f <= g
    BY <1>6, <2>3, LeastMember
  <2>5. least \in freqs
    BY <2>4 DEF least
  <2>6. Monotone => \A p \in Matches(q) : Freq[p] <= least
    BY <1>4, <2>5
  <2>7. least \in Nat
    BY <1>3, <2>5
  <2> QED
    BY <1>1, <1>2, <1>6, <2>6, <2>7
<1> QED
  BY <1>5, <1>6

-----------------------------------------------------------------------------
(* The rounds.                                                             *)

RefsOf(P) == {RefOf(p) : p \in P}
WordAt(q, n) == q[UnitOrder(q)[n]]
UnitList(q, n) == Postlist(Len(q), UnitOrder(q)[n], WordAt(q, n))

(* The phrases that have the first n of the ordered words of the query.    *)
Holding(q, n) ==
  {p \in Phrases : /\ p[1] = Len(q)
                   /\ \A k \in 1 .. n : Text[p][UnitOrder(q)[k]] = WordAt(q, k)}

(* A word of the query and its place.                                      *)
LEMMA WordType ==
  ASSUME NEW q, IsQuery(q), NEW n \in 1 .. Len(UnitOrder(q))
  PROVE  /\ n \in Nat /\ UnitOrder(q)[n] \in Units(q) /\ UnitOrder(q)[n] \in DOMAIN q
         /\ WordAt(q, n) \in Words /\ Pruning(WordAt(q, n)) \in {PruningLow, PruningHigh}
         /\ Pruning(WordAt(q, n)) \in Nat
<1>1. UnitOrder(q)[n] \in Units(q)
  BY UnitOrderType
<1>2. UnitOrder(q)[n] \in DOMAIN q /\ WordAt(q, n) \in Words
  BY <1>1, UnitOrderType DEF WordAt
<1>3. Pruning(WordAt(q, n)) \in {PruningLow, PruningHigh}
  BY DEF Pruning
<1> QED
  BY <1>1, <1>2, <1>3, IndexAssumption

(* The phrases that have all words of the query are those that match it.   *)
LEMMA HoldingAll ==
  ASSUME NEW q, IsQuery(q)
  PROVE  Holding(q, Len(UnitOrder(q))) = Matches(q)
<1> DEFINE u == UnitOrder(q)
<1>1. /\ \A i \in Units(q) : \E n \in DOMAIN u : u[n] = i
      /\ DOMAIN u = 1 .. Len(u) /\ \A n \in DOMAIN u : u[n] \in Units(q)
      /\ \A i \in Units(q) : i \in DOMAIN q /\ q[i] \in Words
  BY UnitOrderType
<1> HIDE DEF u
<1>2. \A i \in Units(q) : q[i] # Qmark
  BY DEF Units
<1>3. \A p \in Phrases : Len(Text[p]) = p[1]
  BY PhrasesAssumption
<1>4. ASSUME NEW p \in Phrases
      PROVE  (\A k \in 1 .. Len(u) : Text[p][u[k]] = q[u[k]])
             <=> \A i \in DOMAIN q : q[i] \in {Qmark, Text[p][i]}
  <2>1. ASSUME \A k \in 1 .. Len(u) : Text[p][u[k]] = q[u[k]], NEW i \in DOMAIN q
        PROVE  q[i] \in {Qmark, Text[p][i]}
    <3>1. CASE i \in Units(q)
      BY <1>1, <2>1, <3>1
    <3>2. CASE i \notin Units(q)
      BY <3>2 DEF Units
    <3> QED
      BY <3>1, <3>2
  <2>2. ASSUME \A i \in DOMAIN q : q[i] \in {Qmark, Text[p][i]}, NEW k \in 1 .. Len(u)
        PROVE  Text[p][u[k]] = q[u[k]]
    <3>1. u[k] \in Units(q) /\ u[k] \in DOMAIN q
      BY <1>1
    <3> QED
      BY <1>2, <2>2, <3>1
  <2> QED
    BY <2>1, <2>2
<1> QED
  BY <1>3, <1>4 DEF Holding, Matches, WordAt, u

(* The list of the n-th word: all that matches is in it, and what is in it *)
(* and has the words before, has this one too.                             *)
LEMMA UnitListType ==
  ASSUME NEW q, IsQuery(q), NEW n \in 1 .. Len(UnitOrder(q))
  PROVE  LET list == UnitList(q, n)
         IN /\ list \in Seq(AllRefs) /\ Len(list) <= Cardinality(Phrases)
            /\ Falling(list) /\ Unrepeated(list)
            /\ Range(list) \subseteq RefsOf(Holding(q, 0))
            /\ RefsOf(Matches(q)) \subseteq Range(list)
            /\ RefsOf(Holding(q, n - 1)) \cap Range(list) \subseteq RefsOf(Holding(q, n))
<1> DEFINE list == UnitList(q, n)
           X == Listed(Len(q), UnitOrder(q)[n], WordAt(q, n))
<1>1. /\ n \in Nat /\ WordAt(q, n) \in Words /\ UnitOrder(q)[n] \in DOMAIN q
      /\ UnitOrder(q)[n] \in Units(q)
  BY WordType
<1>2. /\ list \in Seq(AllRefs) /\ Len(list) <= Cardinality(Phrases)
      /\ Range(list) = {RefOf(p) : p \in X}
      /\ Falling(list) /\ Unrepeated(list)
  BY <1>1, PostlistType DEF UnitList
<1> HIDE DEF list
<1>3. X \subseteq Holding(q, 0)
  BY DEF Listed, Holding
<1>4. Matches(q) \subseteq X
  <2>1. q[UnitOrder(q)[n]] # Qmark
    BY <1>1 DEF Units
  <2> QED
    BY <1>1, <2>1, PhrasesAssumption DEF Matches, Listed, WordAt
<1>5. ASSUME NEW e \in RefsOf(Holding(q, n - 1)), e \in Range(list)
      PROVE  e \in RefsOf(Holding(q, n))
  <2>1. PICK p \in Holding(q, n - 1) : e = RefOf(p)
    BY DEF RefsOf
  <2>2. PICK r \in X : e = RefOf(r)
    BY <1>2, <1>5
  <2>3. p \in Phrases /\ r \in Phrases /\ p[1] = Len(q) /\ r[1] = Len(q)
    BY DEF Holding, Listed
  <2>4. p = r
    BY <2>1, <2>2, <2>3, RefNames
  <2>5. Text[p][UnitOrder(q)[n]] = WordAt(q, n)
    BY <2>4 DEF Listed
  <2>6. \A k \in 1 .. n : k = n \/ k \in 1 .. n - 1
    BY <1>1
  <2>7. p \in Holding(q, n)
    BY <2>3, <2>5, <2>6 DEF Holding
  <2> QED
    BY <2>1, <2>7 DEF RefsOf
<1> QED
  BY <1>2, <1>3, <1>4, <1>5 DEF RefsOf, list

Limit(q, n, state) == IF n = 1 THEN Smaller(state.limit, JumpinFreq(q)) ELSE state.limit
Source(q, n, state) == IF n = 1 THEN RefsOf(Holding(q, 0)) ELSE state.set
RoundHits(q, n, state) ==
  Hits(UnitList(q, n), Limit(q, n, state), Pruning(WordAt(q, n)), Source(q, n, state))

(* What a round makes of a word without a list, and of one that has a list.*)
Fails(q, n, state) ==
  [set |-> IF n = Len(UnitOrder(q)) THEN state.set ELSE {}, limit |-> 0, refs |-> <<>>,
   unknown |-> state.unknown \cup {WordAt(q, n)}]
Takes(o, q, n, state) ==
  LET hits == RoundHits(q, n, state)
      last == n = Len(UnitOrder(q))
  IN [set |-> IF last THEN state.set ELSE Range(hits),
      limit |-> IF hits = <<>> THEN 0 ELSE hits[1].freq,
      refs |-> IF last THEN FirstN(hits, o.count) ELSE <<>>,
      unknown |-> state.unknown]

(* A round in terms of the list, the limit and the set that it works on.   *)
LEMMA RoundReads ==
  ASSUME NEW o, NEW q, IsQuery(q), NEW n \in 1 .. Len(UnitOrder(q)), NEW state,
         Limit(q, n, state) \in Nat
  PROVE  Round(o, q, n, state) = IF UnitList(q, n) = <<>> THEN Fails(q, n, state)
                                 ELSE Takes(o, q, n, state)
<1> DEFINE list == UnitList(q, n)
           limit == Limit(q, n, state)
           read == Window(list, limit, Pruning(WordAt(q, n)))
           I == {i \in DOMAIN read : read[i].freq <= limit /\ (n = 1 \/ read[i] \in state.set)}
           J == {i \in DOMAIN read : read[i].freq <= limit /\ read[i] \in Source(q, n, state)}
<1>1. /\ list \in Seq(AllRefs) /\ Falling(list) /\ Unrepeated(list)
      /\ Range(list) \subseteq RefsOf(Holding(q, 0))
      /\ Pruning(WordAt(q, n)) \in Nat
  BY UnitListType, WordType
<1>2. Range(read) \subseteq Range(list)
  <2> HIDE DEF list, limit
  <2> QED
    BY <1>1, WindowType DEF limit
<1>3. \A i \in DOMAIN read : read[i] \in RefsOf(Holding(q, 0))
  BY <1>1, <1>2 DEF Range
<1>4. I = J
  <2> HIDE DEF read
  <2> QED
    BY <1>3 DEF Source
<1>5. RoundHits(q, n, state) = ElementsAt(read, J)
  BY DEF RoundHits, Hits
<1>6. Round(o, q, n, state) =
        LET hits == ElementsAt(read, I)
            last == n = Len(UnitOrder(q))
        IN IF list = <<>>
           THEN [set |-> IF last THEN state.set ELSE {}, limit |-> 0, refs |-> <<>>,
                 unknown |-> state.unknown \cup {WordAt(q, n)}]
           ELSE [set |-> IF last THEN state.set ELSE Range(hits),
                 limit |-> IF hits = <<>> THEN 0 ELSE hits[1].freq,
                 refs |-> IF last THEN FirstN(hits, o.count) ELSE <<>>,
                 unknown |-> state.unknown]
  BY DEF Round, Within, UnitList, Limit, WordAt
<1> QED
  BY <1>4, <1>5, <1>6 DEF Fails, Takes

IsOptions(o) == o.count \in Nat /\ o.maxFreq \in Nat

States == [set : SUBSET AllRefs, limit : Nat, refs : Seq(AllRefs), unknown : SUBSET Words]

StartState(o) == [set |-> {}, limit |-> o.maxFreq, refs |-> <<>>, unknown |-> {}]

(* A list without elements is empty.                                       *)
LEMMA NoElements ==
  ASSUME NEW S, NEW s \in Seq(S)
  PROVE  /\ s = <<>> <=> Range(s) = {}
         /\ s # <<>> => 1 \in DOMAIN s /\ s[1] \in Range(s) /\ s[1] \in S
<1>1. DOMAIN s = 1 .. Len(s) /\ Len(s) \in Nat
  OBVIOUS
<1>2. CASE s = <<>>
  BY <1>2 DEF Range
<1>3. CASE s # <<>>
  <2>1. 1 \in DOMAIN s
    BY <1>1, <1>3
  <2> QED
    BY <1>3, <2>1 DEF Range
<1> QED
  BY <1>2, <1>3

(* The types of the parts of a round.                                      *)
LEMMA RoundHitsType ==
  ASSUME NEW q, IsQuery(q), NEW n \in 1 .. Len(UnitOrder(q)), NEW state \in States
  PROVE  LET hits == RoundHits(q, n, state)
         IN /\ Limit(q, n, state) \in Nat /\ Limit(q, n, state) <= state.limit
            /\ hits \in Seq(AllRefs) /\ Falling(hits) /\ Unrepeated(hits)
            /\ \A e \in Range(hits) : /\ e.freq <= Limit(q, n, state)
                                      /\ e \in Source(q, n, state)
                                      /\ e \in Range(UnitList(q, n))
<1> DEFINE list == UnitList(q, n)
           l == Limit(q, n, state)
           pruning == Pruning(WordAt(q, n))
           B == Source(q, n, state)
           hits == RoundHits(q, n, state)
<1>1. state.limit \in Nat /\ JumpinFreq(q) \in Nat
  BY JumpinType DEF States
<1>2. l \in Nat /\ l <= state.limit
  BY <1>1 DEF Limit, Smaller
<1>3. list \in Seq(AllRefs) /\ Falling(list) /\ Unrepeated(list) /\ pruning \in Nat
  BY UnitListType, WordType
<1>4. hits = Hits(list, l, pruning, B)
  BY DEF RoundHits
<1> HIDE DEF list, l, pruning, B, hits
<1>5. /\ hits \in Seq(AllRefs) /\ Falling(hits) /\ Unrepeated(hits)
      /\ Range(hits) = {e \in Range(Window(list, l, pruning)) : e.freq <= l /\ e \in B}
      /\ Range(hits) \subseteq Range(list)
  BY <1>2, <1>3, <1>4, HitsType
<1> QED
  BY <1>2, <1>5 DEF list, l, B, hits

(* A round goes from a state to a state.                                   *)
LEMMA RoundType ==
  ASSUME NEW o, IsOptions(o), NEW q, IsQuery(q), NEW n \in 1 .. Len(UnitOrder(q)),
         NEW state \in States
  PROVE  Round(o, q, n, state) \in States
<1> DEFINE hits == RoundHits(q, n, state)
<1>1. Limit(q, n, state) \in Nat /\ hits \in Seq(AllRefs) /\ Falling(hits) /\ Unrepeated(hits)
  BY RoundHitsType
<1>2. Round(o, q, n, state) = IF UnitList(q, n) = <<>> THEN Fails(q, n, state)
                              ELSE Takes(o, q, n, state)
  BY <1>1, RoundReads
<1>3. WordAt(q, n) \in Words
  BY WordType
<1>4. /\ state.set \in SUBSET AllRefs /\ state.unknown \in SUBSET Words
      /\ <<>> \in Seq(AllRefs) /\ o.count \in Nat
  BY DEF States, IsOptions
<1>5. FirstN(hits, o.count) \in Seq(AllRefs)
  BY <1>1, <1>4, FirstNType
<1>6. Range(hits) \in SUBSET AllRefs
  BY <1>1 DEF Range
<1>7. (IF hits = <<>> THEN 0 ELSE hits[1].freq) \in Nat
  BY <1>1, NoElements, RefFreqType
<1>8. state.unknown \cup {WordAt(q, n)} \in SUBSET Words
  BY <1>3, <1>4
<1>9. Fails(q, n, state) \in States
  BY <1>4, <1>8 DEF Fails, States
<1>10. Takes(o, q, n, state) \in States
  <2>1. Takes(o, q, n, state) =
          [set |-> IF n = Len(UnitOrder(q)) THEN state.set ELSE Range(hits),
           limit |-> IF hits = <<>> THEN 0 ELSE hits[1].freq,
           refs |-> IF n = Len(UnitOrder(q)) THEN FirstN(hits, o.count) ELSE <<>>,
           unknown |-> state.unknown]
    BY DEF Takes
  <2> HIDE DEF hits
  <2> QED
    BY <1>4, <1>5, <1>6, <1>7, <2>1 DEF States
<1> QED
  BY <1>2, <1>9, <1>10

(* The loop is a sequence of states, each made of the one before.          *)
LEMMA RoundsType ==
  ASSUME NEW o, IsOptions(o), NEW q, IsQuery(q)
  PROVE  /\ Rounds(o, q)[0] = StartState(o) /\ StartState(o) \in States
         /\ \A n \in 0 .. Len(q) : Rounds(o, q)[n] \in States
         /\ \A n \in 1 .. Len(q) : Rounds(o, q)[n] = After(o, q, n, Rounds(o, q)[n - 1])
<1> DEFINE N == Len(q)
           f == [n \in 1 .. N |-> [s \in States |-> After(o, q, n, s)]]
           loop == Rounds(o, q)
<1>1. N \in Nat /\ StartState(o) \in States
  BY UnitOrderType DEF StartState, States, IsOptions
<1>2. \A n \in 1 .. N, s \in States : After(o, q, n, s) \in States
  <2> SUFFICES ASSUME NEW n \in 1 .. N, NEW s \in States PROVE After(o, q, n, s) \in States
    OBVIOUS
  <2>1. n \in 1 .. Len(UnitOrder(q)) \/ n > Len(UnitOrder(q))
    BY <1>1, UnitOrderType
  <2> QED
    BY <2>1, RoundType DEF After
<1>3. f \in [1 .. N -> [States -> States]]
  BY <1>2
<1>4. \A n \in 1 .. N, s \in States : f[n][s] = After(o, q, n, s)
  OBVIOUS
<1>5. loop = CHOOSE g : g = [n \in 0 .. N |-> IF n = 0 THEN StartState(o) ELSE After(o, q, n, g[n - 1])]
  BY DEF Rounds, StartState
<1> HIDE DEF f, N, loop
<1>6. PICK g \in [0 .. N -> States] : g[0] = StartState(o) /\ \A n \in 1 .. N : g[n] = f[n][g[n - 1]]
  <2>1. Iterable(N, States, StartState(o), f)
    BY <1>1, <1>3 DEF Iterable
  <2>2. PICK g \in [0 .. N -> States] : Iterates(g, N, StartState(o), f)
    BY <2>1, IterationExists
  <2> QED
    BY <2>2 DEF Iterates
<1>7. g = [n \in 0 .. N |-> IF n = 0 THEN StartState(o) ELSE After(o, q, n, g[n - 1])]
  <2>1. \A n \in 1 .. N : n - 1 \in 0 .. N /\ g[n - 1] \in States
    BY <1>1, <1>6
  <2>2. \A n \in 1 .. N : g[n] = After(o, q, n, g[n - 1])
    BY <1>4, <1>6, <2>1
  <2>3. \A n \in 0 .. N : n = 0 \/ n \in 1 .. N
    BY <1>1
  <2>4. \A n \in 0 .. N : g[n] = IF n = 0 THEN StartState(o) ELSE After(o, q, n, g[n - 1])
    BY <1>6, <2>2, <2>3
  <2> QED
    BY <1>6, <2>4
<1>8. loop = [n \in 0 .. N |-> IF n = 0 THEN StartState(o) ELSE After(o, q, n, loop[n - 1])]
  BY <1>5, <1>7
<1>9. loop[0] = StartState(o) /\ \A n \in 1 .. N : loop[n] = After(o, q, n, loop[n - 1])
  BY <1>1, <1>8
<1>10. \A n \in 0 .. N : loop[n] \in States
  <2> DEFINE T == {n \in 0 .. N : loop[n] \in States}
  <2>1. 0 \in T
    BY <1>1, <1>9
  <2>2. \A n \in 1 .. N : n - 1 \in T => n \in T
    BY <1>1, <1>2, <1>9
  <2> HIDE DEF T
  <2>3. \A n \in 0 .. N : n \in T
    BY <1>1, <2>1, <2>2, UpTo
  <2> QED
    BY <2>3 DEF T
<1> QED
  BY <1>1, <1>9, <1>10 DEF N, loop

-----------------------------------------------------------------------------
(* What the loop keeps.                                                    *)

(* The references that a complete answer is made from.                     *)
Candidates(o, q) == {RefOf(p) : p \in {m \in Matches(q) : RefFreq(m) <= o.maxFreq}}

LastList(q) == UnitList(q, Len(UnitOrder(q)))

Bound(o, q) == Smaller(o.maxFreq, JumpinFreq(q))

(* The list whose first elements are the answer.                           *)
Outcome(o, q, hits) ==
  LET C == Candidates(o, q)
  IN /\ hits \in Seq(AllRefs) /\ Falling(hits) /\ Unrepeated(hits)
     /\ Range(hits) \subseteq C
     /\ Units(q) = {} => hits = <<>>
     /\ Monotone /\ Units(q) # {} =>
          /\ Spans(Range(hits), C)
          /\ Len(UnitOrder(q)) = 1 =>
               \A c \in C \ Range(hits) : c.freq = Bound(o, q) \/ Below(c, Range(hits))
          /\ Whole => hits = ElementsAt(LastList(q), PlacesOf(LastList(q), C))

(* After n rounds there are more to come, and the set to intersect covers  *)
(* the candidates ...                                                      *)
Running(o, q, n, state) ==
  /\ n < Len(UnitOrder(q)) /\ state.unknown = {}
  /\ state.limit <= o.maxFreq
  /\ n = 0 => state.limit = o.maxFreq
  /\ n > 0 => /\ state.set # {} /\ state.set \subseteq RefsOf(Holding(q, n))
              /\ Monotone => /\ Spans(state.set, Candidates(o, q))
                             /\ Bounded(Candidates(o, q) \cap state.set, state.limit)

(* ... or the loop is at its end and has the answer.                       *)
Ended(o, q, n, state) ==
  /\ n >= Len(UnitOrder(q)) \/ (n > 0 /\ state.set = {})
  /\ \E hits : Outcome(o, q, hits) /\ state.refs = FirstN(hits, o.count)
  /\ state.unknown # {} => Matches(q) = {}
  /\ state.unknown \subseteq WordsOf(q)

(* A candidate is about a phrase that matches.                             *)
LEMMA CandidateType ==
  ASSUME NEW o, NEW q, NEW c \in Candidates(o, q)
  PROVE  /\ c \in RefsOf(Matches(q)) /\ c \in RefsOf(Holding(q, 0)) /\ c \in AllRefs
         /\ c.freq \in Nat /\ c.freq <= o.maxFreq
         /\ \E p \in Matches(q) : c.freq = RefFreq(p)
<1>1. PICK p \in Matches(q) : c = RefOf(p) /\ RefFreq(p) <= o.maxFreq
  BY DEF Candidates
<1>2. p \in Phrases /\ Len(Text[p]) = Len(q)
  BY DEF Matches
<1>3. p[1] = Len(q)
  BY <1>2, PhrasesAssumption
<1>4. c.freq = RefFreq(p) /\ c.freq \in Nat
  BY <1>1, <1>2, RefType
<1>5. p \in Holding(q, 0)
  BY <1>2, <1>3 DEF Holding
<1> QED
  BY <1>1, <1>2, <1>4, <1>5 DEF RefsOf, AllRefs

(* No positions have no elements.                                          *)
LEMMA NoPositions ==
  ASSUME NEW s \in Seq(AllRefs), Falling(s), Unrepeated(s)
  PROVE  ElementsAt(s, {}) = <<>>
<1>1. {} \in SUBSET (DOMAIN s)
  OBVIOUS
<1>2. ElementsAt(s, {}) \in Seq(AllRefs) /\ Range(ElementsAt(s, {})) = {s[i] : i \in {}}
  BY <1>1, PartType
<1>3. Range(ElementsAt(s, {})) = {}
  BY <1>2
<1> QED
  BY <1>2, <1>3, NoElements

(* An empty answer is right if there are no candidates.                    *)
LEMMA NothingFound ==
  ASSUME NEW o, IsOptions(o), NEW q, IsQuery(q),
         Monotone /\ Units(q) # {} =>
           /\ Whole => Candidates(o, q) = {}
           /\ Len(UnitOrder(q)) = 1 => Candidates(o, q) = {}
  PROVE  Outcome(o, q, <<>>) /\ <<>> = FirstN(<<>>, o.count)
<1> DEFINE C == Candidates(o, q)
<1>1. <<>> \in Seq(AllRefs) /\ Falling(<<>>) /\ Unrepeated(<<>>) /\ Range(<<>>) = {}
  BY DEF Falling, Unrepeated, Range
<1>2. \A c : Below(c, {})
  BY DEF Below
<1>3. ASSUME Monotone, Units(q) # {}
      PROVE  /\ Spans(Range(<<>>), C)
             /\ Len(UnitOrder(q)) = 1 =>
                  \A c \in C \ Range(<<>>) : c.freq = Bound(o, q) \/ Below(c, Range(<<>>))
             /\ Whole => <<>> = ElementsAt(LastList(q), PlacesOf(LastList(q), C))
  <2>1. Spans(Range(<<>>), C)
    BY <1>1, <1>2, <1>3 DEF Spans
  <2>2. ASSUME Whole
        PROVE  <<>> = ElementsAt(LastList(q), PlacesOf(LastList(q), C))
    <3>1. UnitOrder(q) \in Seq(Units(q)) /\ \E i \in DOMAIN UnitOrder(q) : TRUE
      BY <1>3, UnitOrderType
    <3>2. Len(UnitOrder(q)) \in 1 .. Len(UnitOrder(q))
      BY <3>1
    <3>3. LastList(q) \in Seq(AllRefs) /\ Falling(LastList(q)) /\ Unrepeated(LastList(q))
      BY <3>2, UnitListType DEF LastList
    <3>4. PlacesOf(LastList(q), C) = {}
      BY <1>3, <2>2 DEF PlacesOf
    <3> QED
      BY <3>3, <3>4, NoPositions
  <2> QED
    BY <1>1, <1>2, <2>1, <2>2
<1>4. FirstN(<<>>, o.count) = <<>>
  <2>1. <<>> \in Seq(AllRefs) /\ o.count \in Nat
    BY DEF IsOptions
  <2> DEFINE none == FirstN(<<>>, o.count)
  <2>2. none \in Seq(AllRefs) /\ \A i \in DOMAIN none : i \in DOMAIN <<>>
    BY <2>1, FirstNType
  <2> HIDE DEF none
  <2>3. Range(none) = {}
    BY <2>2 DEF Range
  <2>4. none = <<>>
    BY <2>2, <2>3, NoElements
  <2> QED
    BY <2>4 DEF none
<1> QED
  BY <1>1, <1>3, <1>4 DEF Outcome

(* What a round takes covers the candidates, if what it starts from does.  *)
LEMMA RoundCovers ==
  ASSUME NEW o, IsOptions(o), NEW q, IsQuery(q), NEW n \in 1 .. Len(UnitOrder(q)),
         NEW state \in States, Running(o, q, n - 1, state)
  PROVE  LET C == Candidates(o, q)
             hits == RoundHits(q, n, state)
         IN /\ Range(hits) \subseteq RefsOf(Holding(q, n))
            /\ \A e \in Range(hits) : e.freq <= o.maxFreq
            /\ Monotone =>
                 /\ Spans(Range(hits), C)
                 /\ n = 1 => \A c \in C \ Range(hits) : c.freq = Bound(o, q) \/ Below(c, Range(hits))
                 /\ Whole => hits = ElementsAt(UnitList(q, n), PlacesOf(UnitList(q, n), Range(hits)))
<1> DEFINE C == Candidates(o, q)
           list == UnitList(q, n)
           l == Limit(q, n, state)
           pruning == Pruning(WordAt(q, n))
           B == Source(q, n, state)
           hits == RoundHits(q, n, state)
           H == Range(hits)
           I == Places(list, l, B)
<1>1. /\ l \in Nat /\ l <= state.limit /\ state.limit \in Nat
      /\ hits \in Seq(AllRefs) /\ Falling(hits) /\ Unrepeated(hits)
      /\ \A e \in H : e.freq <= l /\ e \in B /\ e \in Range(list) /\ e.freq \in Nat
  <2>1. state.limit \in Nat
    BY DEF States
  <2>2. hits \in Seq(AllRefs) => \A e \in H : e.freq \in Nat
    BY RefFreqType DEF Range
  <2> QED
    BY <2>1, <2>2, RoundHitsType
<1>2. /\ list \in Seq(AllRefs) /\ Len(list) <= Cardinality(Phrases)
      /\ Falling(list) /\ Unrepeated(list)
      /\ Range(list) \subseteq RefsOf(Holding(q, 0))
      /\ RefsOf(Matches(q)) \subseteq Range(list)
      /\ RefsOf(Holding(q, n - 1)) \cap Range(list) \subseteq RefsOf(Holding(q, n))
  BY UnitListType
<1>3. pruning \in {PruningLow, PruningHigh} /\ n \in Nat
  BY WordType
<1>4. hits = Hits(list, l, pruning, B)
  BY DEF RoundHits
<1>5. B \subseteq RefsOf(Holding(q, n - 1))
  <2>1. CASE n = 1
    BY <2>1 DEF Source
  <2>2. CASE n # 1
    BY <1>3, <2>2 DEF Source, Running
  <2> QED
    BY <2>1, <2>2
<1>6. /\ \A c \in C : c \in RefsOf(Matches(q)) /\ c \in RefsOf(Holding(q, 0)) /\ c.freq <= o.maxFreq
      /\ C \in SUBSET Range(list)
  BY <1>2, CandidateType
<1>7. state.limit <= o.maxFreq /\ (n = 1 => state.limit = o.maxFreq) /\ o.maxFreq \in Nat
  BY <1>3 DEF Running, IsOptions
<1>8. n = 1 => l = Bound(o, q) /\ C \subseteq B
  BY <1>6, <1>7 DEF Limit, Bound, Source
<1>9. ASSUME Monotone PROVE Spans(B, C) /\ Bounded(C \cap B, l)
  <2>1. CASE n = 1
    <3>1. Spans(B, C)
      BY <1>8, <2>1 DEF Spans
    <3>2. ASSUME NEW c \in C PROVE c.freq <= l
      <4>1. PICK p \in Matches(q) : c.freq = RefFreq(p)
        BY CandidateType
      <4>2. c.freq <= JumpinFreq(q) /\ c.freq <= o.maxFreq
        BY <1>6, <1>9, <4>1, JumpinType
      <4> QED
        BY <1>8, <2>1, <4>2 DEF Bound, Smaller
    <3> QED
      BY <3>1, <3>2 DEF Bounded
  <2>2. CASE n # 1
    BY <1>3, <1>9, <2>2 DEF Running, Source, Limit
  <2> QED
    BY <2>1, <2>2
<1>10. H \subseteq RefsOf(Holding(q, n))
  BY <1>1, <1>2, <1>5
<1>11. \A e \in H : e.freq <= o.maxFreq
  BY <1>1, <1>7
<1> HIDE DEF C, list, l, pruning, B, hits, H
<1>12. ASSUME Monotone
       PROVE  /\ Spans(H, C)
              /\ \A c \in (C \cap B) \ H : c.freq = l \/ Below(c, H)
              /\ Whole => hits = ElementsAt(list, I)
  <2>1. Spans(B, C) /\ Bounded(C \cap B, l)
    BY <1>9, <1>12
  <2>2. C \in SUBSET Range(list) /\ l \in Nat /\ pruning \in {PruningLow, PruningHigh}
    BY <1>1, <1>3, <1>6
  <2>3. /\ Spans(Range(Hits(list, l, pruning, B)), C)
        /\ \A c \in (C \cap B) \ Range(Hits(list, l, pruning, B)) :
             c.freq = l \/ Below(c, Range(Hits(list, l, pruning, B)))
        /\ Whole => Hits(list, l, pruning, B) = ElementsAt(list, I)
    BY <1>2, <2>1, <2>2, HitsCover
  <2> QED
    BY <1>4, <2>3 DEF H
<1>13. ASSUME hits = ElementsAt(list, I)
       PROVE  hits = ElementsAt(list, PlacesOf(list, H))
  <2>1. I \in SUBSET (DOMAIN list)
    BY DEF Places
  <2>2. H = {list[i] : i \in I}
    BY <1>2, <1>13, <2>1, PartType DEF H
  <2>3. I = PlacesOf(list, H)
    BY <1>1, <2>2 DEF Places, PlacesOf
  <2> QED
    BY <1>13, <2>3
<1> QED
  BY <1>8, <1>10, <1>11, <1>12, <1>13 DEF C, list, l, B, hits, H

(* A word without a list: nothing matches.                                 *)
LEMMA FailsKeeps ==
  ASSUME NEW o, IsOptions(o), NEW q, IsQuery(q), NEW n \in 1 .. Len(UnitOrder(q)),
         NEW state \in States, state.unknown = {}, UnitList(q, n) = <<>>
  PROVE  Ended(o, q, n, Fails(q, n, state))
<1>1. /\ Range(<<>>) = {} /\ n \in Nat /\ Len(UnitOrder(q)) \in Nat
      /\ RefsOf(Matches(q)) \subseteq Range(UnitList(q, n))
  BY UnitListType, UnitOrderType DEF Range
<1>2. Matches(q) = {}
  BY <1>1 DEF RefsOf
<1>3. Candidates(o, q) = {}
  BY <1>2 DEF Candidates
<1>4. Outcome(o, q, <<>>) /\ <<>> = FirstN(<<>>, o.count)
  BY <1>3, NothingFound
<1>5. n >= Len(UnitOrder(q)) \/ (n > 0 /\ Fails(q, n, state).set = {})
  BY <1>1 DEF Fails
<1>6. Fails(q, n, state).refs = <<>>
  BY DEF Fails
<1>7. Fails(q, n, state).unknown = {WordAt(q, n)}
  BY DEF Fails
<1>8. WordAt(q, n) \in WordsOf(q)
  BY WordType DEF WordAt, WordsOf
<1> QED
  BY <1>2, <1>4, <1>5, <1>6, <1>7, <1>8 DEF Ended

(* The last word: its hits are the outcome.                                *)
LEMMA LastTakesKeeps ==
  ASSUME NEW o, IsOptions(o), NEW q, IsQuery(q), NEW n \in 1 .. Len(UnitOrder(q)),
         NEW state \in States, Running(o, q, n - 1, state), n = Len(UnitOrder(q))
  PROVE  Ended(o, q, n, Takes(o, q, n, state))
<1> DEFINE hits == RoundHits(q, n, state)
           C == Candidates(o, q)
           H == Range(hits)
<1>1. hits \in Seq(AllRefs) /\ Falling(hits) /\ Unrepeated(hits)
  BY RoundHitsType
<1>2. /\ H \subseteq RefsOf(Holding(q, n))
      /\ \A e \in H : e.freq <= o.maxFreq
      /\ Monotone => /\ Spans(H, C)
                     /\ n = 1 => \A c \in C \ H : c.freq = Bound(o, q) \/ Below(c, H)
                     /\ Whole => hits = ElementsAt(UnitList(q, n), PlacesOf(UnitList(q, n), H))
  BY RoundCovers
<1>3. H \subseteq C
  <2>1. ASSUME NEW e \in H PROVE e \in C
    <3>1. PICK p \in Matches(q) : e = RefOf(p)
      BY <1>2, HoldingAll DEF RefsOf
    <3>2. e.freq = RefFreq(p)
      BY <3>1, RefType DEF Matches
    <3> QED
      BY <1>2, <3>1, <3>2 DEF Candidates
  <2> QED
    BY <2>1
<1>4. Whole /\ Monotone => H = C
  BY <1>2, <1>3 DEF Spans
<1>5. Takes(o, q, n, state).refs = FirstN(hits, o.count)
  BY DEF Takes
<1>6. Takes(o, q, n, state).unknown = {}
  BY DEF Takes, Running
<1>7. n >= Len(UnitOrder(q))
  BY UnitOrderType
<1> HIDE DEF hits, H, C
<1>8. Monotone =>
          /\ Spans(H, C)
          /\ Len(UnitOrder(q)) = 1 => \A c \in C \ H : c.freq = Bound(o, q) \/ Below(c, H)
          /\ Whole => hits = ElementsAt(LastList(q), PlacesOf(LastList(q), C))
  BY <1>2, <1>4 DEF LastList
<1>9. Units(q) # {}
  BY WordType
<1>10. Outcome(o, q, hits)
  BY <1>1, <1>3, <1>8, <1>9 DEF Outcome, C, H
<1> QED
  BY <1>5, <1>6, <1>7, <1>10 DEF Ended

(* Another word: its hits are the next set, or there is no answer.         *)
LEMMA TakesKeeps ==
  ASSUME NEW o, IsOptions(o), NEW q, IsQuery(q), NEW n \in 1 .. Len(UnitOrder(q)),
         NEW state \in States, Running(o, q, n - 1, state), n # Len(UnitOrder(q))
  PROVE  Running(o, q, n, Takes(o, q, n, state)) \/ Ended(o, q, n, Takes(o, q, n, state))
<1> DEFINE hits == RoundHits(q, n, state)
           C == Candidates(o, q)
           H == Range(hits)
           next == Takes(o, q, n, state)
<1>1. /\ hits \in Seq(AllRefs) /\ Falling(hits)
      /\ Limit(q, n, state) \in Nat /\ Limit(q, n, state) <= state.limit
      /\ \A e \in H : e.freq <= Limit(q, n, state)
  BY RoundHitsType
<1>2. /\ H \subseteq RefsOf(Holding(q, n))
      /\ Monotone => Spans(H, C)
  BY RoundCovers
<1>3. n \in Nat /\ n > 0 /\ n < Len(UnitOrder(q)) /\ n # 0 /\ Len(UnitOrder(q)) # 1
  <2> DEFINE k == Len(UnitOrder(q))
  <2>1. k \in Nat /\ n \in 1 .. k /\ n # k
    BY UnitOrderType
  <2> HIDE DEF k
  <2>2. n \in Nat /\ n > 0 /\ n < k /\ n # 0 /\ k # 1
    BY <2>1
  <2> QED
    BY <2>2 DEF k
<1>4. /\ next.set = H /\ next.refs = <<>> /\ next.unknown = {}
      /\ next.limit = IF hits = <<>> THEN 0 ELSE hits[1].freq
  BY DEF Takes, Running
<1> HIDE DEF next, hits, C
<1>5. CASE hits = <<>>
  <2>1. H = {}
    BY <1>5 DEF Range
  <2>2. Monotone /\ Whole => C = {}
    BY <1>2, <2>1 DEF Spans
  <2>3. Outcome(o, q, <<>>) /\ <<>> = FirstN(<<>>, o.count)
    BY <1>3, <2>2, NothingFound DEF C
  <2>4. Ended(o, q, n, next)
    BY <1>3, <1>4, <2>1, <2>3 DEF Ended
  <2> QED
    BY <2>4 DEF next
<1>6. CASE hits # <<>>
  <2>1. 1 \in DOMAIN hits /\ hits[1] \in H /\ H # {} /\ hits[1].freq \in Nat
    BY <1>1, <1>6, NoElements, RefFreqType
  <2>2. \A e \in H : e.freq <= hits[1].freq
    <3>1. \A i \in DOMAIN hits : i = 1 \/ 1 < i
      BY <1>1
    <3> QED
      BY <1>1, <2>1, <3>1 DEF Falling, Range
  <2>3. next.limit = hits[1].freq /\ next.set = H
    BY <1>4, <1>6
  <2>4. next.limit <= o.maxFreq
    <3>1. state.limit \in Nat /\ state.limit <= o.maxFreq /\ o.maxFreq \in Nat
      BY DEF States, Running, IsOptions
    <3> QED
      BY <1>1, <2>1, <2>3, <3>1
  <2>5. Bounded(C \cap next.set, next.limit)
    BY <2>2, <2>3 DEF Bounded
  <2>6. Running(o, q, n, next)
    BY <1>2, <1>3, <1>4, <2>1, <2>3, <2>4, <2>5 DEF Running, C
  <2> QED
    BY <2>6 DEF next
<1> QED
  BY <1>5, <1>6

(* Every round keeps it.                                                   *)
LEMMA AfterKeeps ==
  ASSUME NEW o, IsOptions(o), NEW q, IsQuery(q), NEW n \in 1 .. Len(q), NEW state \in States,
         Running(o, q, n - 1, state) \/ Ended(o, q, n - 1, state)
  PROVE  Running(o, q, n, After(o, q, n, state)) \/ Ended(o, q, n, After(o, q, n, state))
<1>1. n \in Nat /\ n > 0 /\ Len(UnitOrder(q)) \in Nat
  BY UnitOrderType
<1>2. CASE Ended(o, q, n - 1, state)
  <2>1. n - 1 >= Len(UnitOrder(q)) \/ (n - 1 > 0 /\ state.set = {})
    BY <1>2 DEF Ended
  <2>2. After(o, q, n, state) = state
    BY <1>1, <2>1 DEF After
  <2>3. n >= Len(UnitOrder(q)) \/ (n > 0 /\ state.set = {})
    BY <1>1, <2>1
  <2>4. Ended(o, q, n, state)
    BY <1>2, <2>3 DEF Ended
  <2> QED
    BY <2>2, <2>4
<1>3. CASE Running(o, q, n - 1, state)
  <2>1. n \in 1 .. Len(UnitOrder(q))
    BY <1>1, <1>3 DEF Running
  <2>2. ~ (n > 1 /\ state.set = {})
    BY <1>1, <1>3 DEF Running
  <2>3. After(o, q, n, state) = Round(o, q, n, state)
    BY <1>1, <2>1, <2>2 DEF After
  <2>4. Limit(q, n, state) \in Nat
    BY <2>1, RoundHitsType
  <2>5. Round(o, q, n, state) = IF UnitList(q, n) = <<>> THEN Fails(q, n, state)
                                ELSE Takes(o, q, n, state)
    BY <2>1, <2>4, RoundReads
  <2> QED
    BY <1>3, <2>1, <2>3, <2>5, FailsKeeps, LastTakesKeeps, TakesKeeps DEF Running
<1> QED
  BY <1>2, <1>3

(* The answer is the first elements of the outcome.                        *)
THEOREM ProcessOutcome ==
  ASSUME NEW o, IsOptions(o), NEW q, IsQuery(q)
  PROVE  /\ \E hits : Outcome(o, q, hits) /\ Process(o, q).refs = FirstN(hits, o.count)
         /\ Process(o, q).unknown # {} => Matches(q) = {}
         /\ Process(o, q).unknown \in SUBSET (Words \cap WordsOf(q))
<1> DEFINE N == Len(q)
           loop == Rounds(o, q)
           T == {n \in 0 .. N : Running(o, q, n, loop[n]) \/ Ended(o, q, n, loop[n])}
<1>1. N \in Nat /\ Len(UnitOrder(q)) <= N /\ Len(UnitOrder(q)) = Cardinality(Units(q))
      /\ UnitOrder(q) \in Seq(Units(q)) /\ \A i \in Units(q) : \E n \in DOMAIN UnitOrder(q) : UnitOrder(q)[n] = i
  BY UnitOrderType
<1>2. /\ loop[0] = StartState(o) /\ \A n \in 0 .. N : loop[n] \in States
      /\ \A n \in 1 .. N : loop[n] = After(o, q, n, loop[n - 1])
  BY RoundsType
<1> HIDE DEF loop, N
<1>3. 0 \in T
  <2>1. CASE Units(q) = {}
    <3>1. Len(UnitOrder(q)) = 0
      BY <1>1, <2>1
    <3>2. Outcome(o, q, <<>>) /\ <<>> = FirstN(<<>>, o.count)
      BY <2>1, NothingFound
    <3>3. Ended(o, q, 0, StartState(o))
      BY <3>1, <3>2 DEF Ended, StartState
    <3> QED
      BY <1>1, <1>2, <3>3
  <2>2. CASE Units(q) # {}
    <3>1. 0 < Len(UnitOrder(q))
      BY <1>1, <2>2
    <3>2. Running(o, q, 0, StartState(o))
      BY <3>1 DEF Running, StartState, IsOptions
    <3> QED
      BY <1>1, <1>2, <3>2
  <2> QED
    BY <2>1, <2>2
<1>4. \A n \in 1 .. N : n - 1 \in T => n \in T
  <2> SUFFICES ASSUME NEW n \in 1 .. N, n - 1 \in T PROVE n \in T
    OBVIOUS
  <2>1. n - 1 \in 0 .. N /\ n \in 0 .. N
    BY <1>1
  <2> QED
    BY <1>2, <2>1, AfterKeeps DEF N
<1>5. N \in T
  <2> HIDE DEF T
  <2>1. \A n \in 0 .. N : n \in T
    BY <1>1, <1>3, <1>4, UpTo
  <2> QED
    BY <1>1, <2>1
<1>6. Ended(o, q, N, loop[N])
  <2>1. ~ Running(o, q, N, loop[N])
    BY <1>1 DEF Running
  <2> QED
    BY <1>5, <2>1
<1>7. loop[N].unknown \in SUBSET Words
  <2>1. loop[N] \in States
    BY <1>1, <1>2
  <2> QED
    BY <2>1 DEF States
<1>8. Process(o, q) = [refs |-> loop[N].refs, unknown |-> loop[N].unknown]
  BY DEF Process, loop, N
<1> QED
  BY <1>6, <1>7, <1>8 DEF Ended

-----------------------------------------------------------------------------
(* What this says of an answer.                                            *)

(* The references of an answer are those of phrases that the query         *)
(* matches, within the frequency limit, once each and by descending        *)
(* frequency; with unknown words come none, and then no phrase matches.    *)
THEOREM ProcessSound ==
  ASSUME NEW o, IsOptions(o), NEW q, IsQuery(q)
  PROVE  LET s == Process(o, q).refs
         IN /\ s \in Seq(AllRefs) /\ Range(s) \subseteq Candidates(o, q)
            /\ Cardinality(Range(s)) = Len(s) /\ Falling(s)
            /\ Process(o, q).unknown # {} => Matches(q) = {} /\ s = <<>>
<1> DEFINE s == Process(o, q).refs
<1>1. PICK hits : Outcome(o, q, hits) /\ s = FirstN(hits, o.count)
  BY ProcessOutcome
<1>2. /\ hits \in Seq(AllRefs) /\ Falling(hits) /\ Unrepeated(hits)
      /\ Range(hits) \subseteq Candidates(o, q) /\ o.count \in Nat
  BY <1>1 DEF Outcome, IsOptions
<1> HIDE DEF s
<1>3. s \in Seq(AllRefs) /\ Falling(s) /\ Unrepeated(s) /\ Range(s) \subseteq Range(hits)
  BY <1>1, <1>2, FirstType
<1>4. Cardinality(Range(s)) = Len(s)
  BY <1>3, ElementsCount
<1>5. ASSUME Process(o, q).unknown # {} PROVE Matches(q) = {} /\ s = <<>>
  <2>1. Matches(q) = {}
    BY <1>5, ProcessOutcome
  <2>2. Candidates(o, q) = {}
    BY <2>1 DEF Candidates
  <2> QED
    BY <1>2, <1>3, <2>1, <2>2, NoElements
<1> QED
  BY <1>2, <1>3, <1>4, <1>5 DEF s

(* What an answer leaves out of the candidates: nothing that is more       *)
(* frequent than one that was returned if lists are read from the start;   *)
(* otherwise also what is in front of all, for one word only at the limit. *)
(* Lists that are also read to the end leave out only what is not asked.   *)
THEOREM ProcessLoses ==
  ASSUME Monotone, NEW o, IsOptions(o), NEW q, IsQuery(q)
  PROVE  LET C == Candidates(o, q)
             s == Process(o, q).refs
             S == Range(s)
         IN /\ ~ Indexed => \A c \in C \ S : Below(c, S)
            /\ \A c \in C \ S, r \in S : r.freq < c.freq =>
                 Above(c, S) /\ (Len(UnitOrder(q)) = 1 => c.freq = Bound(o, q))
            /\ Whole /\ Units(q) # {} => Len(s) = Smaller(o.count, Cardinality(C))
<1> DEFINE C == Candidates(o, q)
           s == Process(o, q).refs
           S == Range(s)
<1>1. PICK hits : Outcome(o, q, hits) /\ s = FirstN(hits, o.count)
  BY ProcessOutcome
<1>2. /\ hits \in Seq(AllRefs) /\ Falling(hits) /\ Unrepeated(hits)
      /\ Range(hits) \subseteq C /\ o.count \in Nat
      /\ Units(q) = {} => hits = <<>>
      /\ Units(q) # {} =>
           /\ Spans(Range(hits), C)
           /\ Len(UnitOrder(q)) = 1 =>
                \A c \in C \ Range(hits) : c.freq = Bound(o, q) \/ Below(c, Range(hits))
  BY <1>1 DEF Outcome, IsOptions
<1>3. \A c \in C : c.freq \in Nat
  BY CandidateType
<1> HIDE DEF C, s
<1>4. /\ s \in Seq(AllRefs) /\ Len(s) = Smaller(o.count, Len(hits)) /\ S \subseteq Range(hits)
      /\ \A x \in Range(hits) : x \in S \/ \A r \in S : x.freq <= r.freq
  BY <1>1, <1>2, FirstType
<1>5. \A x \in Range(hits) \ S : Below(x, S)
  BY <1>4 DEF Below
<1>6. \A x : /\ Below(x, Range(hits)) => Below(x, S)
             /\ Above(x, Range(hits)) => Above(x, S)
  BY <1>4 DEF Below, Above
<1>7. CASE Units(q) = {}
  <2>1. S = {}
    BY <1>2, <1>4, <1>7 DEF Range
  <2>2. \A c \in C \ S : Below(c, S)
    BY <2>1 DEF Below
  <2> QED
    BY <1>7, <2>1, <2>2 DEF C, s
<1>8. CASE Units(q) # {}
  <2>1. \A c \in C \ S : c \in Range(hits) \ S \/ c \in C \ Range(hits)
    OBVIOUS
  <2>2. ~ Indexed => \A c \in C \ S : Below(c, S)
    BY <1>2, <1>5, <1>6, <1>8, <2>1 DEF Spans
  <2>3. ASSUME NEW c \in C \ S, NEW r \in S, r.freq < c.freq
        PROVE  Above(c, S) /\ (Len(UnitOrder(q)) = 1 => c.freq = Bound(o, q))
    <3>1. c.freq \in Nat /\ r.freq \in Nat
      BY <1>2, <1>3, <1>4
    <3>2. ~ Below(c, S)
      BY <2>3, <3>1 DEF Below
    <3>3. c \in C \ Range(hits) /\ ~ Below(c, Range(hits))
      BY <1>5, <1>6, <2>1, <3>2
    <3>4. Above(c, Range(hits))
      BY <1>2, <1>8, <3>3 DEF Spans
    <3> QED
      BY <1>2, <1>6, <1>8, <3>3, <3>4
  <2>4. ASSUME Whole PROVE Len(s) = Smaller(o.count, Cardinality(C))
    <3>1. Range(hits) = C
      BY <1>2, <1>8, <2>4 DEF Spans
    <3> QED
      BY <1>2, <1>4, <3>1, ElementsCount
  <2> QED
    BY <2>2, <2>3, <2>4 DEF C, s
<1> QED
  BY <1>7, <1>8

(* Where lists are read as a whole, an answer is made from the last list   *)
(* that is read.                                                           *)
THEOREM ProcessWhole ==
  ASSUME Monotone, Whole, NEW o, IsOptions(o), NEW q, IsQuery(q), Units(q) # {}
  PROVE  Process(o, q).refs =
           FirstN(ElementsAt(LastList(q), PlacesOf(LastList(q), Candidates(o, q))), o.count)
BY ProcessOutcome DEF Outcome

=============================================================================
