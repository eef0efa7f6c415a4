-------------------------- MODULE IndexBuildProofs --------------------------
(***************************************************************************)
(* Proofs about IndexBuild: what a build leaves, for any collections, any  *)
(* number of commands and stops, and any clean-up between them.            *)
(***************************************************************************)
EXTENDS IndexBuild, ListsProofs

(* The mark of a component that was begun is no content: all contents are  *)
(* functions (records, sequences, maps from keys to lists).                *)
PartialIsApart == Partial # [c \in DOMAIN Partial |-> Partial[c]]

Numbers == 1 .. 5
HasPart(parts_, i) == Components[i] \in DOMAIN parts_
HasWhole(parts_, i) == HasPart(parts_, i) /\ parts_[Components[i]] # Partial

(* The components in a directory were begun in their order, each after the *)
(* one before it had ended.                                                *)
InOrder(parts_) == \A j \in Numbers : HasPart(parts_, j) => \A i \in 1 .. j - 1 : HasWhole(parts_, i)

(* The n-th one is the next to begin or to end.                            *)
BuiltUpTo(parts_, n) ==
  /\ \A i \in 1 .. n - 1 : HasWhole(parts_, i)
  /\ \A i \in n + 1 .. 5 : ~ HasPart(parts_, i)

(* The inductive invariant.  A stop leaves the components in order; the    *)
(* next build begins in a directory without components.                    *)
OrderInv ==
  /\ mode \in {"plain"} \cup MergeDirs
  /\ at \in Nat \ {0}
  /\ step \in {"partition", "merge", "open"} => at = 1
  /\ index = [p \in Places |-> index[p]]
  /\ \A p \in Places : index[p] = None \/ InOrder(index[p])
  /\ step = "build" => at \in Numbers /\ BuiltUpTo(index[Place], at)

(* The components have five names.                                         *)
LEMMA ComponentNames ==
  /\ Len(Components) = 5
  /\ \A i, j \in Numbers : Components[i] = Components[j] => i = j
  /\ Components[1] = "phrase-corpus" /\ Components[2] = "phrase-dictionary"
  /\ Components[3] = "phrase-index" /\ Components[4] = "postlist-index"
  /\ Components[5] = "regex-vocabulary"
BY DEF Components, Numbers

(* The directories of an output.                                           *)
LEMMA PlaceType ==
  ASSUME OrderInv
  PROVE  Place \in Places /\ "out" \in Places
BY DEF OrderInv, Place, Places, Merging, MergeDirs

(* Nothing was begun in an empty directory.                                *)
LEMMA EmptyInOrder == InOrder(<<>>) /\ BuiltUpTo(<<>>, 1)
BY DEF InOrder, BuiltUpTo, HasPart, Numbers

(* What a component has is not the mark of one that was begun.             *)
LEMMA BuiltIsApart ==
  ASSUME PartialIsApart, NEW n \in Numbers
  PROVE  Built(Components[n]) # Partial
<1>1. CorpusOf(source[Place].lines) # Partial
  BY DEF PartialIsApart, CorpusOf
<1>2. Build(DictionaryRecords(Corpus.txt)) # Partial
  <2> DEFINE r == DictionaryRecords(Corpus.txt)
  <2> HIDE DEF r
  <2>1. Build(r) = [i \in DOMAIN Build(r) |-> Build(r)[i]]
    BY DEF Build
  <2> QED
    BY <2>1 DEF PartialIsApart, r
<1>3. PhraseIndexOf(Corpus.txt) # Partial
  <2> DEFINE lines == Corpus.txt
  <2> HIDE DEF lines
  <2>1. PhraseIndexOf(lines) = [i \in DOMAIN PhraseIndexOf(lines) |-> PhraseIndexOf(lines)[i]]
    BY DEF PhraseIndexOf
  <2> QED
    BY <2>1 DEF PartialIsApart, lines
<1>4. PostlistIndexOf(index[Place]["phrase-index"]) # Partial
  <2> DEFINE lists == index[Place]["phrase-index"]
  <2> HIDE DEF lists
  <2>1. PostlistIndexOf(lists) = [i \in DOMAIN PostlistIndexOf(lists) |-> PostlistIndexOf(lists)[i]]
    BY DEF PostlistIndexOf
  <2> QED
    BY <2>1 DEF PartialIsApart, lists
<1>5. VocabularyOf(Corpus) # Partial
  <2> DEFINE corpus == Corpus
  <2> HIDE DEF corpus
  <2>1. VocabularyOf(corpus) = [i \in DOMAIN VocabularyOf(corpus) |-> VocabularyOf(corpus)[i]]
    BY DEF VocabularyOf, Ordered
  <2> QED
    BY <2>1 DEF PartialIsApart, corpus
<1> HIDE DEF Corpus
<1>6. n = 1 \/ n = 2 \/ n = 3 \/ n = 4 \/ n = 5
  BY DEF Numbers
<1> QED
  BY <1>1, <1>2, <1>3, <1>4, <1>5, <1>6, ComponentNames DEF Built

(* Components that are built up to one of them are in order.               *)
LEMMA BuiltIsInOrder ==
  ASSUME NEW files, NEW n \in Nat, BuiltUpTo(files, n)
  PROVE  InOrder(files)
<1> SUFFICES ASSUME NEW j \in Numbers, HasPart(files, j), NEW i \in 1 .. j - 1
             PROVE  HasWhole(files, i)
  BY DEF InOrder
<1>1. j <= n
  BY DEF Numbers, BuiltUpTo
<1> QED
  BY <1>1 DEF Numbers, BuiltUpTo

(* A component is begun after those before it.                             *)
LEMMA BeginKeepsOrder ==
  ASSUME NEW files, NEW n \in Numbers, BuiltUpTo(files, n)
  PROVE  BuiltUpTo(Put(files, Components[n], Partial), n)
<1> DEFINE new == Put(files, Components[n], Partial)
<1>1. /\ DOMAIN new = {Components[n]} \cup DOMAIN files
      /\ \A d \in DOMAIN files : d # Components[n] => new[d] = files[d]
  BY DEF Put
<1> HIDE DEF new
<1>2. \A i \in 1 .. n - 1 : HasWhole(new, i)
  BY <1>1, ComponentNames DEF BuiltUpTo, HasWhole, HasPart, Numbers
<1>3. \A i \in n + 1 .. 5 : ~ HasPart(new, i)
  BY <1>1, ComponentNames DEF BuiltUpTo, HasPart, Numbers
<1> QED
  BY <1>2, <1>3 DEF BuiltUpTo, new

(* A component that has ended lets the next one begin.                     *)
LEMMA EndKeepsOrder ==
  ASSUME NEW files, NEW n \in Numbers, BuiltUpTo(files, n), NEW content, content # Partial
  PROVE  BuiltUpTo(Put(files, Components[n], content), n + 1)
<1> DEFINE new == Put(files, Components[n], content)
<1>1. /\ DOMAIN new = {Components[n]} \cup DOMAIN files
      /\ new[Components[n]] = content
      /\ \A d \in DOMAIN files : d # Components[n] => new[d] = files[d]
  BY DEF Put
<1> HIDE DEF new
<1>2. \A i \in 1 .. n : HasWhole(new, i)
  BY <1>1, ComponentNames DEF BuiltUpTo, HasWhole, HasPart, Numbers
<1>3. \A i \in n + 1 .. 5 : ~ HasPart(new, i)
  BY <1>1, ComponentNames DEF BuiltUpTo, HasPart, Numbers
<1> QED
  BY <1>2, <1>3 DEF BuiltUpTo, Numbers, new

-----------------------------------------------------------------------------
(* The invariant.                                                          *)

(* Before the first command there is no component anywhere.                *)
LEMMA OrderHolds == Init => OrderInv
<1> SUFFICES ASSUME Init
             PROVE  OrderInv
  OBVIOUS
<1>1. /\ mode = "plain" /\ at = 1 /\ step = "idle"
      /\ index = [p \in Places |-> index[p]]
      /\ \A p \in Places : index[p] = None \/ index[p] = <<>>
  BY DEF Init
<1> QED
  BY <1>1, EmptyInOrder DEF OrderInv

(* A step that leaves the index alone, and begins no build, keeps the      *)
(* order if its command starts with the first component.                   *)
LEMMA OrderIsLeftAlone ==
  ASSUME OrderInv, UNCHANGED index, step' # "build",
         mode' \in {"plain"} \cup MergeDirs, at' \in Nat \ {0},
         step' \in {"partition", "merge", "open"} => at' = 1
  PROVE  OrderInv'
BY DEF OrderInv, Places, MergeDirs

(* The steps before the output is opened, the failures, the stops and the  *)
(* new commands leave the index alone.                                     *)
LEMMA OrderBeside ==
  ASSUME OrderInv,
         \/ \E in \in Inputs, m \in {"plain"} \cup MergeDirs : Run(in, m)
         \/ PartitionFails \/ PartitionFiles \/ MergeEnds \/ Rename \/ Stop
  PROVE  OrderInv'
<1>1. CASE \E in \in Inputs, m \in {"plain"} \cup MergeDirs : Run(in, m)
  <2>1. /\ UNCHANGED index /\ at' = 1 /\ step' # "build"
        /\ mode' \in {"plain"} \cup MergeDirs
    BY <1>1 DEF Run
  <2> QED
    BY <2>1, OrderIsLeftAlone
<1>2. CASE PartitionFails \/ PartitionFiles \/ MergeEnds \/ Rename \/ Stop
  <2>1. /\ UNCHANGED <<index, mode, at>> /\ step' # "build"
        /\ step' \in {"partition", "merge", "open"} => step \in {"partition", "merge", "open"}
    BY <1>2 DEF PartitionFails, PartitionFiles, MergeEnds, Rename, Stop, Fail, Goto
  <2>2. mode' \in {"plain"} \cup MergeDirs /\ at' \in Nat \ {0}
    BY <2>1 DEF OrderInv
  <2>3. step' \in {"partition", "merge", "open"} => at' = 1
    BY <2>1 DEF OrderInv
  <2> QED
    BY <2>1, <2>2, <2>3, OrderIsLeftAlone
<1> QED
  BY <1>1, <1>2

(* Merging a file, and removing a merge directory, change no variable of   *)
(* the invariant; nor does a step that changes nothing.                    *)
LEMMA OrderUntouched ==
  ASSUME OrderInv, MergeFile \/ RemoveMergeDir \/ UNCHANGED vars
  PROVE  OrderInv'
<1>1. UNCHANGED <<mode, at, step, index>>
  BY DEF MergeFile, RemoveMergeDir, vars, build
<1> QED
  BY <1>1 DEF OrderInv, Place, Merging, BuiltUpTo, HasWhole, HasPart, InOrder

(* The output directory is empty when the build begins.                    *)
LEMMA OrderOpened ==
  ASSUME OrderInv, OpenOutput
  PROVE  OrderInv'
<1>1. CASE Empty(Place)
  <2>1. /\ index' = [p \in Places |-> IF p \in {Place, "out"} /\ index[p] = None THEN <<>> ELSE index[p]]
        /\ step = "open" /\ step' = "build" /\ UNCHANGED <<mode, at>>
    BY <1>1 DEF OpenOutput, Goto
  <2>2. Place' = Place /\ Place \in Places /\ at' = 1
    BY <2>1, PlaceType DEF Place, Merging, OrderInv
  <2>3. index[Place] = None \/ index[Place] = <<>>
    BY <1>1 DEF Empty
  <2>4. index'[Place'] = <<>>
    BY <2>1, <2>2, <2>3
  <2>5. \A p \in Places : index'[p] = index[p] \/ index'[p] = <<>>
    BY <2>1
  <2>6. \A p \in Places : index'[p] = None \/ InOrder(index'[p])
    BY <2>5, EmptyInOrder DEF OrderInv
  <2>7. BuiltUpTo(index'[Place'], at')
    BY <2>2, <2>4, EmptyInOrder
  <2>8. index' = [p \in Places |-> index'[p]]
    BY <2>1
  <2> QED
    BY <2>1, <2>2, <2>6, <2>7, <2>8 DEF OrderInv, Numbers
<1>2. CASE ~ Empty(Place)
  <2>1. UNCHANGED <<index, mode, at>> /\ step' = "failed"
    BY <1>2 DEF OpenOutput, Fail
  <2>2. mode' \in {"plain"} \cup MergeDirs /\ at' \in Nat \ {0}
    BY <2>1 DEF OrderInv
  <2> QED
    BY <2>1, <2>2, OrderIsLeftAlone
<1> QED
  BY <1>1, <1>2

(* A step of the build changes one component, and leaves its directory in  *)
(* order.                                                                  *)
LEMMA OrderWith ==
  ASSUME OrderInv, step = "build", NEW content, With(Components[at], content),
         InOrder(Put(index[Place], Components[at], content))
  PROVE  /\ index' = [p \in Places |-> index'[p]]
         /\ \A p \in Places : index'[p] = None \/ InOrder(index'[p])
         /\ index'[Place] = Put(index[Place], Components[at], content)
<1> DEFINE new == Put(index[Place], Components[at], content)
<1>1. index' = [index EXCEPT ![Place] = new] /\ InOrder(new) /\ Place \in Places
  BY PlaceType DEF With
<1>2. index = [p \in Places |-> index[p]] /\ \A p \in Places : index[p] = None \/ InOrder(index[p])
  BY DEF OrderInv
<1> HIDE DEF new
<1>3. index' = [p \in Places |-> IF p = Place THEN new ELSE index[p]]
  BY <1>1, <1>2
<1> QED
  BY <1>1, <1>2, <1>3 DEF new

(* A component begins.                                                     *)
LEMMA OrderBegun ==
  ASSUME OrderInv, BeginComponent
  PROVE  OrderInv'
<1>1. /\ step = "build" /\ With(Components[at], Partial)
      /\ UNCHANGED <<step, mode, at>> /\ Place' = Place
  BY DEF BeginComponent, build, Place, Merging
<1>2. at \in Numbers /\ BuiltUpTo(index[Place], at)
  BY <1>1 DEF OrderInv
<1>3. BuiltUpTo(Put(index[Place], Components[at], Partial), at)
  BY <1>2, BeginKeepsOrder
<1>4. InOrder(Put(index[Place], Components[at], Partial))
  BY <1>2, <1>3, BuiltIsInOrder DEF Numbers
<1>5. /\ index' = [p \in Places |-> index'[p]]
      /\ \A p \in Places : index'[p] = None \/ InOrder(index'[p])
      /\ index'[Place] = Put(index[Place], Components[at], Partial)
  BY <1>1, <1>4, OrderWith
<1>6. BuiltUpTo(index'[Place'], at')
  BY <1>1, <1>3, <1>5
<1> QED
  BY <1>1, <1>2, <1>5, <1>6 DEF OrderInv

(* A component ends, or the build fails on it.                             *)
LEMMA OrderEnded ==
  ASSUME OrderInv, EndComponent, PartialIsApart
  PROVE  OrderInv'
<1>1. step = "build" /\ at \in Numbers /\ BuiltUpTo(index[Place], at)
  BY DEF EndComponent, OrderInv
<1>2. CASE ~ Buildable(Components[at])
  <2>1. UNCHANGED <<index, mode, at>> /\ step' = "failed"
    BY <1>2 DEF EndComponent, Fail
  <2>2. mode' \in {"plain"} \cup MergeDirs /\ at' \in Nat \ {0}
    BY <2>1 DEF OrderInv
  <2> QED
    BY <2>1, <2>2, OrderIsLeftAlone
<1>3. CASE Buildable(Components[at])
  <2> DEFINE content == Built(Components[at])
  <2>1. /\ With(Components[at], content) /\ at' = at + 1 /\ mode' = mode
        /\ step' = IF at < Len(Components) THEN "build" ELSE IF Merging THEN "rename" ELSE "done"
    BY <1>3 DEF EndComponent
  <2>2. content # Partial
    BY <1>1, BuiltIsApart
  <2> HIDE DEF content
  <2>3. BuiltUpTo(Put(index[Place], Components[at], content), at + 1)
    BY <1>1, <2>2, EndKeepsOrder
  <2>4. InOrder(Put(index[Place], Components[at], content))
    BY <1>1, <2>3, BuiltIsInOrder DEF Numbers
  <2>5. /\ index' = [p \in Places |-> index'[p]]
        /\ \A p \in Places : index'[p] = None \/ InOrder(index'[p])
        /\ index'[Place] = Put(index[Place], Components[at], content)
    BY <1>1, <2>1, <2>4, OrderWith
  <2>6. Place' = Place
    BY <2>1 DEF Place, Merging
  <2>7. step' = "build" => at' \in Numbers /\ BuiltUpTo(index'[Place'], at')
    <3>1. step' = "build" => at < 5
      BY <2>1, ComponentNames
    <3> QED
      BY <1>1, <2>1, <2>3, <2>5, <2>6, <3>1 DEF Numbers
  <2>8. step' \notin {"partition", "merge", "open"} /\ at' \in Nat \ {0}
    BY <1>1, <2>1 DEF Numbers
  <2> QED
    BY <2>1, <2>5, <2>7, <2>8 DEF OrderInv
<1> QED
  BY <1>2, <1>3

(* Nothing is left of a removed output.                                    *)
LEMMA OrderRemoved ==
  ASSUME OrderInv, RemoveOut
  PROVE  OrderInv'
<1>1. /\ index' = [p \in Places |-> None] /\ UNCHANGED <<step, mode, at>>
      /\ step # "build"
  BY DEF RemoveOut, Resting, build
<1> QED
  BY <1>1 DEF OrderInv

(* No step of anybody leaves the components out of order.                  *)
LEMMA OrderIsKept ==
  ASSUME OrderInv, [Next]_vars, PartialIsApart
  PROVE  OrderInv'
BY OrderBeside, OrderUntouched, OrderOpened, OrderBegun, OrderEnded, OrderRemoved DEF Next, Program

(* In order, an index that has a phrase index has all before it.           *)
LEMMA OrderIsEnough == OrderInv => OpenedIsComplete
<1> SUFFICES ASSUME OrderInv, NEW p \in Places, Opens(p)
             PROVE  IsComplete(p, "phrase-corpus") /\ IsComplete(p, "phrase-dictionary")
  BY DEF OpenedIsComplete
<1>1. index[p] # None /\ HasPart(index[p], 3)
  BY ComponentNames DEF Opens, IsComplete, Has, HasPart
<1>2. HasWhole(index[p], 1) /\ HasWhole(index[p], 2)
  BY <1>1 DEF OrderInv, InOrder, Numbers
<1> QED
  BY <1>1, <1>2, ComponentNames DEF IsComplete, Has, HasWhole, HasPart

(* What the service can open is complete, whichever builds were stopped,   *)
(* failed or cleaned up before (BuildNetspeak(), Netspeak::initialize()).  *)
THEOREM OpenedIndexIsComplete ==
  ASSUME PartialIsApart
  PROVE  Spec => []OpenedIsComplete
<1>1. OrderInv /\ [Next]_vars => OrderInv'
  BY OrderIsKept
<1> QED
  BY OrderHolds, <1>1, OrderIsEnough, PTL DEF Spec

-----------------------------------------------------------------------------
(* Sets as sequences, lines and sums.                                      *)

(* The lines that files hold: those of the inputs, and sums of them.       *)
Items == [tab : BOOLEAN, words : InputTexts, freq : Nat]

(* The fields of a line.                                                   *)
LEMMA ItemType ==
  ASSUME NEW items \in Seq(Items), NEW i \in DOMAIN items
  PROVE  /\ items[i] \in Items
         /\ items[i].tab \in BOOLEAN /\ items[i].words \in InputTexts /\ items[i].freq \in Nat
<1>1. items[i] \in Items
  OBVIOUS
<1> QED
  BY <1>1 DEF Items

(* Half of a bijection is an injection, the other half a surjection.       *)
LEMMA BijectionFacts ==
  ASSUME NEW S, NEW T, NEW f \in Bijection(S, T)
  PROVE  /\ f \in [S -> T]
         /\ \A x, y \in S : f[x] = f[y] => x = y
         /\ \A y \in T : \E x \in S : f[x] = y
BY Fun_IsBij DEF Bijection, Injection, Surjection, IsInjective

(* The values of a function on a finite set are a finite set.              *)
LEMMA ImageFinite ==
  ASSUME NEW S, IsFiniteSet(S), NEW f, DOMAIN f = S, f = [x \in S |-> f[x]],
         NEW T, T = {f[x] : x \in S}
  PROVE  IsFiniteSet(T)
<1>1. f \in [S -> T] /\ \A y \in T : \E x \in S : f[x] = y
  OBVIOUS
<1>2. f \in Surjection(S, T)
  BY <1>1, Fun_IsSurj
<1> QED
  BY <1>2, FS_Surjection

(* They are as many as the members, if the function tells these apart.     *)
LEMMA ImageSize ==
  ASSUME NEW S, IsFiniteSet(S), NEW f, DOMAIN f = S, f = [x \in S |-> f[x]],
         NEW T, T = {f[x] : x \in S}, \A x, y \in S : f[x] = f[y] => x = y
  PROVE  Cardinality(T) = Cardinality(S)
<1>1. f \in [S -> T] /\ \A y \in T : \E x \in S : f[x] = y
  OBVIOUS
<1>2. f \in Bijection(S, T)
  BY <1>1, Fun_IsBij
<1> QED
  BY <1>2, FS_Bijection DEF ExistsBijection

(* SetToSeq lists a finite set, each member once.                          *)
LEMMA SetToSeqLists ==
  ASSUME NEW S, IsFiniteSet(S)
  PROVE  /\ SetToSeq(S) \in Seq(S)
         /\ \A x \in S : \E i \in DOMAIN SetToSeq(S) : SetToSeq(S)[i] = x
         /\ \A i, j \in DOMAIN SetToSeq(S) : SetToSeq(S)[i] = SetToSeq(S)[j] => i = j
<1> DEFINE n == Cardinality(S)
           s == SetToSeq(S)
<1>1. n \in Nat /\ IsFiniteSet(1 .. n) /\ Cardinality(1 .. n) = n
  BY FS_CardinalityType, FS_Interval
<1>2. PICK f \in Bijection(1 .. n, S) : TRUE
  BY <1>1, FS_SameCardinalityBij DEF ExistsBijection
<1>3. f \in [1 .. n -> S] /\ IsInjective(f)
  <2> HIDE DEF n, s
  <2>1. f \in [1 .. n -> S] /\ \A x, y \in 1 .. n : f[x] = f[y] => x = y
    BY <1>2, BijectionFacts
  <2>2. DOMAIN f = 1 .. n
    BY ONLY <2>1
  <2> QED
    BY ONLY <2>1, <2>2 DEF IsInjective
<1>4. s \in [1 .. n -> S] /\ IsInjective(s)
  BY <1>3 DEF SetToSeq
<1> HIDE DEF s, n
<1>5. DOMAIN s = 1 .. n /\ \A i, j \in 1 .. n : s[i] = s[j] => i = j
  BY <1>4 DEF IsInjective
<1>6. s \in Injection(1 .. n, S)
  BY <1>4, <1>5, Fun_IsInj
<1>7. s \in Surjection(1 .. n, S)
  BY <1>1, <1>6, FS_Injection DEF n
<1>8. \A x \in S : \E i \in 1 .. n : s[i] = x
  BY <1>7 DEF Surjection
<1>9. s \in Seq(S)
  BY <1>1, <1>4
<1> QED
  BY <1>5, <1>8, <1>9 DEF s

(* A sequence has finitely many texts.                                     *)
LEMMA TextsFinite ==
  ASSUME NEW items \in Seq(Items)
  PROVE  /\ IsFiniteSet(Texts(items)) /\ Texts(items) \subseteq InputTexts
         /\ \A i \in DOMAIN items : items[i].words \in Texts(items)
<1> DEFINE f == [i \in DOMAIN items |-> items[i].words]
<1>1. DOMAIN items = 1 .. Len(items) /\ Len(items) \in Nat
  OBVIOUS
<1>2. IsFiniteSet(DOMAIN items)
  BY <1>1, FS_Interval
<1>3. DOMAIN f = DOMAIN items /\ f = [i \in DOMAIN items |-> f[i]] /\ \A i \in DOMAIN items : f[i] = items[i].words
  OBVIOUS
<1> HIDE DEF f
<1>4. IsFiniteSet({f[i] : i \in DOMAIN items})
  BY <1>2, <1>3, ImageFinite
<1>5. Texts(items) = {f[i] : i \in DOMAIN items}
  BY <1>3 DEF Texts
<1>6. \A i \in DOMAIN items : items[i].words \in InputTexts
  BY ItemType
<1> QED
  BY <1>4, <1>5, <1>6 DEF Texts

(* Sum goes through the lines from the first to the last.                  *)
LEMMA SumSteps ==
  ASSUME NEW items \in Seq(Items), NEW t
  PROVE  \E g \in [0 .. Len(items) -> Nat] :
           /\ g[0] = 0
           /\ \A i \in 1 .. Len(items) :
                g[i] = g[i - 1] + (IF items[i].words = t THEN items[i].freq ELSE 0)
           /\ Sum(items, t) = g[Len(items)]
<1> DEFINE N == Len(items)
           own == [i \in 1 .. N |-> IF items[i].words = t THEN items[i].freq ELSE 0]
           f == [i \in 1 .. N |-> [m \in Nat |-> m + own[i]]]
           sum == CHOOSE sum : sum = [i \in 0 .. N |->
                     IF i = 0 THEN 0
                     ELSE sum[i - 1] + (IF items[i].words = t THEN items[i].freq ELSE 0)]
<1>1. N \in Nat /\ DOMAIN items = 1 .. N
  OBVIOUS
<1>0. \A i \in 1 .. N : items[i].freq \in Nat
  BY <1>1, ItemType
<1>2. /\ \A i \in 1 .. N : own[i] \in Nat
      /\ \A i \in 1 .. N : own[i] = IF items[i].words = t THEN items[i].freq ELSE 0
  BY <1>0
<1>3. Sum(items, t) = sum[N]
  BY DEF Sum
<1> HIDE DEF own
<1>4. f \in [1 .. N -> [Nat -> Nat]]
  BY <1>2
<1>5. \A i \in 1 .. N, m \in Nat : f[i][m] = m + own[i]
  OBVIOUS
<1> HIDE DEF f, N
<1>6. PICK g \in [0 .. N -> Nat] : g[0] = 0 /\ \A i \in 1 .. N : g[i] = f[i][g[i - 1]]
  <2>1. Iterable(N, Nat, 0, f)
    BY <1>1, <1>4 DEF Iterable
  <2>2. PICK g \in [0 .. N -> Nat] : Iterates(g, N, 0, f)
    BY <2>1, IterationExists
  <2> QED
    BY <2>2 DEF Iterates
<1>7. \A i \in 1 .. N : i - 1 \in 0 .. N /\ i \in 0 .. N /\ i # 0
  BY ONLY <1>1
<1>8. \A i \in 1 .. N : g[i] = g[i - 1] + own[i]
  BY <1>5, <1>6, <1>7
<1>9. \A i \in 0 .. N : i = 0 \/ i \in 1 .. N
  BY ONLY <1>1
<1>10. g = [i \in 0 .. N |-> IF i = 0 THEN 0 ELSE g[i - 1] + (IF items[i].words = t THEN items[i].freq ELSE 0)]
  BY <1>2, <1>6, <1>8, <1>9
<1>11. sum = [i \in 0 .. N |-> IF i = 0 THEN 0 ELSE sum[i - 1] + (IF items[i].words = t THEN items[i].freq ELSE 0)]
  BY <1>10
<1> HIDE DEF sum
<1>12. sum[0] = 0 /\ \A i \in 1 .. N : sum[i] = sum[i - 1] + own[i]
  <2>1. 0 \in 0 .. N
    BY ONLY <1>1
  <2> QED
    BY ONLY <1>2, <1>7, <1>11, <2>1
<1> DEFINE T == {i \in 0 .. N : sum[i] \in Nat}
<1>13. 0 \in T /\ \A i \in 1 .. N : i - 1 \in T => i \in T
  <2>1. 0 \in T
    BY ONLY <1>1, <1>12
  <2>2. ASSUME NEW i \in 1 .. N, i - 1 \in T PROVE i \in T
    BY ONLY <1>2, <1>7, <1>12, <2>2
  <2> QED
    BY <2>1, <2>2
<1>14. \A i \in 0 .. N : i \in T
  <2> HIDE DEF T
  <2> QED
    BY <1>1, <1>13, UpTo
<1>15. sum \in [0 .. N -> Nat]
  BY <1>11, <1>14
<1> QED
  BY <1>2, <1>3, <1>12, <1>15 DEF N

(* The lines of a part that has all lines of a text have the same sum.     *)
LEMMA SumOfPart ==
  ASSUME NEW items \in Seq(Items), NEW I \in SUBSET (DOMAIN items), NEW t,
         \A i \in DOMAIN items : items[i].words = t => i \in I
  PROVE  Sum(ElementsAt(items, I), t) = Sum(items, t)
<1> DEFINE N == Len(items)
           e == ElementsAt(items, I)
           order == Ascending(I)
           before(n) == {y \in I : y <= n}
           cnt(n) == Cardinality(before(n))
           own(l) == IF l.words = t THEN l.freq ELSE 0
<1>1. N \in Nat /\ DOMAIN items = 1 .. N
  OBVIOUS
<1>2. I \in SUBSET Nat /\ IsFiniteSet(I) /\ StrictlyOrders(Less, I)
  BY PositionsFinite
<1>3. e \in Seq(Items) /\ DOMAIN e = 1 .. Cardinality(I) /\ \A n \in DOMAIN e : e[n] = items[order[n]]
  <2>1. e \in Seq(Items)
    BY ElementsAtType
  <2>2. DOMAIN order = 1 .. Cardinality(I)
    BY DEF Ascending, Ordered
  <2>3. e = [n \in DOMAIN order |-> items[order[n]]]
    BY ElementsAtPositions
  <2> HIDE DEF e, order
  <2> QED
    BY <2>1, <2>2, <2>3
<1>4. Cardinality(I) \in Nat
  BY <1>2, FS_CardinalityType
<1> HIDE DEF e
<1>5. Len(e) = Cardinality(I)
  BY <1>3, <1>4
<1>6. PICK g \in [0 .. N -> Nat] :
        g[0] = 0 /\ (\A i \in 1 .. N : g[i] = g[i - 1] + own(items[i])) /\ Sum(items, t) = g[N]
  BY SumSteps
<1>7. PICK h \in [0 .. Len(e) -> Nat] :
        h[0] = 0 /\ (\A i \in 1 .. Len(e) : h[i] = h[i - 1] + own(e[i])) /\ Sum(e, t) = h[Len(e)]
  BY <1>3, SumSteps
<1> HIDE DEF N, order, own
<1>8. \A n \in 0 .. N : before(n) \in SUBSET I /\ IsFiniteSet(before(n)) /\ cnt(n) \in Nat
  BY <1>2, FS_Subset, FS_CardinalityType
<1>9. \A n \in I : cnt(n - 1) + 1 \in 1 .. Cardinality(I) /\ order[cnt(n - 1) + 1] = n
  <2> SUFFICES ASSUME NEW n \in I PROVE cnt(n - 1) + 1 \in 1 .. Cardinality(I) /\ order[cnt(n - 1) + 1] = n
    OBVIOUS
  <2>1. {y \in I : <<y, n>> \in Less} = before(n - 1)
    BY <1>2 DEF Less
  <2>2. Rank(n, I, Less) = cnt(n - 1)
    BY <2>1 DEF Rank
  <2> QED
    BY <1>2, <2>2, MemberOfRank DEF Ascending, order
<1>10. \A n \in 1 .. N : n \in I => before(n) = before(n - 1) \cup {n} /\ n \notin before(n - 1)
  BY <1>2
<1>11. \A n \in 1 .. N : n \notin I => before(n) = before(n - 1)
  BY <1>2
<1>12. \A n \in 1 .. N : n - 1 \in 0 .. N /\ n \in 0 .. N
  BY <1>1
<1>13. before(0) = {} /\ before(N) = I
  BY <1>1, <1>2
<1> HIDE DEF before
<1>14. cnt(0) = 0 /\ cnt(N) = Cardinality(I)
  BY <1>13, FS_EmptySet
<1>15. \A n \in 1 .. N : n \in I => cnt(n) = cnt(n - 1) + 1
  <2> SUFFICES ASSUME NEW n \in 1 .. N, n \in I PROVE cnt(n) = cnt(n - 1) + 1
    OBVIOUS
  <2> DEFINE b == before(n - 1)
  <2>1. IsFiniteSet(b) /\ n \notin b /\ before(n) = b \cup {n}
    BY <1>8, <1>10, <1>12
  <2> HIDE DEF b
  <2>2. Cardinality(b \cup {n}) = Cardinality(b) + 1
    BY <2>1, FS_AddElement
  <2> QED
    BY <2>1, <2>2 DEF b
<1>16. \A n \in 1 .. N : n \notin I => cnt(n) = cnt(n - 1)
  BY <1>11
<1> HIDE DEF cnt
<1> DEFINE T == {n \in 0 .. N : g[n] = h[cnt(n)]}
<1>17. 0 \in T
  BY <1>1, <1>6, <1>7, <1>14
<1>18. ASSUME NEW n \in 1 .. N, n - 1 \in T PROVE n \in T
  <2>1. g[n] = g[n - 1] + own(items[n]) /\ g[n - 1] = h[cnt(n - 1)] /\ n \in 0 .. N /\ n - 1 \in 0 .. N
    BY <1>6, <1>12, <1>18
  <2>2. CASE n \in I
    <3>1. cnt(n) = cnt(n - 1) + 1 /\ cnt(n) \in 1 .. Len(e) /\ order[cnt(n)] = n
      BY <1>5, <1>9, <1>15, <2>2
    <3>2. e[cnt(n)] = items[n]
      BY <1>3, <1>5, <3>1
    <3>3. cnt(n - 1) \in Nat /\ cnt(n) - 1 = cnt(n - 1)
      BY <1>8, <2>1, <3>1 DEF cnt
    <3>4. h[cnt(n)] = h[cnt(n - 1)] + own(items[n])
      BY <1>7, <3>1, <3>2, <3>3
    <3> QED
      BY <2>1, <3>4
  <2>3. CASE n \notin I
    <3>1. own(items[n]) = 0
      BY <1>1, <2>3 DEF own
    <3>2. g[n - 1] \in Nat
      BY <1>6, <2>1
    <3>3. g[n] = g[n - 1]
      BY ONLY <2>1, <3>1, <3>2
    <3> QED
      BY <1>16, <2>1, <2>3, <3>3
  <2> QED
    BY <2>2, <2>3
<1>19. \A n \in 0 .. N : n \in T
  <2> HIDE DEF T
  <2> QED
    BY <1>1, <1>17, <1>18, UpTo
<1>20. g[N] = h[cnt(N)]
  BY <1>1, <1>19
<1> QED
  BY <1>5, <1>6, <1>7, <1>14, <1>20 DEF e

(* A sum is a number.                                                      *)
LEMMA SumIsNumber ==
  ASSUME NEW items \in Seq(Items), NEW t
  PROVE  Sum(items, t) \in Nat
<1>1. PICK g \in [0 .. Len(items) -> Nat] : Sum(items, t) = g[Len(items)]
  BY SumSteps
<1> QED
  BY <1>1

(* A merged file has a line for each text, with its sum.                   *)
LEMMA MergedPart ==
  ASSUME NEW items \in Seq(Items)
  PROVE  /\ Merged(items) \in Seq(Items)
         /\ \A i \in DOMAIN Merged(items) :
              /\ Merged(items)[i].words \in Texts(items)
              /\ Merged(items)[i].freq = Sum(items, Merged(items)[i].words)
         /\ \A t \in Texts(items) : \E i \in DOMAIN Merged(items) : Merged(items)[i].words = t
         /\ \A i, j \in DOMAIN Merged(items) : Merged(items)[i].words = Merged(items)[j].words => i = j
<1> DEFINE texts == SetToSeq(Texts(items))
           m == Merged(items)
<1>1. IsFiniteSet(Texts(items)) /\ Texts(items) \subseteq InputTexts
  BY TextsFinite
<1>2. /\ texts \in Seq(Texts(items))
      /\ \A t \in Texts(items) : \E i \in DOMAIN texts : texts[i] = t
      /\ \A i, j \in DOMAIN texts : texts[i] = texts[j] => i = j
  BY <1>1, SetToSeqLists
<1>3. m = [i \in DOMAIN texts |-> Line(texts[i], Sum(items, texts[i]))]
  BY DEF Merged
<1> HIDE DEF m, texts
<1>4. DOMAIN texts = 1 .. Len(texts) /\ Len(texts) \in Nat /\ \A i \in DOMAIN texts : texts[i] \in Texts(items)
  BY <1>2
<1>5. ASSUME NEW i \in DOMAIN texts
      PROVE  m[i] \in Items /\ m[i].words = texts[i] /\ m[i].freq = Sum(items, texts[i])
  <2>1. m[i] = [tab |-> TRUE, words |-> texts[i], freq |-> Sum(items, texts[i])]
    BY <1>3 DEF Line
  <2>2. texts[i] \in InputTexts /\ Sum(items, texts[i]) \in Nat
    BY <1>1, <1>4, SumIsNumber
  <2> QED
    BY <2>1, <2>2 DEF Items
<1>6. DOMAIN m = DOMAIN texts /\ m = [i \in 1 .. Len(texts) |-> m[i]]
  BY <1>3, <1>4
<1>7. m \in Seq(Items)
  BY <1>4, <1>5, <1>6
<1>8. ASSUME NEW i \in DOMAIN m
      PROVE  /\ i \in DOMAIN texts /\ m[i].words = texts[i]
             /\ m[i].words \in Texts(items) /\ m[i].freq = Sum(items, m[i].words)
  <2>1. i \in DOMAIN texts
    BY ONLY <1>6
  <2>2. m[i].words = texts[i] /\ m[i].freq = Sum(items, texts[i]) /\ texts[i] \in Texts(items)
    BY ONLY <1>4, <1>5, <2>1
  <2> QED
    BY ONLY <2>1, <2>2
<1>9. ASSUME NEW t \in Texts(items) PROVE \E i \in DOMAIN m : m[i].words = t
  <2>1. PICK i \in DOMAIN texts : texts[i] = t
    BY <1>2
  <2>2. i \in DOMAIN m /\ m[i].words = t
    BY ONLY <1>6, <1>8, <2>1
  <2> QED
    BY ONLY <2>2
<1>10. ASSUME NEW i \in DOMAIN m, NEW j \in DOMAIN m, m[i].words = m[j].words PROVE i = j
  BY ONLY <1>2, <1>8, <1>10
<1> QED
  BY <1>7, <1>8, <1>9, <1>10 DEF m

(* The lines of one file of a partition have the hash values of the file.  *)
LEMMA PartType ==
  ASSUME NEW all \in Seq(Items), NEW num, NEW i
  PROVE  /\ FilePart(all, num, i) \in Seq(Items)
         /\ Texts(FilePart(all, num, i)) = {t \in Texts(all) : Hash(t) % num = i}
         /\ \A t : Hash(t) % num = i => Sum(FilePart(all, num, i), t) = Sum(all, t)
<1> DEFINE I == {n \in DOMAIN all : Hash(all[n].words) % num = i}
           e == ElementsAt(all, I)
<1>1. FilePart(all, num, i) = e
  BY DEF FilePart
<1>2. /\ e \in Seq(Items)
      /\ \A n \in DOMAIN e : \E k \in I : e[n] = all[k]
      /\ \A k \in I : \E n \in DOMAIN e : e[n] = all[k]
  <2>1. I \in SUBSET (DOMAIN all)
    OBVIOUS
  <2> HIDE DEF I
  <2> QED
    BY <2>1, ElementsAtType
<1>3. \A t : Hash(t) % num = i => Sum(e, t) = Sum(all, t)
  BY SumOfPart
<1> HIDE DEF e
<1>4. Texts(e) = {t \in Texts(all) : Hash(t) % num = i}
  <2>1. ASSUME NEW n \in DOMAIN e PROVE e[n].words \in Texts(all) /\ Hash(e[n].words) % num = i
    <3>1. PICK k \in I : e[n] = all[k]
      BY <1>2
    <3> QED
      BY <3>1 DEF Texts
  <2>2. ASSUME NEW t \in Texts(all), Hash(t) % num = i PROVE t \in Texts(e)
    <3>1. PICK k \in DOMAIN all : t = all[k].words
      BY DEF Texts
    <3>2. k \in I
      BY <2>2, <3>1
    <3>3. PICK n \in DOMAIN e : e[n] = all[k]
      BY <1>2, <3>2
    <3> QED
      BY <3>1, <3>3 DEF Texts
  <2> QED
    BY <2>1, <2>2 DEF Texts
<1> QED
  BY <1>1, <1>2, <1>3, <1>4

(* The merged files of all lines, by the numbers of their partition files. *)
MergedFiles(all, num) == [i \in 0 .. num - 1 |-> Merged(FilePart(all, num, i))]

(* Each n-gram is once in the merged files, with the sum of its lines.     *)
IsMerged(lines, all) ==
  /\ Texts(lines) = Texts(all)
  /\ Len(lines) = Cardinality(Texts(all))
  /\ \A i \in DOMAIN lines : lines[i].freq = Sum(all, lines[i].words)

(* The files that are merged hold what the lines say, one after the other. *)
LEMMA MergedLines ==
  ASSUME NEW all \in Seq(Items), NEW num \in Nat \ {0}
  PROVE  /\ Joined(MergedFiles(all, num)) \in Seq(Items)
         /\ IsMerged(Joined(MergedFiles(all, num)), all)
<1> DEFINE files == MergedFiles(all, num)
           lines == Joined(files)
           of(i) == FilePart(all, num, i)
<1>1. DOMAIN files = 0 .. num - 1 /\ \A i \in 0 .. num - 1 : files[i] = Merged(of(i))
  BY DEF MergedFiles
<1>2. IsFiniteSet(0 .. num - 1) /\ 0 .. num - 1 \in SUBSET Nat
  BY FS_Interval
<1>3. ASSUME NEW i \in 0 .. num - 1
      PROVE  /\ files[i] \in Seq(Items)
             /\ \A k \in DOMAIN files[i] :
                  /\ files[i][k].words \in Texts(all) /\ Hash(files[i][k].words) % num = i
                  /\ files[i][k].freq = Sum(all, files[i][k].words)
             /\ \A t \in Texts(all) : Hash(t) % num = i => \E k \in DOMAIN files[i] : files[i][k].words = t
             /\ \A j, k \in DOMAIN files[i] : files[i][j].words = files[i][k].words => j = k
  <2>1. /\ of(i) \in Seq(Items)
        /\ Texts(of(i)) = {t \in Texts(all) : Hash(t) % num = i}
        /\ \A t : Hash(t) % num = i => Sum(of(i), t) = Sum(all, t)
    BY PartType
  <2> HIDE DEF of
  <2>2. /\ files[i] \in Seq(Items)
        /\ \A k \in DOMAIN files[i] : files[i][k].words \in Texts(of(i)) /\ files[i][k].freq = Sum(of(i), files[i][k].words)
        /\ \A t \in Texts(of(i)) : \E k \in DOMAIN files[i] : files[i][k].words = t
        /\ \A j, k \in DOMAIN files[i] : files[i][j].words = files[i][k].words => j = k
    BY <1>1, <2>1, MergedPart
  <2> QED
    BY <2>1, <2>2
<1>4. lines \in Seq(Items) /\ \E place : ListedAt(lines, place, files, 0 .. num - 1)
  <2> HIDE DEF files, of
  <2>1. \A l \in DOMAIN files : files[l] \in Seq(Items)
    BY ONLY <1>1, <1>3
  <2> QED
    BY <1>1, <1>2, <2>1, JoinedPlaces
<1>5. PICK place : ListedAt(lines, place, files, 0 .. num - 1)
  BY <1>4
<1> DEFINE N == Len(lines)
<1>6. N \in Nat /\ DOMAIN lines = 1 .. N
  BY <1>4
<1> HIDE DEF lines, files, N
<1>7. ASSUME NEW k \in 1 .. N
      PROVE  /\ place[k] = <<place[k][1], place[k][2]>>
             /\ place[k][1] \in 0 .. num - 1 /\ place[k][2] \in DOMAIN files[place[k][1]]
             /\ lines[k] = files[place[k][1]][place[k][2]]
             /\ lines[k].words \in Texts(all) /\ Hash(lines[k].words) % num = place[k][1]
             /\ lines[k].freq = Sum(all, lines[k].words)
  <2>1. /\ place[k] \in (0 .. num - 1) \X Nat
        /\ place[k][2] \in DOMAIN files[place[k][1]] /\ lines[k] = files[place[k][1]][place[k][2]]
    BY <1>5 DEF ListedAt, N
  <2> QED
    BY <1>3, <2>1
<1>8. ASSUME NEW t \in Texts(all) PROVE \E k \in 1 .. N : lines[k].words = t
  <2> DEFINE i == Hash(t) % num
  <2>1. Hash(t) \in Nat
    BY InputsAssumption, TextsFinite
  <2>2. i \in 0 .. num - 1
    BY <2>1
  <2> HIDE DEF i
  <2>3. PICK m \in DOMAIN files[i] : files[i][m].words = t
    BY <1>3, <2>2 DEF i
  <2>4. PICK k \in 1 .. N : place[k] = <<i, m>>
    BY <1>5, <2>2 DEF ListedAt, N
  <2>5. lines[k] = files[i][m]
    BY <1>7, <2>4
  <2> QED
    BY <2>3, <2>5
<1>9. ASSUME NEW j \in 1 .. N, NEW k \in 1 .. N, lines[j].words = lines[k].words PROVE j = k
  <2> DEFINE i == place[k][1]
  <2>1. place[j][1] = i /\ i \in 0 .. num - 1
    BY <1>7, <1>9
  <2>2. place[j][2] = place[k][2]
    <3>1. /\ place[j][2] \in DOMAIN files[i] /\ place[k][2] \in DOMAIN files[i]
          /\ files[i][place[j][2]].words = files[i][place[k][2]].words
      BY <1>7, <1>9, <2>1
    <3> HIDE DEF i
    <3>2. \A x, y \in DOMAIN files[i] : files[i][x].words = files[i][y].words => x = y
      BY <1>3, <2>1
    <3> QED
      BY <3>1, <3>2
  <2>3. place[j] = place[k]
    BY <1>7, <2>1, <2>2
  <2>4. \A x, y \in 1 .. N : place[x] = place[y] => x = y
    BY <1>5 DEF ListedAt, N
  <2> QED
    BY ONLY <2>3, <2>4, j \in 1 .. N, k \in 1 .. N
<1>10. Texts(lines) = Texts(all)
  <2>1. \A k \in DOMAIN lines : lines[k].words \in Texts(all)
    BY ONLY <1>6, <1>7
  <2>2. \A t \in Texts(all) : \E k \in DOMAIN lines : lines[k].words = t
    BY ONLY <1>6, <1>8
  <2>3. Texts(lines) = {lines[k].words : k \in DOMAIN lines}
    BY DEF Texts
  <2> QED
    BY ONLY <2>1, <2>2, <2>3
<1>11. N = Cardinality(Texts(all))
  <2> DEFINE f == [k \in 1 .. N |-> lines[k].words]
  <2>1. DOMAIN f = 1 .. N /\ f = [k \in 1 .. N |-> f[k]] /\ \A j, k \in 1 .. N : f[j] = f[k] => j = k
    BY <1>9
  <2>2. {f[k] : k \in 1 .. N} = Texts(all)
    BY <1>6, <1>10 DEF Texts
  <2> HIDE DEF f
  <2>3. IsFiniteSet(1 .. N) /\ Cardinality(1 .. N) = N
    BY <1>6, FS_Interval
  <2> DEFINE D == 1 .. N
  <2>4. /\ IsFiniteSet(D) /\ DOMAIN f = D /\ f = [k \in D |-> f[k]]
        /\ \A j, k \in D : f[j] = f[k] => j = k
    BY <2>1, <2>3
  <2>5. {f[k] : k \in D} = Texts(all) /\ Cardinality(D) = N
    BY <2>2, <2>3
  <2> HIDE DEF D
  <2>6. Cardinality(Texts(all)) = Cardinality(D)
    BY ONLY <2>4, <2>5, ImageSize
  <2> QED
    BY ONLY <2>5, <2>6
<1> QED
  BY <1>4, <1>6, <1>7, <1>10, <1>11 DEF IsMerged, lines, files, N

(* The n-grams of a file are lines.                                        *)
LEMMA EntriesType ==
  ASSUME NEW lines \in Seq(InputLines)
  PROVE  Entries(lines) \in Seq(Items)
<1> DEFINE I == {i \in DOMAIN lines : lines[i].tab}
<1>1. InputLines \subseteq Items
  BY InputsAssumption DEF Items
<1>2. lines \in Seq(Items) /\ I \in SUBSET (DOMAIN lines)
  BY <1>1
<1>3. Entries(lines) = ElementsAt(lines, I)
  BY DEF Entries
<1> HIDE DEF I
<1> QED
  BY <1>2, <1>3, ElementsAtType

(* All lines of an input directory are lines.                              *)
LEMMA AllEntriesType ==
  ASSUME NEW in \in Inputs
  PROVE  AllEntries(in) \in Seq(Items)
<1> DEFINE F == [lines : Seq(InputLines), ended : BOOLEAN]
           lists == [j \in DOMAIN in |-> Entries(in[j].lines)]
<1>1. in \in Seq(F)
  BY InputsAssumption
<1>2. ASSUME NEW j \in DOMAIN in PROVE Entries(in[j].lines) \in Seq(Items)
  <2>1. in[j] \in F
    <3> HIDE DEF F
    <3> QED
      BY <1>1
  <2>2. in[j].lines \in Seq(InputLines)
    BY <2>1
  <2> QED
    BY <2>2, EntriesType
<1>3. DOMAIN in = 1 .. Len(in) /\ Len(in) \in Nat
  BY <1>1
<1>4. DOMAIN lists \in SUBSET Nat /\ IsFiniteSet(DOMAIN lists)
  BY <1>3, FS_Interval
<1>5. \A j \in DOMAIN lists : lists[j] \in Seq(Items)
  BY <1>2
<1>6. AllEntries(in) = Joined(lists)
  BY DEF AllEntries
<1> HIDE DEF lists
<1> QED
  BY <1>4, <1>5, <1>6, JoinedPlaces

(* There is a partition file at least.                                     *)
LEMMA NumFilesType ==
  ASSUME NEW in \in Inputs
  PROVE  NumFiles(in) \in Nat \ {0}
<1> DEFINE n == Len(in)
           P == {p \in n .. 2 * n : IsPrime(p)}
           IsNext(p) == IsPrime(p) /\ \A m \in n .. p - 1 : ~ IsPrime(m)
<1>1. in \in Seq([lines : Seq(InputLines), ended : BOOLEAN]) /\ \E p \in n .. 2 * n : IsPrime(p)
  BY InputsAssumption
<1>2. n \in Nat
  BY <1>1
<1> HIDE DEF n
<1>3. IsFiniteSet(P) /\ P \in SUBSET Nat /\ P # {}
  <2>1. IsFiniteSet(n .. 2 * n)
    BY <1>2, FS_Interval
  <2>2. P \in SUBSET (n .. 2 * n) /\ n .. 2 * n \in SUBSET Nat
    BY <1>2
  <2> QED
    BY <1>1, <2>1, <2>2, FS_Subset
<1>4. PICK p \in P : \A x \in P : p <= x
  BY <1>3, LeastMember
<1>5. p \in n .. 2 * n /\ IsNext(p)
  <2>1. p \in n .. 2 * n /\ IsPrime(p)
    BY <1>4
  <2>2. ASSUME NEW m \in n .. p - 1, IsPrime(m) PROVE FALSE
    <3>1. m \in n .. 2 * n /\ ~ p <= m
      BY <1>2, <2>1
    <3> QED
      BY <1>4, <2>2, <3>1
  <2> QED
    BY <2>1, <2>2
<1> HIDE DEF IsNext
<1>6. NumFiles(in) = CHOOSE q \in n .. 2 * n : IsNext(q)
  BY DEF NumFiles, NextPrime, IsNext, n
<1>7. NumFiles(in) \in n .. 2 * n /\ IsNext(NumFiles(in))
  BY <1>5, <1>6
<1>8. NumFiles(in) > 1
  BY <1>7 DEF IsNext, IsPrime
<1> QED
  BY <1>2, <1>7, <1>8

-----------------------------------------------------------------------------
(* Merging.                                                                *)

MergedInput(in) == MergedFiles(AllEntries(in), NumFiles(in))

(* What is merged is in the copies, what is not in the partition.          *)
PartlyMerged(parts_, copies_, in) ==
  LET all == AllEntries(in)
      num == NumFiles(in)
  IN /\ (DOMAIN parts_) \cup (DOMAIN copies_) = 0 .. num - 1
     /\ parts_ = [i \in DOMAIN parts_ |-> FilePart(all, num, i)]
     /\ copies_ = [i \in DOMAIN copies_ |-> Merged(FilePart(all, num, i))]

(* The inductive invariant.  Only a directory that was empty has nothing   *)
(* but the merged files of the input; a source is that of some input, the  *)
(* command that built from it may be over.                                 *)
MergeInv ==
  /\ mode \in {"plain"} \cup MergeDirs
  /\ step \in {"partition", "merge", "open", "build"} => input \in Inputs
  /\ step \in {"partition", "merge"} => Merging
  /\ parts = [d \in MergeDirs |-> parts[d]]
  /\ copies = [d \in MergeDirs |-> copies[d]]
  /\ source = [p \in Places |-> source[p]]
  /\ Merging /\ clean =>
       /\ step = "partition" => copies[mode] \in {None, <<>>}
       /\ step = "merge" => PartlyMerged(parts[mode], copies[mode], input)
       /\ step \in {"open", "build"} => copies[mode] = MergedInput(input)
  /\ \A p \in Places : source[p].merged =>
       \E in \in Inputs : source[p].all = AllEntries(in) /\ source[p].lines = Joined(MergedInput(in))

(* Before the first command nothing is merged.                             *)
LEMMA MergeHolds == Init => MergeInv
<1> SUFFICES ASSUME Init PROVE MergeInv
  OBVIOUS
<1>1. /\ step = "idle" /\ mode = "plain"
      /\ parts = [d \in MergeDirs |-> parts[d]] /\ copies = [d \in MergeDirs |-> copies[d]]
      /\ source = [p \in Places |-> source[p]]
      /\ \A p \in Places : source[p].merged = FALSE
  BY DEF Init, NoSource
<1> QED
  BY <1>1 DEF MergeInv, Merging

(* A new command, which goes on with an empty merge directory at most.     *)
LEMMA MergeRun ==
  ASSUME MergeInv, NEW in \in Inputs, NEW m \in {"plain"} \cup MergeDirs, Run(in, m)
  PROVE  MergeInv'
<1>1. /\ input' = in /\ mode' = m /\ UNCHANGED <<parts, copies, source>>
      /\ step' = IF m = "plain" THEN "open" ELSE "partition"
      /\ clean' = (m = "plain" \/ copies[m] \in {None, <<>>})
  BY DEF Run
<1> QED
  BY <1>1 DEF MergeInv, Merging, Places, MergeDirs

(* The steps that change no files of the merge directories, and do not go  *)
(* on to merging.                                                          *)
LEMMA MergeIsLeftAlone ==
  ASSUME MergeInv, UNCHANGED <<input, mode, parts, copies, source, clean>>,
         \/ step' = step
         \/ step' \notin {"partition", "merge", "open", "build"}
         \/ step = "open" /\ step' = "build"
         \/ step = "build" /\ step' = "build"
  PROVE  MergeInv'
BY DEF MergeInv, Merging, Places, MergeDirs, PartlyMerged, MergedInput, MergedFiles

(* The failures, the stops, and the build beside its source.               *)
LEMMA MergeBeside ==
  ASSUME MergeInv,
         PartitionFails \/ OpenOutput \/ EndComponent \/ Rename \/ Stop \/ UNCHANGED vars
  PROVE  MergeInv'
<1>1. CASE PartitionFails \/ Rename \/ Stop \/ UNCHANGED vars
  <2>1. /\ UNCHANGED <<input, mode, parts, copies, source, clean>>
        /\ step' = step \/ step' \notin {"partition", "merge", "open", "build"}
    BY <1>1 DEF PartitionFails, Rename, Stop, Fail, Goto, vars, build
  <2> QED
    BY <2>1, MergeIsLeftAlone
<1>2. CASE OpenOutput
  <2>1. /\ UNCHANGED <<input, mode, parts, copies, source, clean>>
        /\ step = "open" /\ step' \in {"failed", "build"}
    <3>1. UNCHANGED <<parts, copies, source, clean>> /\ step = "open"
      BY <1>2 DEF OpenOutput
    <3>2. CASE Empty(Place)
      BY <1>2, <3>1, <3>2 DEF OpenOutput, Goto
    <3>3. CASE ~ Empty(Place)
      BY <1>2, <3>1, <3>3 DEF OpenOutput, Fail
    <3> QED
      BY <3>2, <3>3
  <2> QED
    BY <2>1, MergeIsLeftAlone
<1>3. CASE EndComponent
  <2>1. /\ UNCHANGED <<input, mode, parts, copies, source, clean>>
        /\ step = "build" /\ step' \in {"failed", "build", "rename", "done"}
    BY <1>3 DEF EndComponent, Fail
  <2> QED
    BY <2>1, MergeIsLeftAlone
<1> QED
  BY <1>1, <1>2, <1>3

(* The partition of an input.                                              *)
LEMMA MergePartitioned ==
  ASSUME MergeInv, PartitionFiles
  PROVE  MergeInv'
<1> DEFINE all == AllEntries(input)
           num == NumFiles(input)
           part == [i \in 0 .. num - 1 |-> FilePart(all, num, i)]
           copy == IF copies[mode] = None THEN <<>> ELSE copies[mode]
<1>1. /\ step = "partition" /\ step' = "merge" /\ UNCHANGED <<input, mode, source, clean>>
      /\ parts' = [parts EXCEPT ![mode] = part]
      /\ copies' = [copies EXCEPT ![mode] = copy]
  BY DEF PartitionFiles, Goto
<1>2. mode \in MergeDirs /\ input \in Inputs /\ Merging
  BY <1>1 DEF MergeInv, Merging
<1> HIDE DEF part, copy
<1>3. /\ parts' = [d \in MergeDirs |-> parts'[d]] /\ parts'[mode] = part
      /\ copies' = [d \in MergeDirs |-> copies'[d]] /\ copies'[mode] = copy
  BY <1>1, <1>2 DEF MergeInv
<1>4. ASSUME clean PROVE PartlyMerged(part, copy, input)
  <2>1. copy = <<>>
    BY <1>1, <1>2, <1>4 DEF MergeInv, copy
  <2>2. DOMAIN copy = {} /\ copy = [i \in DOMAIN copy |-> Merged(FilePart(all, num, i))]
    BY <2>1
  <2>3. DOMAIN part = 0 .. num - 1 /\ part = [i \in DOMAIN part |-> FilePart(all, num, i)]
    BY DEF part
  <2> QED
    BY <2>2, <2>3 DEF PartlyMerged
<1>5. clean' => PartlyMerged(parts'[mode'], copies'[mode'], input')
  BY <1>1, <1>3, <1>4
<1> QED
  BY <1>1, <1>2, <1>3, <1>5 DEF MergeInv, Merging

(* One more file is merged.                                                *)
LEMMA MergeOneMore ==
  ASSUME NEW parts_, NEW copies_, NEW in, PartlyMerged(parts_, copies_, in), NEW i \in DOMAIN parts_
  PROVE  PartlyMerged(Without(parts_, i), Put(copies_, i, Merged(parts_[i])), in)
<1> DEFINE all == AllEntries(in)
           num == NumFiles(in)
           p == Without(parts_, i)
           c == Put(copies_, i, Merged(parts_[i]))
           of(k) == FilePart(all, num, k)
<1>1. /\ (DOMAIN parts_) \cup (DOMAIN copies_) = 0 .. num - 1
      /\ parts_ = [k \in DOMAIN parts_ |-> of(k)]
      /\ copies_ = [k \in DOMAIN copies_ |-> Merged(of(k))]
  BY DEF PartlyMerged
<1>2. parts_[i] = of(i) /\ p = [k \in (DOMAIN parts_) \ {i} |-> parts_[k]]
  BY <1>1 DEF Without
<1>3. c = [k \in {i} \cup DOMAIN copies_ |-> IF k = i THEN Merged(of(i)) ELSE copies_[k]]
  BY <1>2 DEF Put
<1> HIDE DEF of, p, c, num
<1>4. DOMAIN p = (DOMAIN parts_) \ {i} /\ p = [k \in DOMAIN p |-> of(k)]
  BY <1>1, <1>2
<1>5. DOMAIN c = {i} \cup DOMAIN copies_ /\ c = [k \in DOMAIN c |-> Merged(of(k))]
  BY <1>1, <1>3
<1>6. (DOMAIN p) \cup (DOMAIN c) = 0 .. num - 1
  BY <1>1, <1>4, <1>5
<1> QED
  BY <1>4, <1>5, <1>6 DEF PartlyMerged, of, num, p, c

(* One file more is merged, and its partition file is gone.                *)
LEMMA MergeMerged ==
  ASSUME MergeInv, MergeFile
  PROVE  MergeInv'
<1>1. PICK i \in DOMAIN parts[mode] :
        /\ copies' = [copies EXCEPT ![mode] = Put(@, i, Merged(parts[mode][i]))]
        /\ parts' = [parts EXCEPT ![mode] = Without(@, i)]
  BY DEF MergeFile
<1>2. step = "merge" /\ UNCHANGED <<step, input, mode, source, clean>>
  BY DEF MergeFile, build
<1>3. mode \in MergeDirs /\ input \in Inputs /\ Merging
  BY <1>2 DEF MergeInv, Merging
<1>4. /\ parts' = [d \in MergeDirs |-> parts'[d]] /\ parts'[mode] = Without(parts[mode], i)
      /\ copies' = [d \in MergeDirs |-> copies'[d]]
      /\ copies'[mode] = Put(copies[mode], i, Merged(parts[mode][i]))
  BY <1>1, <1>3 DEF MergeInv
<1>5. clean' => PartlyMerged(parts'[mode'], copies'[mode'], input')
  BY <1>2, <1>3, <1>4, MergeOneMore DEF MergeInv
<1> QED
  BY <1>2, <1>3, <1>4, <1>5 DEF MergeInv, Merging

(* All files are merged.                                                   *)
LEMMA MergeEnded ==
  ASSUME MergeInv, MergeEnds
  PROVE  MergeInv'
<1>1. /\ step = "merge" /\ step' = "open" /\ UNCHANGED <<input, mode, copies, source, clean>>
      /\ DOMAIN parts[mode] = {} /\ parts' = [parts EXCEPT ![mode] = None]
  BY DEF MergeEnds, Goto
<1>2. mode \in MergeDirs /\ input \in Inputs /\ Merging
  BY <1>1 DEF MergeInv, Merging
<1>3. parts' = [d \in MergeDirs |-> parts'[d]]
  BY <1>1, <1>2 DEF MergeInv
<1>4. ASSUME clean PROVE copies[mode] = MergedInput(input)
  <2>1. PartlyMerged(parts[mode], copies[mode], input)
    BY <1>1, <1>2, <1>4 DEF MergeInv
  <2>2. DOMAIN copies[mode] = 0 .. NumFiles(input) - 1
    BY <1>1, <2>1 DEF PartlyMerged
  <2> QED
    BY <2>1, <2>2 DEF PartlyMerged, MergedInput, MergedFiles
<1>5. clean' => copies'[mode'] = MergedInput(input)'
  <2>1. MergedInput(input)' = MergedInput(input)
    BY <1>1 DEF MergedInput
  <2> QED
    BY <1>1, <1>4, <2>1
<1> QED
  BY <1>1, <1>2, <1>3, <1>5 DEF MergeInv, Merging

(* The corpus is begun: its lines are those of the copies, if there are.   *)
LEMMA MergeBegun ==
  ASSUME MergeInv, BeginComponent
  PROVE  MergeInv'
<1> DEFINE new == [lines |-> ReadFiles, merged |-> Merging /\ clean, all |-> AllEntries(input)]
<1>1. step = "build" /\ UNCHANGED <<step, input, mode, parts, copies, clean>>
  BY DEF BeginComponent, build
<1>2. source' = source \/ source' = [source EXCEPT ![Place] = new]
  BY DEF BeginComponent
<1>3. CASE source' = source
  BY <1>1, <1>3, MergeIsLeftAlone
<1>4. CASE source' = [source EXCEPT ![Place] = new]
  <2>1. new.merged => new.all = AllEntries(input) /\ new.lines = Joined(MergedInput(input)) /\ input \in Inputs
    BY <1>1 DEF MergeInv, ReadFiles
  <2> HIDE DEF new
  <2>2. /\ source' = [p \in Places |-> source'[p]]
        /\ \A p \in Places : source'[p] = source[p] \/ source'[p] = new
    BY <1>4 DEF MergeInv
  <2>3. \A p \in Places : source'[p].merged =>
          \E in \in Inputs : source'[p].all = AllEntries(in) /\ source'[p].lines = Joined(MergedInput(in))
    BY <2>1, <2>2 DEF MergeInv
  <2>4. step \in {"partition", "merge", "open", "build"}' => input' \in Inputs
    BY <1>1 DEF MergeInv
  <2>5. Merging /\ clean => copies[mode] = MergedInput(input)
    BY <1>1 DEF MergeInv
  <2> QED
    BY <1>1, <2>2, <2>3, <2>4, <2>5 DEF MergeInv, Merging
<1> QED
  BY <1>2, <1>3, <1>4

(* What is removed belongs to no command that runs.                        *)
LEMMA MergeRemoved ==
  ASSUME MergeInv, RemoveOut \/ RemoveMergeDir
  PROVE  MergeInv'
<1>1. /\ Resting /\ UNCHANGED <<step, input, mode, source, clean>>
      /\ \E d \in MergeDirs : copies' = [copies EXCEPT ![d] = None] /\ parts' = [parts EXCEPT ![d] = None]
  BY DEF RemoveOut, RemoveMergeDir, build, MergeDirs
<1>2. step \notin {"partition", "merge", "open", "build"}
  BY <1>1 DEF Resting
<1>3. parts' = [d \in MergeDirs |-> parts'[d]] /\ copies' = [d \in MergeDirs |-> copies'[d]]
  BY <1>1 DEF MergeInv
<1> QED
  BY <1>1, <1>2, <1>3 DEF MergeInv

(* No step of anybody takes more than a part that is merged elsewhere.     *)
LEMMA MergeIsKept ==
  ASSUME MergeInv, [Next]_vars
  PROVE  MergeInv'
BY MergeRun, MergeBeside, MergePartitioned, MergeMerged, MergeEnded, MergeBegun, MergeRemoved
   DEF Next, Program

(* What was merged has each n-gram once.                                   *)
LEMMA MergeIsEnough == MergeInv => MergedOnce
<1> SUFFICES ASSUME MergeInv, NEW p \in Places, source[p].merged
             PROVE  IsMerged(source[p].lines, source[p].all)
  BY DEF MergedOnce, IsMerged
<1>1. PICK in \in Inputs : source[p].all = AllEntries(in) /\ source[p].lines = Joined(MergedInput(in))
  BY DEF MergeInv
<1>2. IsMerged(Joined(MergedFiles(AllEntries(in), NumFiles(in))), AllEntries(in))
  BY AllEntriesType, NumFilesType, MergedLines
<1> QED
  BY <1>1, <1>2 DEF MergedInput

(* Whatever was stopped, failed or left behind before: an index that was   *)
(* built from an empty merge directory has each n-gram of the input once,  *)
(* with the sum of the frequencies of its lines (MergeDuplicates()).       *)
THEOREM MergedLinesAreOnce == Spec => []MergedOnce
<1>1. MergeInv /\ [Next]_vars => MergeInv'
  BY MergeIsKept
<1> QED
  BY MergeHolds, <1>1, MergeIsEnough, PTL DEF Spec

-----------------------------------------------------------------------------
(* Hash maps.                                                              *)

(* The table of a part has each of its records in the slot of its key.     *)
LEMMA TableFinds ==
  ASSUME NEW part, IsFiniteSet(part), \A r, q \in part : r.key = q.key => r = q, NEW r \in part
  PROVE  LET map == BuildMap(part)
         IN /\ map.mph # <<>>
            /\ EntryOf(map, r.key).checksum = Checksum(r.key)
            /\ EntryOf(map, r.key).value = r.value
<1> DEFINE keys == {q.key : q \in part}
           mph == SetToSeq(keys)
           table == [i \in DOMAIN mph |->
                       [checksum |-> Checksum(mph[i]), value |-> (CHOOSE q \in part : q.key = mph[i]).value]]
           map == BuildMap(part)
           x == CHOOSE i \in DOMAIN mph : mph[i] = r.key
<1>1. IsFiniteSet(keys) /\ r.key \in keys
  <2> DEFINE f == [q \in part |-> q.key]
  <2>1. DOMAIN f = part /\ f = [q \in part |-> f[q]] /\ keys = {f[q] : q \in part}
    OBVIOUS
  <2> HIDE DEF f, keys
  <2>2. IsFiniteSet(keys)
    BY <2>1, ImageFinite
  <2> QED
    BY <2>2 DEF keys
<1>2. map = [mph |-> mph, table |-> table]
  BY DEF BuildMap, HashFunction, HashTable
<1> HIDE DEF keys
<1>3. mph \in Seq(keys) /\ \E i \in DOMAIN mph : mph[i] = r.key
  BY <1>1, SetToSeqLists
<1> HIDE DEF mph
<1>4. x \in DOMAIN mph /\ mph[x] = r.key
  BY <1>3
<1>5. Search(mph, r.key) = x
  BY <1>3 DEF Search
<1>6. (CHOOSE q \in part : q.key = r.key) = r
  OBVIOUS
<1> HIDE DEF x
<1>7. table[x] = [checksum |-> Checksum(r.key), value |-> r.value]
  BY <1>4, <1>6
<1> HIDE DEF table
<1>8. map.mph = mph /\ map.table = table
  BY <1>2
<1> HIDE DEF map
<1>9. EntryOf(map, r.key) = [checksum |-> Checksum(r.key), value |-> r.value]
  BY <1>5, <1>7, <1>8 DEF EntryOf
<1>10. mph # <<>>
  BY <1>4
<1> QED
  BY <1>8, <1>9, <1>10 DEF map

(* A map has the value of each of its records.                             *)
LEMMA MapFinds ==
  ASSUME NEW S, NEW records \in Seq(S), \A r \in S : Hash(r.key) \in Nat,
         CanBuild(records), NEW i \in DOMAIN records
  PROVE  /\ HasKey(Build(records), records[i].key)
         /\ Get(Build(records), records[i].key) = records[i].value
<1> DEFINE num == NumMaps(records)
           key == records[i].key
           h == 1 + (Hash(key) % num)
           part == {r \in ToSet(records) : Hash(r.key) % num = h - 1}
           maps == Build(records)
<1>1. Len(records) \in Nat /\ DOMAIN records = 1 .. Len(records) /\ Hash(key) \in Nat
  OBVIOUS
<1>2. num \in Nat \ {0}
  BY <1>1, MapsAssumption DEF NumMaps
<1>3. maps = [j \in 1 .. num |-> BuildMap(Partition(records)[j])]
  BY DEF Build
<1>4. \A j \in 1 .. num : Partition(records)[j] = {r \in ToSet(records) : Hash(r.key) % num = j - 1}
  BY DEF Partition
<1> HIDE DEF num, key, maps
<1>5. h \in 1 .. num /\ Hash(key) % num = h - 1
  BY <1>1, <1>2
<1> HIDE DEF h
<1>6. Len(maps) = num /\ maps[h] = BuildMap(part)
  <2>1. Len(maps) = num /\ maps[h] = BuildMap(Partition(records)[h])
    BY ONLY <1>2, <1>3, <1>5
  <2>2. Partition(records)[h] = part
    BY <1>4, <1>5
  <2> QED
    BY <2>1, <2>2
<1>7. PartOf(maps, key) = BuildMap(part) /\ maps # <<>>
  <2>1. PartOf(maps, key) = maps[h]
    BY <1>6 DEF PartOf, h
  <2>2. maps # <<>>
    BY <1>2, <1>6
  <2> QED
    BY <1>6, <2>1, <2>2
<1>8. IsFiniteSet(ToSet(records)) /\ records[i] \in ToSet(records)
  <2>0. IsFiniteSet(DOMAIN records)
    BY ONLY <1>1, FS_Interval
  <2>1. records = [j \in DOMAIN records |-> records[j]]
    OBVIOUS
  <2>2. ToSet(records) = {records[j] : j \in DOMAIN records}
    BY DEF ToSet
  <2>3. IsFiniteSet(ToSet(records))
    BY ONLY <2>0, <2>1, <2>2, ImageFinite
  <2> QED
    BY <2>2, <2>3
<1>9. \A r, q \in ToSet(records) : r.key = q.key => r = q
  <2> DEFINE f == [j \in DOMAIN records |-> records[j].key]
  <2>1. \A j, k \in DOMAIN f : f[j] = f[k] => j = k
    BY DEF CanBuild, IsUnique, IsInjective
  <2>2. \A j, k \in DOMAIN records : records[j].key = records[k].key => j = k
    BY <2>1
  <2> QED
    BY <2>2 DEF ToSet
<1>10. IsFiniteSet(part) /\ records[i] \in part /\ part \in SUBSET ToSet(records)
  BY <1>5, <1>8, FS_Subset DEF key
<1> HIDE DEF part
<1>11. \A r, q \in part : r.key = q.key => r = q
  BY <1>9, <1>10
<1>12. /\ BuildMap(part).mph # <<>>
       /\ EntryOf(BuildMap(part), key).checksum = Checksum(key)
       /\ EntryOf(BuildMap(part), key).value = records[i].value
  BY <1>10, <1>11, TableFinds DEF key
<1>13. HasKey(maps, key) /\ Get(maps, key) = records[i].value
  BY <1>7, <1>12 DEF HasKey, Get
<1> QED
  BY <1>13 DEF maps, key

-----------------------------------------------------------------------------
(* The phrase corpus.                                                      *)

(* The words of a text have places.                                        *)
LEMMA WordPlaces ==
  ASSUME NEW items \in Seq(Items), NEW i \in DOMAIN items
  PROVE  /\ Len(items[i].words) \in Nat /\ DOMAIN items[i].words = 1 .. Len(items[i].words)
         /\ items[i].words = [m \in 1 .. Len(items[i].words) |-> items[i].words[m]]
         /\ \A m \in 1 .. Len(items[i].words) : items[i].words[m] \in Words(items)
<1> DEFINE t == items[i].words
<1>1. t \in InputTexts
  BY ItemType
<1>2. t \in Seq(ToSet(t))
  BY <1>1, InputsAssumption
<1>3. ToSet(t) \in SUBSET Words(items)
  BY DEF Words
<1> HIDE DEF t
<1>4. Len(t) \in Nat /\ DOMAIN t = 1 .. Len(t) /\ t = [m \in 1 .. Len(t) |-> t[m]]
  BY <1>2
<1>5. \A m \in 1 .. Len(t) : t[m] \in ToSet(t)
  BY <1>2, <1>4
<1> QED
  BY <1>3, <1>4, <1>5 DEF t

(* There are finitely many words.                                          *)
LEMMA WordsFinite ==
  ASSUME NEW items \in Seq(Items)
  PROVE  IsFiniteSet(Words(items))
<1> DEFINE f == [i \in DOMAIN items |-> ToSet(items[i].words)]
           F == {f[i] : i \in DOMAIN items}
<1>1. DOMAIN items = 1 .. Len(items) /\ Len(items) \in Nat
  OBVIOUS
<1>2. IsFiniteSet(DOMAIN items)
  BY <1>1, FS_Interval
<1>3. DOMAIN f = DOMAIN items /\ f = [i \in DOMAIN items |-> f[i]]
  OBVIOUS
<1>4. ASSUME NEW i \in DOMAIN items PROVE IsFiniteSet(f[i])
  <2> DEFINE t == items[i].words
  <2>1. Len(t) \in Nat /\ DOMAIN t = 1 .. Len(t) /\ t = [m \in 1 .. Len(t) |-> t[m]]
    BY WordPlaces
  <2>2. f[i] = ToSet(t)
    OBVIOUS
  <2> HIDE DEF t, f
  <2>7. Len(t) \in Nat /\ DOMAIN t = 1 .. Len(t)
    BY ONLY <2>1
  <2>3. IsFiniteSet(DOMAIN t)
    BY ONLY <2>7, FS_Interval
  <2>6. t = [m \in DOMAIN t |-> t[m]]
    BY ONLY <2>1
  <2>4. ToSet(t) = {t[m] : m \in DOMAIN t}
    BY DEF ToSet
  <2>5. IsFiniteSet(ToSet(t))
    BY ONLY <2>3, <2>4, <2>6, ImageFinite
  <2> QED
    BY <2>2, <2>5
<1>5. Words(items) = UNION F
  BY DEF Words
<1> HIDE DEF f
<1>6. IsFiniteSet(F) /\ \A T \in F : IsFiniteSet(T)
  <2>1. IsFiniteSet(F)
    <3> HIDE DEF F
    <3>1. F = {f[i] : i \in DOMAIN items}
      BY DEF F
    <3> QED
      BY ONLY <1>2, <1>3, <3>1, ImageFinite
  <2> QED
    BY <1>4, <2>1
<1> HIDE DEF F
<1> QED
  BY <1>5, <1>6, FS_UNION

(* Each word has one id.                                                   *)
LEMMA VocabIds ==
  ASSUME NEW items \in Seq(Items)
  PROVE  /\ WordIds(items) \in Seq(Words(items)) /\ ToSet(WordIds(items)) = Words(items)
         /\ \A w \in Words(items) :
              /\ IdOf(WordIds(items), w) \in Nat
              /\ IdOf(WordIds(items), w) \in DOMAIN WordIds(items)
              /\ WordIds(items)[IdOf(WordIds(items), w)] = w
<1> DEFINE vocab == WordIds(items)
<1>1. IsFiniteSet(Words(items))
  BY WordsFinite
<1>2. /\ vocab \in Seq(Words(items))
      /\ \A w \in Words(items) : \E i \in DOMAIN vocab : vocab[i] = w
  BY <1>1, SetToSeqLists DEF WordIds
<1> HIDE DEF vocab
<1>3. DOMAIN vocab = 1 .. Len(vocab) /\ Len(vocab) \in Nat /\ \A i \in DOMAIN vocab : vocab[i] \in Words(items)
  BY <1>2
<1>4. ToSet(vocab) = Words(items)
  BY <1>2, <1>3 DEF ToSet
<1>5. \A w \in Words(items) : IdOf(vocab, w) \in DOMAIN vocab /\ vocab[IdOf(vocab, w)] = w
  BY <1>2 DEF IdOf
<1>6. \A i \in DOMAIN vocab : i \in Nat
  BY <1>3
<1> QED
  BY <1>2, <1>4, <1>5, <1>6 DEF vocab

(* Two sequences, one after the other.                                     *)
LEMMA ConcatPlaces ==
  ASSUME NEW S, NEW s \in Seq(S), NEW t \in Seq(S)
  PROVE  /\ s \o t \in Seq(S) /\ Len(s \o t) = Len(s) + Len(t)
         /\ \A k \in 1 .. Len(s) : (s \o t)[k] = s[k]
         /\ \A k \in 1 .. Len(t) : (s \o t)[Len(s) + k] = t[k]
<1>1. Len(s) \in Nat /\ Len(t) \in Nat
  OBVIOUS
<1> QED
  BY <1>1

(* An encoded line has the frequency, and the ids of the words.            *)
LEMMA EncodedPlaces ==
  ASSUME NEW items \in Seq(Items), NEW i \in DOMAIN items
  PROVE  LET e == Encoded(WordIds(items), items[i])
             n == Len(items[i].words)
         IN /\ e \in Seq(Nat) /\ Len(e) = EntrySize(n)
            /\ e[1] = items[i].freq
            /\ \A m \in 1 .. n : WordIds(items)[e[m + 1]] = items[i].words[m]
<1> DEFINE vocab == WordIds(items)
           t == items[i].words
           n == Len(t)
           ids == [m \in DOMAIN t |-> IdOf(vocab, t[m])]
           head == <<items[i].freq>>
           e == Encoded(vocab, items[i])
<1>1. n \in Nat /\ DOMAIN t = 1 .. n /\ \A m \in 1 .. n : t[m] \in Words(items)
  BY WordPlaces
<1>2. items[i].freq \in Nat
  BY ItemType
<1>3. \A w \in Words(items) : IdOf(vocab, w) \in Nat /\ vocab[IdOf(vocab, w)] = w
  BY VocabIds
<1>4. e = head \o ids
  BY DEF Encoded
<1> HIDE DEF vocab, t, n, e
<1>5. ids \in Seq(Nat) /\ Len(ids) = n /\ \A m \in 1 .. n : ids[m] = IdOf(vocab, t[m])
  <2>1. \A m \in 1 .. n : IdOf(vocab, t[m]) \in Nat
    BY ONLY <1>1, <1>3
  <2>2. ids = [m \in 1 .. n |-> IdOf(vocab, t[m])]
    BY ONLY <1>1
  <2> HIDE DEF ids
  <2> QED
    BY ONLY <1>1, <2>1, <2>2
<1> HIDE DEF ids
<1>6. head \in Seq(Nat) /\ Len(head) = 1 /\ head[1] = items[i].freq
  BY <1>2
<1> HIDE DEF head
<1>7. e \in Seq(Nat) /\ Len(e) = 1 + n /\ e[1] = items[i].freq /\ \A m \in 1 .. n : e[m + 1] = ids[m]
  <2>1. head \in Seq(Nat) /\ ids \in Seq(Nat)
    BY ONLY <1>5, <1>6
  <2>2. /\ e \in Seq(Nat) /\ Len(e) = Len(head) + Len(ids)
        /\ \A k \in 1 .. Len(head) : e[k] = head[k]
        /\ \A m \in 1 .. Len(ids) : e[Len(head) + m] = ids[m]
    BY ONLY <1>4, <2>1, ConcatPlaces
  <2>3. Len(head) = 1 /\ head[1] = items[i].freq /\ Len(ids) = n
    BY ONLY <1>5, <1>6
  <2>4. \A m \in 1 .. n : 1 + m = m + 1
    BY ONLY <1>1
  <2>5. 1 \in 1 .. 1
    OBVIOUS
  <2> QED
    BY ONLY <2>2, <2>3, <2>4, <2>5
<1>8. \A m \in 1 .. n : vocab[e[m + 1]] = t[m]
  BY ONLY <1>1, <1>3, <1>5, <1>7
<1>9. Len(e) = EntrySize(n)
  BY <1>7 DEF EntrySize
<1> QED
  BY <1>7, <1>8, <1>9 DEF vocab, t, n, e

(* How many of the first i lines have n words.                             *)
CountOf(items, i, n) == Cardinality({j \in 1 .. i : Len(items[j].words) = n})

(* The number of phrases of a length among the first ones.                 *)
LEMMA CountSteps ==
  ASSUME NEW items, NEW n
  PROVE  /\ CountOf(items, 0, n) = 0
         /\ \A i \in Nat : CountOf(items, i, n) \in Nat
         /\ \A i \in Nat \ {0} : CountOf(items, i, n) =
              CountOf(items, i - 1, n) + (IF Len(items[i].words) = n THEN 1 ELSE 0)
<1> DEFINE upTo(i) == {j \in 1 .. i : Len(items[j].words) = n}
<1>1. \A i \in Nat : IsFiniteSet(upTo(i)) /\ Cardinality(upTo(i)) \in Nat
  <2> SUFFICES ASSUME NEW i \in Nat PROVE IsFiniteSet(upTo(i)) /\ Cardinality(upTo(i)) \in Nat
    OBVIOUS
  <2>1. IsFiniteSet(1 .. i) /\ upTo(i) \in SUBSET (1 .. i)
    BY FS_Interval
  <2> QED
    BY <2>1, FS_Subset, FS_CardinalityType
<1>2. upTo(0) = {}
  OBVIOUS
<1>3. ASSUME NEW i \in Nat \ {0}
      PROVE  Cardinality(upTo(i)) = Cardinality(upTo(i - 1)) + (IF Len(items[i].words) = n THEN 1 ELSE 0)
  <2>1. CASE Len(items[i].words) = n
    <3>1. upTo(i) = upTo(i - 1) \cup {i} /\ i \notin upTo(i - 1)
      BY <2>1
    <3>2. IsFiniteSet(upTo(i - 1))
      BY <1>1
    <3> HIDE DEF upTo
    <3> QED
      BY <2>1, <3>1, <3>2, FS_AddElement
  <2>2. CASE Len(items[i].words) # n
    <3>1. upTo(i) = upTo(i - 1)
      BY <2>2
    <3>2. Cardinality(upTo(i - 1)) \in Nat
      BY <1>1
    <3> HIDE DEF upTo
    <3> QED
      BY <2>2, <3>1, <3>2
  <2> QED
    BY <2>1, <2>2
<1> HIDE DEF upTo
<1>4. \A i \in Nat : CountOf(items, i, n) = Cardinality(upTo(i))
  BY DEF CountOf, upTo
<1> QED
  BY <1>1, <1>2, <1>3, <1>4, FS_EmptySet

(* The multiples of a number.                                              *)
LEMMA OneMoreTime == ASSUME NEW a \in Nat, NEW b \in Nat PROVE a * b \in Nat /\ (a + 1) * b = a * b + b
OBVIOUS

(* A multiple of a number, divided by it.                                  *)
LEMMA TimesDivided == ASSUME NEW a \in Nat, NEW b \in Nat \ {0} PROVE (a * b) \div b = a
OBVIOUS

(* The phrases of a length as numbers are put one after the other.         *)
LEMMA EntriesSteps ==
  ASSUME NEW items \in Seq(Items), NEW n
  PROVE  \E g \in [0 .. Len(items) -> Seq(Nat)] :
           /\ g[0] = <<>>
           /\ \A i \in 1 .. Len(items) :
                g[i] = g[i - 1] \o (IF Len(items[i].words) = n THEN Encoded(WordIds(items), items[i]) ELSE <<>>)
           /\ EntriesOf(WordIds(items), items, n) = g[Len(items)]
<1> DEFINE N == Len(items)
           own == [i \in 1 .. N |-> IF Len(items[i].words) = n THEN Encoded(WordIds(items), items[i]) ELSE <<>>]
           f == [i \in 1 .. N |-> [s \in Seq(Nat) |-> s \o own[i]]]
           upTo == CHOOSE upTo : upTo = [i \in 0 .. N |->
                     IF i = 0 THEN <<>>
                     ELSE upTo[i - 1] \o (IF Len(items[i].words) = n THEN Encoded(WordIds(items), items[i]) ELSE <<>>)]
<1>1. N \in Nat /\ DOMAIN items = 1 .. N
  OBVIOUS
<1>2. EntriesOf(WordIds(items), items, n) = upTo[N]
  BY DEF EntriesOf
<1>3. \A i \in 1 .. N : own[i] = IF Len(items[i].words) = n THEN Encoded(WordIds(items), items[i]) ELSE <<>>
  OBVIOUS
<1> HIDE DEF own
<1>4. \A i \in 1 .. N : own[i] \in Seq(Nat)
  <2> SUFFICES ASSUME NEW i \in 1 .. N PROVE own[i] \in Seq(Nat)
    OBVIOUS
  <2>1. Encoded(WordIds(items), items[i]) \in Seq(Nat)
    BY <1>1, EncodedPlaces
  <2>2. <<>> \in Seq(Nat)
    OBVIOUS
  <2> QED
    BY ONLY <1>3, <2>1, <2>2
<1> HIDE DEF N
<1>5. f \in [1 .. N -> [Seq(Nat) -> Seq(Nat)]]
  <2>1. \A i \in 1 .. N : \A s \in Seq(Nat) : s \o own[i] \in Seq(Nat)
    BY <1>4, ConcatPlaces
  <2> QED
    BY ONLY <2>1
<1>6. \A i \in 1 .. N, s \in Seq(Nat) : f[i][s] = s \o own[i]
  OBVIOUS
<1> HIDE DEF f
<1>7. PICK g \in [0 .. N -> Seq(Nat)] : g[0] = <<>> /\ \A i \in 1 .. N : g[i] = f[i][g[i - 1]]
  <2>1. Iterable(N, Seq(Nat), <<>>, f)
    BY <1>1, <1>5 DEF Iterable
  <2>2. PICK g \in [0 .. N -> Seq(Nat)] : Iterates(g, N, <<>>, f)
    BY <2>1, IterationExists
  <2> QED
    BY <2>2 DEF Iterates
<1>8. \A i \in 1 .. N : i - 1 \in 0 .. N /\ i \in 0 .. N /\ i # 0
  BY ONLY <1>1
<1>9. \A i \in 1 .. N : g[i] = g[i - 1] \o own[i]
  BY <1>6, <1>7, <1>8
<1>10. \A i \in 0 .. N : i = 0 \/ i \in 1 .. N
  BY ONLY <1>1
<1>11. g = [i \in 0 .. N |-> IF i = 0 THEN <<>>
              ELSE g[i - 1] \o (IF Len(items[i].words) = n THEN Encoded(WordIds(items), items[i]) ELSE <<>>)]
  BY ONLY <1>3, <1>7, <1>9, <1>10
<1>12. upTo = [i \in 0 .. N |-> IF i = 0 THEN <<>>
              ELSE upTo[i - 1] \o (IF Len(items[i].words) = n THEN Encoded(WordIds(items), items[i]) ELSE <<>>)]
  BY <1>11
<1> HIDE DEF upTo
<1>13. upTo[0] = <<>> /\ \A i \in 1 .. N : upTo[i] = upTo[i - 1] \o own[i]
  <2>1. 0 \in 0 .. N
    BY ONLY <1>1
  <2> QED
    BY ONLY <1>3, <1>8, <1>12, <2>1
<1> DEFINE T == {i \in 0 .. N : upTo[i] \in Seq(Nat)}
<1>14. 0 \in T
  <2>1. 0 \in 0 .. N
    BY ONLY <1>1
  <2>2. <<>> \in Seq(Nat)
    OBVIOUS
  <2> QED
    BY ONLY <1>13, <2>1, <2>2
<1>15. ASSUME NEW i \in 1 .. N, i - 1 \in T PROVE i \in T
  <2>1. upTo[i - 1] \in Seq(Nat) /\ own[i] \in Seq(Nat)
    BY <1>4, <1>15
  <2>2. upTo[i] = upTo[i - 1] \o own[i]
    BY ONLY <1>13, i \in 1 .. N
  <2>3. upTo[i] \in Seq(Nat)
    BY ONLY <2>1, <2>2, ConcatPlaces
  <2> QED
    BY <1>8, <2>3
<1>16. \A i \in 0 .. N : i \in T
  <2> HIDE DEF T
  <2> QED
    BY <1>1, <1>14, <1>15, UpTo
<1>17. upTo \in [0 .. N -> Seq(Nat)]
  BY ONLY <1>12, <1>16
<1> QED
  BY <1>2, <1>3, <1>13, <1>17 DEF N

(* They are as many, and each is where its id says.                        *)
LEMMA EntriesPlaces ==
  ASSUME NEW items \in Seq(Items), NEW n \in Nat
  PROVE  LET s == EntriesOf(WordIds(items), items, n)
             size == EntrySize(n)
         IN /\ s \in Seq(Nat)
            /\ Len(s) = CountOf(items, Len(items), n) * size
            /\ \A i \in DOMAIN items : Len(items[i].words) = n =>
                 \A m \in 1 .. size :
                   /\ LocalId(items, i) * size + m \in 1 .. Len(s)
                   /\ s[LocalId(items, i) * size + m] = Encoded(WordIds(items), items[i])[m]
<1> DEFINE N == Len(items)
           size == EntrySize(n)
           code(i) == Encoded(WordIds(items), items[i])
           cnt(i) == CountOf(items, i, n)
           has(i) == Len(items[i].words) = n
           At(s, i) == \A m \in 1 .. size : cnt(i - 1) * size + m \in 1 .. Len(s) /\ s[cnt(i - 1) * size + m] = code(i)[m]
<1>1. N \in Nat /\ DOMAIN items = 1 .. N
  OBVIOUS
<1>2. size \in Nat \ {0}
  BY DEF EntrySize
<1>3. \A i \in 1 .. N : has(i) => code(i) \in Seq(Nat) /\ Len(code(i)) = size
  BY <1>1, EncodedPlaces
<1>4. \A i \in 1 .. N : has(i) => LocalId(items, i) = cnt(i - 1)
  BY DEF LocalId, CountOf
<1>5. PICK g \in [0 .. N -> Seq(Nat)] :
        /\ g[0] = <<>>
        /\ \A i \in 1 .. N : g[i] = g[i - 1] \o (IF has(i) THEN code(i) ELSE <<>>)
        /\ EntriesOf(WordIds(items), items, n) = g[N]
  BY EntriesSteps
<1>6. /\ cnt(0) = 0
      /\ \A i \in 0 .. N : cnt(i) \in Nat
      /\ \A i \in 1 .. N : cnt(i) = cnt(i - 1) + (IF has(i) THEN 1 ELSE 0)
  <2>1. \A i \in 0 .. N : i \in Nat
    BY ONLY <1>1
  <2>2. \A i \in 1 .. N : i \in Nat \ {0}
    BY ONLY <1>1
  <2> QED
    BY <2>1, <2>2, CountSteps
<1>7. \A i \in 1 .. N : i - 1 \in 0 .. N /\ i \in 0 .. N
  BY ONLY <1>1
<1> HIDE DEF N, size, code, cnt, has
<1> DEFINE T == {i \in 0 .. N : Len(g[i]) = cnt(i) * size /\ \A j \in 1 .. i : has(j) => At(g[i], j)}
<1>8. 0 \in T
  BY ONLY <1>1, <1>2, <1>5, <1>6
<1>9. ASSUME NEW i \in 1 .. N, i - 1 \in T PROVE i \in T
  <2> DEFINE s == g[i - 1]
             c == cnt(i - 1)
  <2>1. s \in Seq(Nat) /\ Len(s) = c * size /\ c \in Nat /\ \A j \in 1 .. i - 1 : has(j) => At(s, j)
    BY <1>5, <1>6, <1>7, <1>9
  <2>2. \A j \in 1 .. i : j \in 1 .. i - 1 \/ j = i
    BY ONLY <1>1, i \in 1 .. N
  <2>3. CASE ~ has(i)
    <3>1. g[i] = s /\ cnt(i) = c
      <4>1. g[i] = s \o <<>> /\ cnt(i) = c + 0
        BY <1>5, <1>6, <2>3
      <4> HIDE DEF s, c
      <4> QED
        BY <2>1, <4>1
    <3>2. \A j \in 1 .. i : has(j) => At(g[i], j)
      BY <2>1, <2>2, <2>3, <3>1
    <3> QED
      BY <1>7, <2>1, <3>1, <3>2
  <2>4. CASE has(i)
    <3> DEFINE e == code(i)
    <3>1. g[i] = s \o e /\ cnt(i) = c + 1 /\ e \in Seq(Nat) /\ Len(e) = size
      BY <1>3, <1>5, <1>6, <2>4
    <3> HIDE DEF s, c, e
    <3>2. /\ Len(g[i]) = Len(s) + size
          /\ \A k \in 1 .. Len(s) : g[i][k] = s[k]
          /\ \A k \in 1 .. size : g[i][Len(s) + k] = e[k]
      <4>1. s \in Seq(Nat) /\ e \in Seq(Nat)
        BY ONLY <2>1, <3>1
      <4> DEFINE u == s \o e
      <4>2. /\ Len(u) = Len(s) + Len(e)
            /\ \A k \in 1 .. Len(s) : u[k] = s[k]
            /\ \A k \in 1 .. Len(e) : u[Len(s) + k] = e[k]
        BY ONLY <4>1, ConcatPlaces
      <4>3. g[i] = u /\ Len(e) = size
        BY ONLY <3>1
      <4> HIDE DEF u
      <4> QED
        BY ONLY <4>2, <4>3
    <3>3. c * size \in Nat /\ (c + 1) * size = c * size + size
      BY ONLY <1>2, <2>1, OneMoreTime
    <3>4. Len(g[i]) = cnt(i) * size
      BY ONLY <2>1, <3>1, <3>2, <3>3
    <3>5. ASSUME NEW j \in 1 .. i - 1, has(j) PROVE At(g[i], j)
      <4> SUFFICES ASSUME NEW m \in 1 .. size
                   PROVE  cnt(j - 1) * size + m \in 1 .. Len(g[i]) /\ g[i][cnt(j - 1) * size + m] = code(j)[m]
        OBVIOUS
      <4> DEFINE k == cnt(j - 1) * size + m
      <4>1. k \in 1 .. Len(s) /\ s[k] = code(j)[m]
        BY <2>1, <3>5
      <4> HIDE DEF k
      <4>2. k \in 1 .. Len(g[i]) /\ g[i][k] = s[k]
        BY ONLY <1>2, <2>1, <3>2, <3>3, <4>1
      <4> QED
        BY <4>1, <4>2 DEF k
    <3>6. At(g[i], i)
      <4> SUFFICES ASSUME NEW m \in 1 .. size
                   PROVE  cnt(i - 1) * size + m \in 1 .. Len(g[i]) /\ g[i][cnt(i - 1) * size + m] = code(i)[m]
        OBVIOUS
      <4>1. Len(s) + m \in 1 .. Len(g[i]) /\ g[i][Len(s) + m] = e[m]
        <5>1. Len(s) \in Nat /\ size \in Nat /\ Len(g[i]) = Len(s) + size
          BY ONLY <1>2, <2>1, <3>2, <3>3
        <5>2. Len(s) + m \in 1 .. Len(g[i])
          BY ONLY <5>1, m \in 1 .. size
        <5> QED
          BY ONLY <3>2, <5>2, m \in 1 .. size
      <4> QED
        BY <2>1, <4>1 DEF c, e
    <3>7. \A j \in 1 .. i : has(j) => At(g[i], j)
      BY ONLY <2>2, <3>5, <3>6
    <3> QED
      BY <1>7, <3>4, <3>7
  <2> QED
    BY <2>3, <2>4
<1>10. \A i \in 0 .. N : i \in T
  <2> HIDE DEF T
  <2> QED
    BY <1>1, <1>8, <1>9, UpTo
<1>11. N \in T /\ N \in 0 .. N
  <2>1. N \in 0 .. N
    BY ONLY <1>1
  <2> HIDE DEF T
  <2> QED
    BY ONLY <1>10, <2>1
<1>12. g[N] \in Seq(Nat) /\ Len(g[N]) = cnt(N) * size
  BY <1>5, <1>11
<1>13. ASSUME NEW i \in 1 .. N, has(i), NEW m \in 1 .. size
       PROVE  /\ LocalId(items, i) * size + m \in 1 .. Len(g[N])
              /\ g[N][LocalId(items, i) * size + m] = code(i)[m]
  <2>1. At(g[N], i)
    BY <1>11, <1>13
  <2> QED
    BY <1>4, <1>13, <2>1
<1> QED
  BY <1>1, <1>5, <1>12, <1>13 DEF N, size, code, cnt, has

(* The files of the corpus.                                                *)
LEMMA CorpusFiles ==
  ASSUME NEW items \in Seq(Items)
  PROVE  /\ CorpusOf(items).vocab = WordIds(items)
         /\ CorpusOf(items).txt = [i \in DOMAIN items |->
              [words |-> items[i].words, freq |-> items[i].freq, id |-> LocalId(items, i)]]
         /\ DOMAIN CorpusOf(items).bin = Lengths(items)
         /\ \A n \in Lengths(items) : CorpusOf(items).bin[n] = EntriesOf(WordIds(items), items, n)
         /\ \A i \in DOMAIN items : Len(items[i].words) \in Lengths(items)
BY DEF CorpusOf, Lengths

(* The ids of a length are numbers.                                        *)
LEMMA LocalIdType ==
  ASSUME NEW items \in Seq(Items), NEW i \in DOMAIN items
  PROVE  LocalId(items, i) \in Nat
<1>1. i - 1 \in Nat
  OBVIOUS
<1> DEFINE n == Len(items[i].words)
           before == i - 1
<1>2. LocalId(items, i) = CountOf(items, before, n)
  BY DEF LocalId, CountOf
<1> HIDE DEF n, before
<1>3. before \in Nat
  BY <1>1 DEF before
<1>4. CountOf(items, before, n) \in Nat
  BY <1>3, CountSteps
<1> QED
  BY <1>2, <1>4

(* The corpus counts the phrases of each length.                           *)
LEMMA PhrasesCounted ==
  ASSUME NEW items \in Seq(Items), NEW n \in Lengths(items)
  PROVE  CountPhrases(CorpusOf(items), n) = Cardinality({i \in DOMAIN items : Len(items[i].words) = n})
<1> DEFINE bin == CorpusOf(items).bin
           s == EntriesOf(WordIds(items), items, n)
           size == EntrySize(n)
           count == CountOf(items, Len(items), n)
<1>1. n \in Nat
  BY WordPlaces DEF Lengths
<1>2. size \in Nat \ {0}
  BY <1>1 DEF EntrySize
<1>3. n \in DOMAIN bin /\ bin[n] = s
  BY CorpusFiles
<1>4. Len(s) = count * size
  BY <1>1, EntriesPlaces
<1>5. Len(items) \in Nat /\ DOMAIN items = 1 .. Len(items)
  OBVIOUS
<1>6. count \in Nat
  BY <1>5, CountSteps
<1>7. CountPhrases(CorpusOf(items), n) = Len(s) \div size
  BY <1>3 DEF CountPhrases
<1> HIDE DEF count, s, size
<1>8. Len(s) \div size = count
  BY <1>2, <1>4, <1>6, TimesDivided
<1>9. count = Cardinality({i \in DOMAIN items : Len(items[i].words) = n})
  BY <1>5 DEF CountOf, count
<1> QED
  BY <1>7, <1>8, <1>9

(* A part of a sequence between two places.                                *)
LEMMA SubSeqPlaces ==
  ASSUME NEW s \in Seq(Nat), NEW a \in Nat, NEW n \in Nat, a + n <= Len(s)
  PROVE  \A m \in 1 .. n : SubSeq(s, a + 1, a + n)[m] = s[a + m]
<1>1. (a + n) - (a + 1) + 1 = n /\ \A m \in 1 .. n : m + (a + 1) - 1 = a + m
  OBVIOUS
<1>2. SubSeq(s, a + 1, a + n) = [m \in 1 .. (a + n) - (a + 1) + 1 |-> s[m + (a + 1) - 1]]
  OBVIOUS
<1> QED
  BY ONLY <1>1, <1>2

(* By its id, a phrase is read as it was written.                          *)
LEMMA PhraseReadBack ==
  ASSUME NEW items \in Seq(Items), NEW i \in DOMAIN items
  PROVE  ReadPhrase(CorpusOf(items), <<Len(items[i].words), LocalId(items, i)>>)
           = [words |-> items[i].words, freq |-> items[i].freq]
<1> DEFINE n == Len(items[i].words)
           id == LocalId(items, i)
           corpus == CorpusOf(items)
           vocab == WordIds(items)
           s == EntriesOf(vocab, items, n)
           size == EntrySize(n)
           code == Encoded(vocab, items[i])
           a == id * size
           entry == SubSeq(s, a + 1, (id + 1) * size)
           read == ReadPhrase(corpus, <<n, id>>)
<1>1. n \in Nat /\ items[i].words = [m \in 1 .. n |-> items[i].words[m]]
  BY WordPlaces
<1>2. size \in Nat \ {0} /\ size = 1 + n
  BY <1>1 DEF EntrySize
<1>3. id \in Nat
  BY LocalIdType
<1>4. corpus.vocab = vocab /\ corpus.bin[n] = s
  BY CorpusFiles
<1>5. /\ s \in Seq(Nat)
      /\ \A m \in 1 .. size : a + m \in 1 .. Len(s) /\ s[a + m] = code[m]
  BY <1>1, EntriesPlaces
<1>6. code[1] = items[i].freq /\ \A m \in 1 .. n : vocab[code[m + 1]] = items[i].words[m]
  BY EncodedPlaces
<1>7. a \in Nat /\ (id + 1) * size = a + size
  BY <1>2, <1>3, OneMoreTime
<1>8. read = [words |-> [m \in 1 .. n |-> vocab[entry[m + 1]]], freq |-> entry[1]]
  BY <1>4 DEF ReadPhrase
<1> HIDE DEF n, id, corpus, vocab, s, size, code, a, read
<1>9. a + size <= Len(s)
  BY ONLY <1>2, <1>5, <1>7
<1>10. \A m \in 1 .. size : entry[m] = code[m]
  <2>1. entry = SubSeq(s, a + 1, a + size)
    BY <1>7
  <2> HIDE DEF entry
  <2>2. \A m \in 1 .. size : SubSeq(s, a + 1, a + size)[m] = s[a + m]
    BY <1>2, <1>5, <1>7, <1>9, SubSeqPlaces
  <2> QED
    BY ONLY <1>5, <2>1, <2>2
<1> HIDE DEF entry
<1>11. entry[1] = items[i].freq /\ \A m \in 1 .. n : vocab[entry[m + 1]] = items[i].words[m]
  BY ONLY <1>1, <1>2, <1>6, <1>10
<1>12. [m \in 1 .. n |-> vocab[entry[m + 1]]] = items[i].words
  BY ONLY <1>1, <1>11
<1> QED
  BY <1>8, <1>11, <1>12 DEF n, id, corpus, read

-----------------------------------------------------------------------------
(* The phrase index.                                                       *)

Phrases == [words : InputTexts, freq : Nat, id : Nat]

(* The phrases of the corpus.                                              *)
LEMMA PhrasesType ==
  ASSUME NEW items \in Seq(Items)
  PROVE  LET txt == CorpusOf(items).txt
         IN /\ txt \in Seq(Phrases) /\ DOMAIN txt = DOMAIN items
            /\ \A i \in DOMAIN items : /\ txt[i].words = items[i].words /\ txt[i].freq = items[i].freq
                                       /\ txt[i].id = LocalId(items, i)
<1> DEFINE txt == CorpusOf(items).txt
<1>1. txt = [i \in DOMAIN items |->
              [words |-> items[i].words, freq |-> items[i].freq, id |-> LocalId(items, i)]]
  BY CorpusFiles
<1> HIDE DEF txt
<1>2. DOMAIN items = 1 .. Len(items) /\ Len(items) \in Nat
  OBVIOUS
<1>3. ASSUME NEW i \in DOMAIN items
      PROVE  /\ txt[i] \in Phrases
             /\ txt[i].words = items[i].words /\ txt[i].freq = items[i].freq /\ txt[i].id = LocalId(items, i)
  <2>1. txt[i] = [words |-> items[i].words, freq |-> items[i].freq, id |-> LocalId(items, i)]
    BY <1>1
  <2>2. items[i].words \in InputTexts /\ items[i].freq \in Nat /\ LocalId(items, i) \in Nat
    BY ItemType, LocalIdType
  <2> QED
    BY ONLY <2>1, <2>2 DEF Phrases
<1>4. DOMAIN txt = DOMAIN items /\ txt = [i \in 1 .. Len(items) |-> txt[i]]
  BY ONLY <1>1, <1>2
<1>5. txt \in Seq(Phrases)
  BY ONLY <1>2, <1>3, <1>4
<1> QED
  BY <1>3, <1>4, <1>5 DEF txt

(* A list has all phrases with a word at a place, and no more.             *)
LEMMA ListPlaces ==
  ASSUME NEW items \in Seq(Items), NEW k
  PROVE  LET list == ListOf(CorpusOf(items).txt, k)
         IN /\ Len(list) = Cardinality({i \in DOMAIN items : k \in KeysOfItem(items[i])})
            /\ \A i \in DOMAIN items : k \in KeysOfItem(items[i]) =>
                 [freq |-> items[i].freq % RefFreqLimit, id |-> LocalId(items, i)] \in ToSet(list)
<1> DEFINE txt == CorpusOf(items).txt
           X == {i \in DOMAIN txt : k \in KeysOfItem(txt[i])}
           R == {ij \in X \X X :
                   \/ RefFreq(txt[ij[1]]) > RefFreq(txt[ij[2]])
                   \/ RefFreq(txt[ij[1]]) = RefFreq(txt[ij[2]]) /\ ij[1] < ij[2]}
           order == Ordered(X, R)
           list == ListOf(txt, k)
<1>1. /\ txt \in Seq(Phrases) /\ DOMAIN txt = DOMAIN items
      /\ \A i \in DOMAIN items : /\ txt[i].words = items[i].words /\ txt[i].freq = items[i].freq
                                 /\ txt[i].id = LocalId(items, i)
  BY PhrasesType
<1>2. list = [n \in DOMAIN order |-> RefValue(txt[order[n]])]
  BY DEF ListOf
<1> HIDE DEF txt, list
<1>3. X = {i \in DOMAIN items : k \in KeysOfItem(items[i])}
  BY <1>1 DEF KeysOfItem
<1>4. X \in SUBSET Nat /\ IsFiniteSet(X)
  <2>1. X \in SUBSET (DOMAIN txt)
    OBVIOUS
  <2> HIDE DEF X
  <2> QED
    BY <1>1, <2>1, PositionsFinite
<1>5. \A i \in X : RefFreq(txt[i]) \in Nat
  <2>1. \A i \in X : txt[i].freq \in Nat
    BY <1>1, <1>3, ItemType
  <2> QED
    BY <2>1, LimitsAssumption DEF RefFreq
<1>6. \A i, j \in X : <<i, j>> \in R <=> \/ RefFreq(txt[i]) > RefFreq(txt[j])
                                         \/ RefFreq(txt[i]) = RefFreq(txt[j]) /\ i < j
  OBVIOUS
<1> HIDE DEF X, R
<1>7. StrictlyOrders(R, X)
  BY <1>4, <1>5, <1>6 DEF StrictlyOrders
<1>8. /\ order \in Seq(X) /\ Len(order) = Cardinality(X)
      /\ \A x \in X : \E n \in DOMAIN order : order[n] = x
  BY <1>4, <1>7, OrderedListing
<1> HIDE DEF order
<1>9. Len(list) = Len(order) /\ DOMAIN list = DOMAIN order
  <2>1. DOMAIN order = 1 .. Len(order) /\ Len(order) \in Nat
    BY <1>8
  <2> QED
    BY ONLY <1>2, <2>1
<1>10. ASSUME NEW i \in DOMAIN items, k \in KeysOfItem(items[i])
       PROVE  [freq |-> items[i].freq % RefFreqLimit, id |-> LocalId(items, i)] \in ToSet(list)
  <2>1. i \in X
    BY <1>3, <1>10
  <2>2. PICK n \in DOMAIN order : order[n] = i
    BY <1>8, <2>1
  <2>3. list[n] = RefValue(txt[i]) /\ n \in DOMAIN list
    BY <1>2, <1>9, <2>2
  <2>4. RefValue(txt[i]) = [freq |-> items[i].freq % RefFreqLimit, id |-> LocalId(items, i)]
    BY <1>1 DEF RefValue, RefFreq
  <2> QED
    BY <2>3, <2>4 DEF ToSet
<1> QED
  BY <1>3, <1>8, <1>9, <1>10 DEF txt, list

-----------------------------------------------------------------------------
(* The vocabulary.                                                         *)

(* A finite set of numbers has a greatest one.                             *)
LEMMA GreatestMember ==
  ASSUME NEW I \in SUBSET Nat, IsFiniteSet(I), I # {}
  PROVE  Max(I) \in I
<1> DEFINE order == Ordered(I, Less)
           n == Len(order)
<1>1. /\ order \in Seq(I)
      /\ \A x \in I : \E i \in DOMAIN order : order[i] = x
      /\ \A i, j \in DOMAIN order : i < j => <<order[i], order[j]>> \in Less
  BY LessOrders, OrderedListing
<1> HIDE DEF order
<1>2. n \in Nat /\ DOMAIN order = 1 .. n /\ \A i \in 1 .. n : order[i] \in I
  BY <1>1
<1> HIDE DEF n
<1>3. n \in 1 .. n
  <2>1. PICK x \in I : TRUE
    OBVIOUS
  <2>2. PICK i \in 1 .. n : order[i] = x
    BY <1>1, <1>2
  <2> QED
    BY ONLY <1>2, <2>2
<1>4. \A y \in I : order[n] >= y
  <2> SUFFICES ASSUME NEW i \in 1 .. n PROVE order[n] >= order[i]
    BY <1>1, <1>2
  <2>1. order[i] \in Nat /\ order[n] \in Nat
    BY <1>2, <1>3
  <2>2. CASE i = n
    BY <2>1, <2>2
  <2>3. CASE i < n
    <3>1. <<order[i], order[n]>> \in Less
      BY <1>1, <1>2, <1>3, <2>3
    <3> QED
      BY <2>1, <3>1 DEF Less
  <2> QED
    BY <1>2, <2>2, <2>3
<1>5. \E x \in I : \A y \in I : x >= y
  BY <1>2, <1>3, <1>4
<1> QED
  BY <1>5 DEF Max

(* The frequency of a word is a number; that of a 1-gram is its own.       *)
LEMMA WordFreqType ==
  ASSUME NEW txt \in Seq(Phrases), NEW w
  PROVE  /\ WordFreq(txt, w) \in Nat
         /\ \A i \in DOMAIN txt :
              /\ txt[i].words = <<w>>
              /\ \A j \in DOMAIN txt : txt[j].words = txt[i].words => j = i
              => WordFreq(txt, w) = txt[i].freq
<1> DEFINE L == ToSet(txt)
           found == {l \in L : w \in ToSet(l.words) /\ Len(l.words) \in StarLengths(1, 2)}
           freqs == {l.freq : l \in found}
<1>1. L = {txt[i] : i \in DOMAIN txt}
  BY DEF ToSet
<1>2. DOMAIN txt = 1 .. Len(txt) /\ Len(txt) \in Nat /\ txt = [i \in DOMAIN txt |-> txt[i]]
      /\ \A i \in DOMAIN txt : txt[i] \in Phrases
  OBVIOUS
<1>3. IsFiniteSet(L)
  <2>0. DOMAIN txt = 1 .. Len(txt) /\ Len(txt) \in Nat
    BY ONLY <1>2
  <2>1. IsFiniteSet(DOMAIN txt)
    BY ONLY <2>0, FS_Interval
  <2> HIDE DEF L
  <2> QED
    BY <1>1, <1>2, <2>1, ImageFinite
<1> HIDE DEF L
<1>4. \A l \in L : l.freq \in Nat
  BY <1>1, <1>2 DEF Phrases
<1>5. SearchedFreq(txt, w) = Max({0} \cup freqs)
  BY DEF SearchedFreq, L
<1>6. IsFiniteSet(freqs) /\ freqs \in SUBSET Nat
  <2> DEFINE f == [l \in found |-> l.freq]
  <2>1. IsFiniteSet(found)
    BY <1>3, FS_Subset
  <2>2. DOMAIN f = found /\ f = [l \in found |-> f[l]] /\ freqs = {f[l] : l \in found}
    OBVIOUS
  <2>3. freqs \in SUBSET Nat
    BY <1>4
  <2> HIDE DEF f, found, freqs
  <2>4. IsFiniteSet(freqs)
    BY <2>1, <2>2, ImageFinite
  <2> QED
    BY <2>3, <2>4
<1> HIDE DEF freqs
<1>7. SearchedFreq(txt, w) \in Nat
  <2> DEFINE I == {0} \cup freqs
  <2>1. I \in SUBSET Nat /\ I # {}
    BY <1>6
  <2>2. IsFiniteSet(I)
    BY <1>6, FS_Singleton, FS_Union
  <2> HIDE DEF I
  <2>3. Max(I) \in I
    BY <2>1, <2>2, GreatestMember
  <2> QED
    BY <1>5, <2>1, <2>3 DEF I
<1>8. CASE <<w>> \in Texts(txt)
  <2> DEFINE l == CHOOSE l \in L : l.words = <<w>>
  <2>1. WordFreq(txt, w) = l.freq
    BY <1>8 DEF WordFreq, L
  <2>2. \E q \in L : q.words = <<w>>
    BY <1>1, <1>8 DEF Texts
  <2>3. l \in L /\ l.words = <<w>>
    BY <2>2
  <2> HIDE DEF l
  <2>4. PICK j \in DOMAIN txt : l = txt[j]
    BY <1>1, <2>3
  <2>5. ASSUME NEW i \in DOMAIN txt, txt[i].words = <<w>>,
               \A k \in DOMAIN txt : txt[k].words = txt[i].words => k = i
        PROVE  WordFreq(txt, w) = txt[i].freq
    BY <2>1, <2>3, <2>4, <2>5
  <2> QED
    BY <1>4, <2>1, <2>3, <2>5
<1>9. CASE <<w>> \notin Texts(txt)
  <2>1. WordFreq(txt, w) = SearchedFreq(txt, w)
    BY <1>9 DEF WordFreq
  <2>2. \A i \in DOMAIN txt : txt[i].words # <<w>>
    BY <1>9 DEF Texts
  <2> QED
    BY <1>7, <2>1, <2>2
<1> QED
  BY <1>8, <1>9

(* The vocabulary has each word once, by descending frequency.             *)
LEMMA VocabularyPlaces ==
  ASSUME NEW items \in Seq(Items)
  PROVE  LET corpus == CorpusOf(items)
             vocabulary == VocabularyOf(corpus)
         IN /\ vocabulary \in Seq(Words(items))
            /\ IsInjective(vocabulary) /\ ToSet(vocabulary) = Words(items)
            /\ \A i, j \in DOMAIN vocabulary : i < j =>
                 WordFreq(corpus.txt, vocabulary[i]) >= WordFreq(corpus.txt, vocabulary[j])
<1> DEFINE corpus == CorpusOf(items)
           txt == corpus.txt
           vocab == corpus.vocab
           X == ToSet(vocab)
           R == {vw \in X \X X :
                   \/ WordFreq(txt, vw[1]) > WordFreq(txt, vw[2])
                   \/ /\ WordFreq(txt, vw[1]) = WordFreq(txt, vw[2])
                      /\ IdOf(vocab, vw[1]) < IdOf(vocab, vw[2])}
           vocabulary == VocabularyOf(corpus)
<1>1. txt \in Seq(Phrases) /\ vocab = WordIds(items)
  BY PhrasesType, CorpusFiles
<1>2. vocabulary = Ordered(X, R)
  BY DEF VocabularyOf
<1> HIDE DEF corpus, txt, vocab, vocabulary
<1>3. X = Words(items) /\ IsFiniteSet(X)
  BY <1>1, VocabIds, WordsFinite
<1>4. \A w \in X : IdOf(vocab, w) \in Nat /\ vocab[IdOf(vocab, w)] = w
  BY <1>1, <1>3, VocabIds
<1>5. \A w \in X : WordFreq(txt, w) \in Nat
  BY <1>1, WordFreqType
<1>6. \A v, w \in X : <<v, w>> \in R <=>
        \/ WordFreq(txt, v) > WordFreq(txt, w)
        \/ WordFreq(txt, v) = WordFreq(txt, w) /\ IdOf(vocab, v) < IdOf(vocab, w)
  OBVIOUS
<1> HIDE DEF X, R
<1>7. \A v, w \in X : v # w => IdOf(vocab, v) < IdOf(vocab, w) \/ IdOf(vocab, w) < IdOf(vocab, v)
  <2> SUFFICES ASSUME NEW v \in X, NEW w \in X, v # w
               PROVE  IdOf(vocab, v) < IdOf(vocab, w) \/ IdOf(vocab, w) < IdOf(vocab, v)
    OBVIOUS
  <2>1. IdOf(vocab, v) # IdOf(vocab, w)
    BY <1>4
  <2> QED
    BY <1>4, <2>1
<1>8. StrictlyOrders(R, X)
  <2>1. \A x \in X : <<x, x>> \notin R
    BY <1>4, <1>5, <1>6
  <2>2. \A x, y \in X : x # y => <<x, y>> \in R \/ <<y, x>> \in R
    BY <1>4, <1>5, <1>6, <1>7
  <2>3. ASSUME NEW x \in X, NEW y \in X, NEW z \in X, <<x, y>> \in R, <<y, z>> \in R PROVE <<x, z>> \in R
    BY <1>4, <1>5, <1>6, <2>3
  <2> QED
    BY <2>1, <2>2, <2>3 DEF StrictlyOrders
<1>9. /\ vocabulary \in Seq(X)
      /\ \A x \in X : \E i \in DOMAIN vocabulary : vocabulary[i] = x
      /\ \A i, j \in DOMAIN vocabulary : i < j => <<vocabulary[i], vocabulary[j]>> \in R
  BY <1>2, <1>3, <1>8, OrderedListing
<1>10. /\ DOMAIN vocabulary = 1 .. Len(vocabulary) /\ Len(vocabulary) \in Nat
       /\ \A i \in DOMAIN vocabulary : vocabulary[i] \in X
  BY <1>9
<1>11. ToSet(vocabulary) = X
  BY <1>9, <1>10 DEF ToSet
<1>12. IsInjective(vocabulary)
  <2> SUFFICES ASSUME NEW i \in DOMAIN vocabulary, NEW j \in DOMAIN vocabulary,
                      vocabulary[i] = vocabulary[j], i # j
               PROVE  FALSE
    BY DEF IsInjective
  <2>1. i < j \/ j < i
    BY <1>10
  <2> QED
    BY <1>8, <1>9, <1>10, <2>1 DEF StrictlyOrders
<1>13. \A i, j \in DOMAIN vocabulary : i < j => WordFreq(txt, vocabulary[i]) >= WordFreq(txt, vocabulary[j])
  <2> SUFFICES ASSUME NEW i \in DOMAIN vocabulary, NEW j \in DOMAIN vocabulary, i < j
               PROVE  WordFreq(txt, vocabulary[i]) >= WordFreq(txt, vocabulary[j])
    OBVIOUS
  <2> DEFINE v == vocabulary[i]
             w == vocabulary[j]
  <2>1. v \in X /\ w \in X /\ <<v, w>> \in R
    BY <1>9, <1>10
  <2> HIDE DEF v, w
  <2>2. WordFreq(txt, v) >= WordFreq(txt, w)
    BY <1>5, <1>6, <2>1
  <2> QED
    BY <2>2 DEF v, w
<1> QED
  BY <1>3, <1>9, <1>11, <1>12, <1>13 DEF corpus, txt, vocabulary

-----------------------------------------------------------------------------
(* The components of an index together.                                    *)

(* The dictionary has each phrase, if it was built.                        *)
LEMMA DictionaryFinds ==
  ASSUME NEW items \in Seq(Items), CanBuild(DictionaryRecords(CorpusOf(items).txt)),
         NEW i \in DOMAIN items
  PROVE  LET dictionary == Build(DictionaryRecords(CorpusOf(items).txt))
         IN /\ HasKey(dictionary, items[i].words)
            /\ Get(dictionary, items[i].words) = <<items[i].freq, LocalId(items, i)>>
<1> DEFINE txt == CorpusOf(items).txt
           records == DictionaryRecords(txt)
           S == [key : InputTexts, value : Nat \X Nat]
<1>1. /\ DOMAIN txt = DOMAIN items
      /\ \A j \in DOMAIN items : /\ txt[j].words = items[j].words /\ txt[j].freq = items[j].freq
                                 /\ txt[j].id = LocalId(items, j)
  BY PhrasesType
<1> HIDE DEF txt
<1>2. records = [j \in DOMAIN txt |-> [key |-> txt[j].words, value |-> <<txt[j].freq, txt[j].id>>]]
  BY DEF DictionaryRecords
<1> HIDE DEF records
<1>3. DOMAIN items = 1 .. Len(items) /\ Len(items) \in Nat
  OBVIOUS
<1>4. ASSUME NEW j \in DOMAIN items
      PROVE  /\ records[j] = [key |-> items[j].words, value |-> <<items[j].freq, LocalId(items, j)>>]
             /\ records[j] \in S
  <2>1. records[j] = [key |-> items[j].words, value |-> <<items[j].freq, LocalId(items, j)>>]
    BY <1>1, <1>2
  <2>2. items[j].words \in InputTexts /\ items[j].freq \in Nat /\ LocalId(items, j) \in Nat
    BY ItemType, LocalIdType
  <2> QED
    BY <2>1, <2>2
<1>5. records \in Seq(S) /\ DOMAIN records = DOMAIN items
  <2> HIDE DEF S
  <2>1. records = [j \in 1 .. Len(items) |-> records[j]]
    BY ONLY <1>1, <1>2, <1>3
  <2> QED
    BY ONLY <1>3, <1>4, <2>1
<1>6. \A r \in S : Hash(r.key) \in Nat
  BY InputsAssumption
<1> HIDE DEF S
<1>7. CanBuild(records)
  BY DEF records, txt
<1>8. HasKey(Build(records), records[i].key) /\ Get(Build(records), records[i].key) = records[i].value
  <2>1. i \in DOMAIN records
    BY <1>5
  <2> QED
    BY ONLY <1>5, <1>6, <1>7, <2>1, MapFinds
<1>9. records[i].key = items[i].words /\ records[i].value = <<items[i].freq, LocalId(items, i)>>
  <2>1. records[i] = [key |-> items[i].words, value |-> <<items[i].freq, LocalId(items, i)>>]
    BY <1>4
  <2> QED
    BY ONLY <2>1
<1> QED
  BY <1>8, <1>9 DEF records, txt

(* A dictionary that was built has no text twice.                          *)
LEMMA TextsDiffer ==
  ASSUME NEW items \in Seq(Items), CanBuild(DictionaryRecords(CorpusOf(items).txt)),
         NEW i \in DOMAIN items, NEW j \in DOMAIN items, items[i].words = items[j].words
  PROVE  i = j
<1> DEFINE txt == CorpusOf(items).txt
           records == DictionaryRecords(txt)
<1>1. DOMAIN txt = DOMAIN items /\ \A k \in DOMAIN items : txt[k].words = items[k].words
  BY PhrasesType
<1>2. records = [k \in DOMAIN txt |-> [key |-> txt[k].words, value |-> <<txt[k].freq, txt[k].id>>]]
  BY DEF DictionaryRecords
<1>3. \A k \in DOMAIN items : k \in DOMAIN records /\ records[k].key = items[k].words
  BY <1>1, <1>2
<1>4. IsInjective([k \in DOMAIN records |-> records[k].key])
  BY DEF CanBuild, IsUnique
<1> HIDE DEF records
<1>5. \A k, l \in DOMAIN records : records[k].key = records[l].key => k = l
  BY <1>4 DEF IsInjective
<1> QED
  BY <1>3, <1>5

(* The components of an index are those of its lines.                      *)
ComponentsOf(parts_, lines) ==
  /\ parts_["phrase-corpus"] = CorpusOf(lines)
  /\ CanBuild(DictionaryRecords(CorpusOf(lines).txt))
  /\ parts_["phrase-dictionary"] = Build(DictionaryRecords(CorpusOf(lines).txt))
  /\ parts_["phrase-index"] = PhraseIndexOf(CorpusOf(lines).txt)
  /\ parts_["regex-vocabulary"] = VocabularyOf(CorpusOf(lines))

(* Then each phrase is found in all of them.                               *)
LEMMA PhrasesFound ==
  ASSUME NEW place \in Places, NEW items \in Seq(Items), ComponentsOf(index[place], items),
         NEW i \in DOMAIN items
  PROVE  PhraseIsFound(place, items[i])
<1> DEFINE line == items[i]
           corpus == CorpusOf(items)
           lists == PhraseIndexOf(corpus.txt)
           entry == Get(index[place]["phrase-dictionary"], line.words)
           id == LocalId(items, i)
<1>1. /\ HasKey(index[place]["phrase-dictionary"], line.words)
      /\ entry = <<line.freq, id>>
  BY DictionaryFinds DEF ComponentsOf
<1> HIDE DEF entry
<1>2. entry[1] = line.freq /\ entry[2] = id
  BY <1>1
<1>3. ReadPhrase(index[place]["phrase-corpus"], <<Len(line.words), id>>) = [words |-> line.words, freq |-> line.freq]
  BY PhraseReadBack DEF ComponentsOf
<1>4. ASSUME NEW k \in KeysOfItem(line)
      PROVE  [freq |-> line.freq % RefFreqLimit, id |-> id] \in ToSet(index[place]["phrase-index"][k])
  <2>1. DOMAIN corpus.txt = DOMAIN items /\ \A j \in DOMAIN items : corpus.txt[j].words = items[j].words
    BY PhrasesType
  <2>2. k \in KeysOfItem(corpus.txt[i]) /\ i \in DOMAIN corpus.txt
    BY <1>4, <2>1 DEF KeysOfItem
  <2>3. lists[k] = ListOf(corpus.txt, k)
    BY <2>2 DEF PhraseIndexOf
  <2>4. index[place]["phrase-index"] = lists
    BY DEF ComponentsOf
  <2> HIDE DEF lists
  <2>5. [freq |-> line.freq % RefFreqLimit, id |-> id] \in ToSet(ListOf(corpus.txt, k))
    BY <1>4, ListPlaces
  <2> QED
    BY <2>3, <2>4, <2>5
<1> HIDE DEF id, line
<1> QED
  BY <1>1, <1>2, <1>3, <1>4 DEF PhraseIsFound, entry, line

(* 1-grams are in the vocabulary by their frequencies.                     *)
LEMMA UnigramsByFrequency ==
  ASSUME NEW items \in Seq(Items), CanBuild(DictionaryRecords(CorpusOf(items).txt)),
         NEW i \in DOMAIN items, NEW j \in DOMAIN items,
         Len(items[i].words) = 1, Len(items[j].words) = 1, items[i].freq > items[j].freq
  PROVE  LET vocabulary == VocabularyOf(CorpusOf(items))
             rank(w) == CHOOSE n \in DOMAIN vocabulary : vocabulary[n] = w
         IN rank(items[i].words[1]) < rank(items[j].words[1])
<1> DEFINE corpus == CorpusOf(items)
           txt == corpus.txt
           vocabulary == VocabularyOf(corpus)
           rank(w) == CHOOSE n \in DOMAIN vocabulary : vocabulary[n] = w
           v == items[i].words[1]
           w == items[j].words[1]
<1>1. /\ vocabulary \in Seq(Words(items)) /\ ToSet(vocabulary) = Words(items)
      /\ \A m, n \in DOMAIN vocabulary : m < n => WordFreq(txt, vocabulary[m]) >= WordFreq(txt, vocabulary[n])
  BY VocabularyPlaces
<1>2. /\ txt \in Seq(Phrases) /\ DOMAIN txt = DOMAIN items
      /\ \A k \in DOMAIN items : txt[k].words = items[k].words /\ txt[k].freq = items[k].freq
  BY PhrasesType
<1>3. ASSUME NEW k \in DOMAIN items, Len(items[k].words) = 1
      PROVE  items[k].words[1] \in Words(items) /\ WordFreq(txt, items[k].words[1]) = items[k].freq
  <2> DEFINE u == items[k].words[1]
  <2>1. items[k].words = [m \in 1 .. 1 |-> items[k].words[m]] /\ u \in Words(items)
    BY <1>3, WordPlaces
  <2>2. items[k].words = <<u>>
    BY <2>1
  <2>3. \A l \in DOMAIN txt : txt[l].words = txt[k].words => l = k
    BY <1>2, TextsDiffer
  <2>4. txt[k].words = <<u>> /\ k \in DOMAIN txt
    BY <1>2, <2>2
  <2> HIDE DEF u, txt
  <2>5. WordFreq(txt, u) = txt[k].freq
    BY <1>2, <2>3, <2>4, WordFreqType
  <2> QED
    BY <1>2, <2>1, <2>5 DEF u
<1>4. /\ v \in Words(items) /\ WordFreq(txt, v) = items[i].freq
      /\ w \in Words(items) /\ WordFreq(txt, w) = items[j].freq
  BY <1>3
<1> HIDE DEF txt, vocabulary, v, w
<1>5. /\ DOMAIN vocabulary = 1 .. Len(vocabulary) /\ Len(vocabulary) \in Nat
  BY <1>1
<1>6. \A u \in Words(items) : rank(u) \in DOMAIN vocabulary /\ vocabulary[rank(u)] = u
  BY <1>1 DEF ToSet
<1> HIDE DEF rank
<1>7. rank(v) \in Nat /\ rank(w) \in Nat
  BY <1>4, <1>5, <1>6
<1>8. items[i].freq \in Nat /\ items[j].freq \in Nat
  BY ItemType
<1>9. ~ rank(w) < rank(v)
  <2> SUFFICES ASSUME rank(w) < rank(v) PROVE FALSE
    OBVIOUS
  <2>1. WordFreq(txt, w) >= WordFreq(txt, v)
    BY <1>1, <1>4, <1>6
  <2> QED
    BY <1>4, <1>8, <2>1
<1>10. rank(v) # rank(w)
  <2> SUFFICES ASSUME rank(v) = rank(w) PROVE FALSE
    OBVIOUS
  <2>1. v = w
    BY <1>4, <1>6
  <2> QED
    BY <1>4, <1>8, <2>1
<1> QED
  BY <1>7, <1>9, <1>10 DEF rank, vocabulary, v, w

-----------------------------------------------------------------------------
(* What is in the files.                                                   *)

(* Files with numbers, each with lines.                                    *)
LineFiles(files) ==
  /\ DOMAIN files \in SUBSET Nat /\ IsFiniteSet(DOMAIN files)
  /\ \A i \in DOMAIN files : files[i] \in Seq(Items)

(* The first inductive invariant: files are read as lines, whatever was in *)
(* the merge directory before.                                             *)
FilesInv ==
  /\ \A d \in MergeDirs : copies[d] = None \/ LineFiles(copies[d])
  /\ step = "merge" => LineFiles(parts[mode]) /\ LineFiles(copies[mode])
  /\ step \in {"open", "build"} /\ Merging => LineFiles(copies[mode])

(* A directory that is made holds no files.                                *)
LEMMA NoLines == LineFiles(<<>>)
<1>1. DOMAIN <<>> = {}
  OBVIOUS
<1> QED
  BY <1>1, FS_EmptySet DEF LineFiles

(* A partition has files with lines.                                       *)
LEMMA PartitionLines ==
  ASSUME NEW in \in Inputs
  PROVE  LineFiles([i \in 0 .. NumFiles(in) - 1 |-> FilePart(AllEntries(in), NumFiles(in), i)])
<1> DEFINE all == AllEntries(in)
           num == NumFiles(in)
           files == [i \in 0 .. num - 1 |-> FilePart(all, num, i)]
<1>1. all \in Seq(Items) /\ num \in Nat
  BY AllEntriesType, NumFilesType
<1> HIDE DEF all, num
<1>2. IsFiniteSet(0 .. num - 1) /\ 0 .. num - 1 \in SUBSET Nat
  BY <1>1, FS_Interval
<1>3. DOMAIN files = 0 .. num - 1 /\ \A i \in 0 .. num - 1 : files[i] = FilePart(all, num, i)
  OBVIOUS
<1> HIDE DEF files
<1>4. \A i \in 0 .. num - 1 : files[i] \in Seq(Items)
  BY <1>1, <1>3, PartType
<1>5. LineFiles(files)
  BY <1>2, <1>3, <1>4 DEF LineFiles
<1> QED
  BY <1>5 DEF files, all, num

(* So have the files when one more is merged.                              *)
LEMMA MergedFileLines ==
  ASSUME NEW parts_, LineFiles(parts_), NEW copies_, LineFiles(copies_), NEW i \in DOMAIN parts_
  PROVE  LineFiles(Without(parts_, i)) /\ LineFiles(Put(copies_, i, Merged(parts_[i])))
<1> DEFINE p == Without(parts_, i)
           c == Put(copies_, i, Merged(parts_[i]))
<1>1. /\ DOMAIN parts_ \in SUBSET Nat /\ IsFiniteSet(DOMAIN parts_) /\ \A k \in DOMAIN parts_ : parts_[k] \in Seq(Items)
      /\ DOMAIN copies_ \in SUBSET Nat /\ IsFiniteSet(DOMAIN copies_) /\ \A k \in DOMAIN copies_ : copies_[k] \in Seq(Items)
  BY DEF LineFiles
<1>2. Merged(parts_[i]) \in Seq(Items)
  BY <1>1, MergedPart
<1>3. /\ DOMAIN p = (DOMAIN parts_) \ {i} /\ \A k \in DOMAIN p : p[k] = parts_[k]
      /\ DOMAIN c = {i} \cup DOMAIN copies_
      /\ \A k \in DOMAIN c : c[k] = IF k = i THEN Merged(parts_[i]) ELSE copies_[k]
  BY DEF Without, Put
<1> HIDE DEF p, c
<1>4. LineFiles(p)
  BY <1>1, <1>3, FS_Subset DEF LineFiles
<1>5. IsFiniteSet(DOMAIN c)
  <2>1. IsFiniteSet({i}) /\ IsFiniteSet(DOMAIN copies_)
    BY <1>1, FS_Singleton
  <2>2. IsFiniteSet({i} \cup DOMAIN copies_)
    BY ONLY <2>1, FS_Union
  <2> QED
    BY <1>3, <2>2
<1>6. LineFiles(c)
  BY <1>1, <1>2, <1>3, <1>5 DEF LineFiles
<1> QED
  BY <1>4, <1>6 DEF p, c

(* Before the first command there are no files.                            *)
LEMMA FilesHold == Init => FilesInv
BY DEF Init, FilesInv, Merging

(* The steps that leave the merge directories alone.                       *)
LEMMA FilesLeftAlone ==
  ASSUME FilesInv, UNCHANGED <<mode, parts, copies>>,
         \/ step' = step
         \/ step' \notin {"merge", "open", "build"}
         \/ step \in {"open", "build"} /\ step' = "build"
         \/ step = "merge" /\ step' = "open"
  PROVE  FilesInv'
BY DEF FilesInv, Merging

(* Nothing but a clean-up takes merged files away, and no file is written  *)
(* with anything but lines.                                                *)
LEMMA FilesKept ==
  ASSUME MergeInv, FilesInv, [Next]_vars
  PROVE  FilesInv'
<1>1. ASSUME NEW in \in Inputs, NEW m \in {"plain"} \cup MergeDirs, Run(in, m) PROVE FilesInv'
  BY <1>1 DEF Run, FilesInv, Merging
<1>2. CASE PartitionFails \/ Rename \/ Stop \/ UNCHANGED vars
  <2>1. UNCHANGED <<mode, parts, copies>> /\ (step' = step \/ step' \notin {"merge", "open", "build"})
    BY <1>2 DEF PartitionFails, Rename, Stop, Fail, Goto, vars, build
  <2> QED
    BY <2>1, FilesLeftAlone
<1>3. CASE OpenOutput
  <2>1. UNCHANGED <<parts, copies>> /\ step = "open"
    BY <1>3 DEF OpenOutput
  <2>2. mode' = mode /\ step' \in {"failed", "build"}
    <3>1. CASE Empty(Place)
      BY <1>3, <3>1 DEF OpenOutput, Goto
    <3>2. CASE ~ Empty(Place)
      BY <1>3, <3>2 DEF OpenOutput, Fail
    <3> QED
      BY <3>1, <3>2
  <2> QED
    BY <2>1, <2>2, FilesLeftAlone
<1>4. CASE BeginComponent
  <2>1. UNCHANGED <<mode, parts, copies, step>>
    BY <1>4 DEF BeginComponent, build
  <2> QED
    BY <2>1, FilesLeftAlone
<1>5. CASE EndComponent
  <2>1. /\ UNCHANGED <<mode, parts, copies>>
        /\ step = "build" /\ step' \in {"failed", "build", "rename", "done"}
    BY <1>5 DEF EndComponent, Fail
  <2> QED
    BY <2>1, FilesLeftAlone
<1>6. CASE PartitionFiles
  <2> DEFINE part == [i \in 0 .. NumFiles(input) - 1 |-> FilePart(AllEntries(input), NumFiles(input), i)]
             copy == IF copies[mode] = None THEN <<>> ELSE copies[mode]
  <2>1. /\ step = "partition" /\ step' = "merge" /\ mode' = mode
        /\ parts' = [parts EXCEPT ![mode] = part] /\ copies' = [copies EXCEPT ![mode] = copy]
    BY <1>6 DEF PartitionFiles, Goto
  <2>2. mode \in MergeDirs /\ input \in Inputs
    BY <2>1 DEF MergeInv, Merging
  <2>3. LineFiles(part) /\ LineFiles(copy)
    BY <2>2, PartitionLines, NoLines DEF FilesInv
  <2> HIDE DEF part, copy
  <2>4. parts'[mode] = part /\ copies'[mode] = copy /\ \A d \in MergeDirs : copies'[d] = copies[d] \/ copies'[d] = copy
    BY <2>1, <2>2 DEF MergeInv
  <2> QED
    BY <2>1, <2>3, <2>4 DEF FilesInv
<1>7. CASE MergeFile
  <2>1. PICK i \in DOMAIN parts[mode] :
          /\ copies' = [copies EXCEPT ![mode] = Put(@, i, Merged(parts[mode][i]))]
          /\ parts' = [parts EXCEPT ![mode] = Without(@, i)]
    BY <1>7 DEF MergeFile
  <2>2. step = "merge" /\ UNCHANGED <<step, mode>>
    BY <1>7 DEF MergeFile, build
  <2>3. mode \in MergeDirs
    BY <2>2 DEF MergeInv, Merging
  <2> DEFINE p == Without(parts[mode], i)
             c == Put(copies[mode], i, Merged(parts[mode][i]))
  <2>4. LineFiles(p) /\ LineFiles(c)
    BY <2>2, MergedFileLines DEF FilesInv
  <2>5. parts' = [parts EXCEPT ![mode] = p] /\ copies' = [copies EXCEPT ![mode] = c]
    BY <2>1
  <2> HIDE DEF p, c
  <2>6. parts'[mode] = p /\ copies'[mode] = c /\ \A d \in MergeDirs : copies'[d] = copies[d] \/ copies'[d] = c
    BY <2>3, <2>5 DEF MergeInv
  <2> QED
    BY <2>2, <2>4, <2>6 DEF FilesInv
<1>8. CASE MergeEnds
  <2>1. step = "merge" /\ step' = "open" /\ UNCHANGED <<mode, copies>>
    BY <1>8 DEF MergeEnds, Goto
  <2> QED
    BY <2>1 DEF FilesInv
<1>9. CASE RemoveOut \/ RemoveMergeDir
  <2>1. /\ UNCHANGED step /\ step \notin {"merge", "open", "build"}
        /\ \E d \in MergeDirs : copies' = [copies EXCEPT ![d] = None]
    BY <1>9 DEF RemoveOut, RemoveMergeDir, build, MergeDirs, Resting
  <2>2. \A d \in MergeDirs : copies'[d] = copies[d] \/ copies'[d] = None
    BY <2>1 DEF MergeInv
  <2> QED
    BY <2>1, <2>2 DEF FilesInv
<1> QED
  BY <1>1, <1>2, <1>3, <1>4, <1>5, <1>6, <1>7, <1>8, <1>9 DEF Next, Program

(* The lines that the corpus is built from.                                *)
LEMMA ReadFilesType ==
  ASSUME MergeInv, FilesInv, step = "build"
  PROVE  ReadFiles \in Seq(Items)
<1>1. CASE Merging
  <2>1. LineFiles(copies[mode]) /\ ReadFiles = Joined(copies[mode])
    BY <1>1 DEF FilesInv, ReadFiles
  <2> QED
    BY <2>1, JoinedPlaces DEF LineFiles
<1>2. CASE ~ Merging
  <2> DEFINE F == [lines : Seq(InputLines), ended : BOOLEAN]
             files == [i \in DOMAIN input |-> ItemsOf(input[i])]
  <2>1. input \in Seq(F)
    BY InputsAssumption DEF MergeInv
  <2>2. DOMAIN input = 1 .. Len(input) /\ Len(input) \in Nat
    BY <2>1
  <2>3. IsFiniteSet(DOMAIN input) /\ DOMAIN input \in SUBSET Nat
    BY <2>2, FS_Interval
  <2>4. ASSUME NEW i \in DOMAIN input PROVE ItemsOf(input[i]) \in Seq(Items)
    <3> DEFINE file == input[i]
               lines == IF file.ended \/ file.lines = <<>> THEN file.lines ELSE Front(file.lines)
    <3>1. file \in F
      <4> HIDE DEF F
      <4> QED
        BY <2>1
    <3>2. file.lines \in Seq(InputLines)
      BY <3>1
    <3> HIDE DEF file
    <3>3. Front(file.lines) \in Seq(InputLines) \/ file.lines = <<>>
      BY <3>2 DEF Front
    <3>4. lines \in Seq(InputLines)
      BY <3>2, <3>3
    <3>5. ItemsOf(file) = Entries(lines)
      BY DEF ItemsOf
    <3> HIDE DEF lines
    <3>6. ItemsOf(file) \in Seq(Items)
      BY <3>4, <3>5, EntriesType
    <3> QED
      BY <3>6 DEF file
  <2>5. DOMAIN files = DOMAIN input /\ \A i \in DOMAIN input : files[i] = ItemsOf(input[i])
    OBVIOUS
  <2>6. ReadFiles = Joined(files)
    BY <1>2 DEF ReadFiles
  <2> HIDE DEF files
  <2>7. \A l \in DOMAIN files : files[l] \in Seq(Items)
    BY <2>4, <2>5
  <2> QED
    BY <2>3, <2>5, <2>6, <2>7, JoinedPlaces
<1> QED
  BY <1>1, <1>2


-----------------------------------------------------------------------------
(* The components hold what their lines say.                               *)

(* What the j-th component of lines holds.                                 *)
ContentAt(lines, j) ==
  LET corpus == CorpusOf(lines)
      lists == PhraseIndexOf(corpus.txt)
  IN CASE j = 1 -> corpus
       [] j = 2 -> Build(DictionaryRecords(corpus.txt))
       [] j = 3 -> lists
       [] j = 4 -> PostlistIndexOf(lists)
       [] j = 5 -> VocabularyOf(corpus)

(* A dictionary is only there if its keys differ.                          *)
ContentsOf(parts_, lines) ==
  /\ \A j \in Numbers : HasPart(parts_, j) => lines \in Seq(Items)
  /\ \A j \in Numbers : HasWhole(parts_, j) => parts_[Components[j]] = ContentAt(lines, j)
  /\ HasWhole(parts_, 2) => CanBuild(DictionaryRecords(CorpusOf(lines).txt))

(* The second inductive invariant: with the order of the components, since *)
(* each is made from those before it.                                      *)
ContentInv ==
  /\ \A p \in Places : index[p] # None => ContentsOf(index[p], source[p].lines)
  /\ step = "build" => ContentsOf(index[Place], source[Place].lines)

(* An empty directory holds nothing.                                       *)
LEMMA NoContents == ASSUME NEW lines PROVE ContentsOf(<<>>, lines)
<1>1. \A j \in Numbers : ~ HasPart(<<>>, j)
  BY DEF HasPart
<1> QED
  BY <1>1 DEF ContentsOf, HasWhole, Numbers

(* A component that begins, the first one with lines that were read.       *)
LEMMA ContentsBegun ==
  ASSUME NEW files, NEW lines \in Seq(Items), NEW n \in Numbers, BuiltUpTo(files, n),
         n # 1 => ContentsOf(files, lines)
  PROVE  ContentsOf(Put(files, Components[n], Partial), lines)
<1> DEFINE new == Put(files, Components[n], Partial)
<1>1. new = Put(files, Components[n], Partial) /\ new[Components[n]] = Partial
  BY DEF Put
<1> HIDE DEF new
<1>2. ~ HasWhole(new, n)
  BY <1>1 DEF HasWhole
<1>3. ASSUME NEW j \in Numbers, HasWhole(new, j)
      PROVE  HasWhole(files, j) /\ new[Components[j]] = files[Components[j]] /\ n # 1
  <2>1. Components[j] # Components[n] /\ j # n
    BY <1>2, <1>3, ComponentNames
  <2>2. HasWhole(files, j) /\ new[Components[j]] = files[Components[j]]
    BY <1>1, <1>3, <2>1 DEF Put, HasPart, HasWhole
  <2>3. n # 1
    BY <2>1, <2>2 DEF BuiltUpTo, HasWhole, Numbers
  <2> QED
    BY <2>2, <2>3
<1>4. 2 \in Numbers
  BY DEF Numbers
<1> QED
  BY <1>3, <1>4 DEF ContentsOf, new

(* A component that ends with what it should hold.                         *)
LEMMA ContentsEnded ==
  ASSUME NEW files, NEW lines, NEW n \in Numbers, HasPart(files, n), ContentsOf(files, lines),
         NEW content, content = ContentAt(lines, n),
         n = 2 => CanBuild(DictionaryRecords(CorpusOf(lines).txt))
  PROVE  ContentsOf(Put(files, Components[n], content), lines)
<1> DEFINE new == Put(files, Components[n], content)
<1>1. new = Put(files, Components[n], content) /\ new[Components[n]] = content
  BY DEF Put
<1> HIDE DEF new
<1>2. lines \in Seq(Items)
  BY DEF ContentsOf
<1>3. ASSUME NEW j \in Numbers, HasWhole(new, j)
      PROVE  /\ new[Components[j]] = ContentAt(lines, j)
             /\ j = 2 => CanBuild(DictionaryRecords(CorpusOf(lines).txt))
  <2>1. CASE j = n
    BY <1>1, <2>1
  <2>2. CASE j # n
    <3>1. HasWhole(files, j) /\ new[Components[j]] = files[Components[j]]
      <4>1. Components[j] # Components[n]
        BY <2>2, ComponentNames
      <4> QED
        BY <1>1, <1>3, <4>1 DEF Put, HasPart, HasWhole
    <3> QED
      BY <3>1 DEF ContentsOf
  <2> QED
    BY <2>1, <2>2
<1>4. 2 \in Numbers
  BY DEF Numbers
<1> QED
  BY <1>2, <1>3, <1>4 DEF ContentsOf, new

(* What a component is made from is what those before it hold.             *)
LEMMA BuiltIsContent ==
  ASSUME NEW n \in Numbers, BuiltUpTo(index[Place], n), ContentsOf(index[Place], source[Place].lines)
  PROVE  LET lines == source[Place].lines
         IN /\ Built(Components[n]) = ContentAt(lines, n)
            /\ n = 2 /\ Buildable(Components[n]) => CanBuild(DictionaryRecords(CorpusOf(lines).txt))
<1> DEFINE lines == source[Place].lines
           files == index[Place]
<1>1. n # 1 => Corpus = CorpusOf(lines)
  <2> SUFFICES ASSUME n # 1 PROVE Corpus = CorpusOf(lines)
    OBVIOUS
  <2>1. 1 \in Numbers /\ HasWhole(files, 1)
    BY DEF BuiltUpTo, Numbers
  <2>2. files[Components[1]] = ContentAt(lines, 1)
    BY <2>1 DEF ContentsOf
  <2> QED
    BY <2>2, ComponentNames DEF Corpus, ContentAt
<1>2. n = 4 => files["phrase-index"] = PhraseIndexOf(CorpusOf(lines).txt)
  <2> SUFFICES ASSUME n = 4 PROVE files["phrase-index"] = PhraseIndexOf(CorpusOf(lines).txt)
    OBVIOUS
  <2>1. 3 \in Numbers /\ HasWhole(files, 3)
    BY DEF BuiltUpTo, Numbers
  <2>2. files[Components[3]] = ContentAt(lines, 3)
    BY <2>1 DEF ContentsOf
  <2> QED
    BY <2>2, ComponentNames DEF ContentAt
<1>3. n = 1 \/ n = 2 \/ n = 3 \/ n = 4 \/ n = 5
  BY DEF Numbers
<1> HIDE DEF lines, Corpus
<1>4. Built(Components[n]) = ContentAt(lines, n)
  <2>1. CASE n = 1
    BY <2>1, ComponentNames DEF Built, ContentAt, lines
  <2>2. CASE n = 2
    BY <1>1, <2>2, ComponentNames DEF Built, ContentAt
  <2>3. CASE n = 3
    BY <1>1, <2>3, ComponentNames DEF Built, ContentAt
  <2>4. CASE n = 4
    BY <1>2, <2>4, ComponentNames DEF Built, ContentAt
  <2>5. CASE n = 5
    BY <1>1, <2>5, ComponentNames DEF Built, ContentAt
  <2> QED
    BY <1>3, <2>1, <2>2, <2>3, <2>4, <2>5
<1>5. ASSUME n = 2, Buildable(Components[n])
      PROVE  CanBuild(DictionaryRecords(CorpusOf(lines).txt))
  BY <1>1, <1>5, ComponentNames DEF Buildable
<1> QED
  BY <1>4, <1>5 DEF lines

(* Before the first command nothing is built.                              *)
LEMMA ContentHolds == Init => ContentInv
<1> SUFFICES ASSUME Init PROVE ContentInv
  OBVIOUS
<1>1. step # "build" /\ \A p \in Places : index[p] = None \/ index[p] = <<>>
  BY DEF Init
<1> QED
  BY <1>1, NoContents DEF ContentInv

(* Most steps touch no index.                                              *)
LEMMA ContentLeftAlone ==
  ASSUME ContentInv, UNCHANGED <<index, source>>,
         step' # "build" \/ UNCHANGED <<step, mode>>
  PROVE  ContentInv'
BY DEF ContentInv, Place, Merging

(* A step of the build, which changes the index at its place.              *)
LEMMA ContentWith ==
  ASSUME OrderInv, MergeInv, ContentInv, UNCHANGED mode, NEW content, With(Components[at], content),
         NEW s, source' = [source EXCEPT ![Place] = s],
         ContentsOf(Put(index[Place], Components[at], content), s.lines)
  PROVE  ContentInv'
<1> DEFINE new == Put(index[Place], Components[at], content)
<1>1. index' = [index EXCEPT ![Place] = new] /\ ContentsOf(new, s.lines)
  BY DEF With
<1> HIDE DEF new
<1>2. Place \in Places /\ Place' = Place
  BY PlaceType DEF Place, Merging
<1>3. index = [p \in Places |-> index[p]] /\ source = [p \in Places |-> source[p]]
  BY DEF OrderInv, MergeInv
<1>4. /\ index'[Place] = new /\ source'[Place] = s
      /\ \A p \in Places : p # Place => index'[p] = index[p] /\ source'[p] = source[p]
  BY <1>1, <1>2, <1>3
<1>5. ASSUME NEW p \in Places, index'[p] # None
      PROVE  ContentsOf(index'[p], source'[p].lines)
  <2>1. CASE p = Place
    BY <1>1, <1>4, <2>1
  <2>2. CASE p # Place
    <3>1. index'[p] = index[p] /\ source'[p] = source[p]
      BY <1>4, <2>2
    <3> QED
      BY <1>5, <3>1 DEF ContentInv
  <2> QED
    BY <2>1, <2>2
<1>6. ContentsOf(index'[Place'], source'[Place'].lines)
  BY <1>1, <1>2, <1>4
<1> QED
  BY <1>5, <1>6 DEF ContentInv

(* Output directories that are made are empty.                             *)
LEMMA ContentOpened ==
  ASSUME OrderInv, ContentInv, OpenOutput
  PROVE  ContentInv'
<1>1. CASE Empty(Place)
  <2>1. /\ index' = [p \in Places |-> IF p \in {Place, "out"} /\ index[p] = None THEN <<>> ELSE index[p]]
        /\ UNCHANGED <<source, mode>>
    BY <1>1 DEF OpenOutput, Goto
  <2>2. Place' = Place /\ Place \in Places
    BY <2>1, PlaceType DEF Place, Merging
  <2>3. \A p \in Places : index'[p] = <<>> \/ index'[p] = index[p]
    BY <2>1
  <2>4. index'[Place] = <<>>
    BY <1>1, <2>1, <2>2 DEF Empty
  <2> QED
    BY <2>1, <2>2, <2>3, <2>4, NoContents DEF ContentInv
<1>2. CASE ~ Empty(Place)
  <2>1. UNCHANGED <<index, source>> /\ step' = "failed"
    BY <1>2 DEF OpenOutput, Fail
  <2> QED
    BY <2>1, ContentLeftAlone
<1> QED
  BY <1>1, <1>2

(* A component begins: the first one reads the files.                      *)
LEMMA ContentBegun ==
  ASSUME OrderInv, MergeInv, FilesInv, ContentInv, BeginComponent
  PROVE  ContentInv'
<1>1. /\ step = "build" /\ With(Components[at], Partial) /\ UNCHANGED mode
      /\ source' = IF Components[at] # "phrase-corpus" THEN source
                   ELSE [source EXCEPT ![Place] =
                           [lines |-> ReadFiles, merged |-> Merging /\ clean, all |-> AllEntries(input)]]
  BY DEF BeginComponent, build
<1>2. at \in Numbers /\ BuiltUpTo(index[Place], at)
  BY <1>1 DEF OrderInv
<1>3. Place \in Places /\ source = [p \in Places |-> source[p]]
  BY PlaceType DEF MergeInv
<1>4. CASE at = 1
  <2> DEFINE s == [lines |-> ReadFiles, merged |-> Merging /\ clean, all |-> AllEntries(input)]
  <2>1. source' = [source EXCEPT ![Place] = s]
    BY <1>1, <1>4, ComponentNames
  <2>2. s.lines = ReadFiles /\ ReadFiles \in Seq(Items)
    BY <1>1, ReadFilesType
  <2> HIDE DEF s
  <2>3. ContentsOf(Put(index[Place], Components[at], Partial), s.lines)
    BY <1>2, <1>4, <2>2, ContentsBegun
  <2> QED
    BY <1>1, <2>1, <2>3, ContentWith
<1>5. CASE at # 1
  <2>1. source' = source
    <3>1. Components[at] # Components[1]
      BY <1>2, <1>5, ComponentNames DEF Numbers
    <3> QED
      BY <1>1, <3>1, ComponentNames
  <2>2. source' = [source EXCEPT ![Place] = source[Place]]
    BY <1>3, <2>1
  <2>3. ContentsOf(index[Place], source[Place].lines)
    BY <1>1 DEF ContentInv
  <2>4. source[Place].lines \in Seq(Items)
    <3>1. 1 \in Numbers /\ HasPart(index[Place], 1)
      BY <1>2, <1>5 DEF BuiltUpTo, HasWhole, Numbers
    <3> QED
      BY <2>3, <3>1 DEF ContentsOf
  <2>5. ContentsOf(Put(index[Place], Components[at], Partial), source[Place].lines)
    BY <1>2, <2>3, <2>4, ContentsBegun
  <2> QED
    BY <1>1, <2>2, <2>5, ContentWith
<1> QED
  BY <1>4, <1>5

(* A component ends with its contents, or the build fails on it.           *)
LEMMA ContentEnded ==
  ASSUME OrderInv, MergeInv, ContentInv, EndComponent
  PROVE  ContentInv'
<1>1. /\ step = "build" /\ at \in Numbers /\ BuiltUpTo(index[Place], at) /\ HasPart(index[Place], at)
      /\ UNCHANGED source
  BY DEF EndComponent, OrderInv, HasPart
<1>2. CASE ~ Buildable(Components[at])
  <2>1. UNCHANGED <<index, source>> /\ step' = "failed"
    BY <1>2 DEF EndComponent, Fail
  <2> QED
    BY <2>1, ContentLeftAlone
<1>3. CASE Buildable(Components[at])
  <2> DEFINE content == Built(Components[at])
  <2>1. With(Components[at], content) /\ UNCHANGED mode
    BY <1>3 DEF EndComponent
  <2>2. ContentsOf(index[Place], source[Place].lines)
    BY <1>1 DEF ContentInv
  <2>3. /\ content = ContentAt(source[Place].lines, at)
        /\ at = 2 => CanBuild(DictionaryRecords(CorpusOf(source[Place].lines).txt))
    BY <1>1, <1>3, <2>2, BuiltIsContent
  <2> HIDE DEF content
  <2>4. ContentsOf(Put(index[Place], Components[at], content), source[Place].lines)
    BY <1>1, <2>2, <2>3, ContentsEnded
  <2>5. source' = [source EXCEPT ![Place] = source[Place]]
    BY <1>1, PlaceType DEF MergeInv
  <2> QED
    BY <2>1, <2>4, <2>5, ContentWith
<1> QED
  BY <1>2, <1>3

(* No step leaves a component that disagrees with its lines.               *)
LEMMA ContentIsKept ==
  ASSUME OrderInv, MergeInv, FilesInv, ContentInv, [Next]_vars
  PROVE  ContentInv'
<1>1. ASSUME NEW in \in Inputs, NEW m \in {"plain"} \cup MergeDirs, Run(in, m) PROVE ContentInv'
  <2>1. UNCHANGED <<index, source>> /\ step' # "build"
    BY <1>1 DEF Run
  <2> QED
    BY <2>1, ContentLeftAlone
<1>2. CASE PartitionFails \/ PartitionFiles \/ MergeEnds \/ Rename \/ Stop
  <2>1. UNCHANGED <<index, source>> /\ step' # "build"
    BY <1>2 DEF PartitionFails, PartitionFiles, MergeEnds, Rename, Stop, Fail, Goto
  <2> QED
    BY <2>1, ContentLeftAlone
<1>3. CASE MergeFile \/ RemoveMergeDir \/ UNCHANGED vars
  <2>1. UNCHANGED <<index, source, step, mode>>
    BY <1>3 DEF MergeFile, RemoveMergeDir, vars, build
  <2> QED
    BY <2>1, ContentLeftAlone
<1>4. CASE RemoveOut
  <2>1. index' = [p \in Places |-> None] /\ step' = step /\ step # "build"
    BY <1>4 DEF RemoveOut, Resting, build
  <2> QED
    BY <2>1 DEF ContentInv
<1> QED
  BY <1>1, <1>2, <1>3, <1>4, ContentOpened, ContentBegun, ContentEnded DEF Next, Program

(* A complete index has the components of its lines.                       *)
LEMMA BuiltComponents ==
  ASSUME ContentInv, NEW p \in Places, IsBuilt(p)
  PROVE  source[p].lines \in Seq(Items) /\ ComponentsOf(index[p], source[p].lines)
<1> DEFINE lines == source[p].lines
           files == index[p]
<1>1. DOMAIN Components = Numbers
  BY DEF Components, Numbers
<1>2. ASSUME NEW j \in Numbers PROVE index[p] # None /\ HasWhole(files, j)
  <2>1. IsComplete(p, Components[j])
    BY <1>1 DEF IsBuilt
  <2> QED
    BY <2>1 DEF IsComplete, Has, HasWhole, HasPart
<1>3. 1 \in Numbers /\ 2 \in Numbers /\ 3 \in Numbers /\ 5 \in Numbers
  BY DEF Numbers
<1>4. ContentsOf(files, lines)
  BY <1>2, <1>3 DEF ContentInv
<1>5. lines \in Seq(Items) /\ CanBuild(DictionaryRecords(CorpusOf(lines).txt))
  BY <1>2, <1>3, <1>4 DEF ContentsOf, HasWhole
<1>6. \A j \in Numbers : files[Components[j]] = ContentAt(lines, j)
  BY <1>2, <1>4 DEF ContentsOf
<1> HIDE DEF lines, files
<1>7. /\ files["phrase-corpus"] = ContentAt(lines, 1) /\ files["phrase-dictionary"] = ContentAt(lines, 2)
      /\ files["phrase-index"] = ContentAt(lines, 3) /\ files["regex-vocabulary"] = ContentAt(lines, 5)
  BY <1>3, <1>6, ComponentNames
<1>8. /\ ContentAt(lines, 1) = CorpusOf(lines)
      /\ ContentAt(lines, 2) = Build(DictionaryRecords(CorpusOf(lines).txt))
      /\ ContentAt(lines, 3) = PhraseIndexOf(CorpusOf(lines).txt)
      /\ ContentAt(lines, 5) = VocabularyOf(CorpusOf(lines))
  BY DEF ContentAt
<1>9. ComponentsOf(files, lines)
  BY <1>5, <1>7, <1>8 DEF ComponentsOf
<1> QED
  BY <1>5, <1>9 DEF lines, files

(* A phrase index has the lists of the keys, and no other.                 *)
LEMMA ListsCounted ==
  ASSUME NEW items \in Seq(Items), NEW k \in DOMAIN PhraseIndexOf(CorpusOf(items).txt)
  PROVE  Len(PhraseIndexOf(CorpusOf(items).txt)[k]) = Cardinality({i \in DOMAIN items : k \in KeysOfItem(items[i])})
<1> DEFINE txt == CorpusOf(items).txt
<1> HIDE DEF txt
<1>1. \A K \in {PhraseIndexOf(txt)} : \A key \in DOMAIN K : K[key] = ListOf(txt, key)
  BY DEF PhraseIndexOf
<1>2. PhraseIndexOf(txt)[k] = ListOf(txt, k)
  BY <1>1 DEF txt
<1> QED
  BY <1>2, ListPlaces DEF txt

(* Components that hold what their lines say agree.                        *)
LEMMA ContentIsEnough == ContentInv => ComponentsAgree
<1> SUFFICES ASSUME ContentInv, NEW p \in Places, IsBuilt(p)
             PROVE  LET lines == source[p].lines
                        lists == index[p]["phrase-index"]
                        vocabulary == index[p]["regex-vocabulary"]
                        rank(w) == CHOOSE i \in DOMAIN vocabulary : vocabulary[i] = w
                    IN /\ \A i \in DOMAIN lines : PhraseIsFound(p, lines[i])
                       /\ \A n \in Lengths(lines) :
                            CountPhrases(index[p]["phrase-corpus"], n)
                              = Cardinality({i \in DOMAIN lines : Len(lines[i].words) = n})
                       /\ \A k \in DOMAIN lists :
                            Len(lists[k]) = Cardinality({i \in DOMAIN lines : k \in KeysOfItem(lines[i])})
                       /\ IsInjective(vocabulary) /\ ToSet(vocabulary) = Words(lines)
                       /\ \A i, j \in DOMAIN lines :
                            Len(lines[i].words) = 1 /\ Len(lines[j].words) = 1 /\ lines[i].freq > lines[j].freq
                              => rank(lines[i].words[1]) < rank(lines[j].words[1])
  BY DEF ComponentsAgree
<1> DEFINE lines == source[p].lines
           corpus == CorpusOf(lines)
           vocabulary == VocabularyOf(corpus)
           rank(w) == CHOOSE i \in DOMAIN vocabulary : vocabulary[i] = w
<1>1. lines \in Seq(Items) /\ ComponentsOf(index[p], lines)
  BY BuiltComponents
<1>2. /\ index[p]["phrase-corpus"] = corpus /\ index[p]["phrase-index"] = PhraseIndexOf(corpus.txt)
      /\ index[p]["regex-vocabulary"] = vocabulary /\ CanBuild(DictionaryRecords(corpus.txt))
  BY <1>1 DEF ComponentsOf
<1>3. \A i \in DOMAIN lines : PhraseIsFound(p, lines[i])
  BY <1>1, PhrasesFound
<1>4. \A n \in Lengths(lines) :
        CountPhrases(corpus, n) = Cardinality({i \in DOMAIN lines : Len(lines[i].words) = n})
  BY <1>1, PhrasesCounted
<1>5. \A k \in DOMAIN PhraseIndexOf(corpus.txt) :
        Len(PhraseIndexOf(corpus.txt)[k]) = Cardinality({i \in DOMAIN lines : k \in KeysOfItem(lines[i])})
  BY <1>1, ListsCounted
<1>6. IsInjective(vocabulary) /\ ToSet(vocabulary) = Words(lines)
  BY <1>1, VocabularyPlaces
<1>7. \A i, j \in DOMAIN lines :
        Len(lines[i].words) = 1 /\ Len(lines[j].words) = 1 /\ lines[i].freq > lines[j].freq
          => rank(lines[i].words[1]) < rank(lines[j].words[1])
  BY <1>1, <1>2, UnigramsByFrequency
<1> HIDE DEF lines, corpus, vocabulary
<1> QED
  BY <1>2, <1>3, <1>4, <1>5, <1>6, <1>7 DEF lines

(* Whatever was stopped, failed, left behind or cleaned up before: the     *)
(* components of a complete index agree with each other and with the lines *)
(* that it was built from, so that each phrase is found in all of them     *)
(* (BuildNetspeak()).                                                      *)
THEOREM BuiltComponentsAgree ==
  ASSUME PartialIsApart
  PROVE  Spec => []ComponentsAgree
<1> DEFINE IInv == OrderInv /\ MergeInv /\ FilesInv /\ ContentInv
<1>1. Init => IInv
  BY OrderHolds, MergeHolds, FilesHold, ContentHolds
<1>2. IInv /\ [Next]_vars => IInv'
  BY OrderIsKept, MergeIsKept, FilesKept, ContentIsKept
<1>3. IInv => ComponentsAgree
  BY ContentIsEnough
<1> HIDE DEF IInv
<1> QED
  BY <1>1, <1>2, <1>3, PTL DEF Spec
=============================================================================
