----------------------------- MODULE Retrieval ------------------------------
(***************************************************************************)
(* Answering one wildcard query from the inverted index: QueryProcessor    *)
(* with RetrievalStrategy3, and the part of the index build that decides   *)
(* what they read.                                                         *)
(*                                                                         *)
(* For each (phrase length, position, word) the phrase index has the list  *)
(* of all phrases with that word there, by descending frequency.  A query  *)
(* is answered by intersecting the lists of its words, rarest word first,  *)
(* reading only a window of each list.  The window starts where the        *)
(* postlist index, a sparse list of (position, frequency) pairs, says that *)
(* the wanted frequencies start, and ends after a fixed number of entries. *)
(*                                                                         *)
(* Abstracted: the order of equally frequent entries, which std::sort      *)
(* leaves open, is given by Tie; quantiles, computed in floating point,    *)
(* are exact.                                                              *)
(***************************************************************************)
EXTENDS Ngrams

CONSTANTS
  Tie,           \* per word, a rank of each phrase among equally frequent ones
  IndexStep,     \* entries of a postlist per entry of its index (1000)
  StopwordFreq,  \* more frequent words are stopwords (10^9)
  PruningLow,    \* entries read of the list of a word (130000)
  PruningHigh    \* entries read of the list of a stopword (160000)

ASSUME TieAssumption ==
  /\ Tie \in [Words -> [Phrases -> Nat]]
  /\ \A w \in Words : \A p, r \in Phrases : p[1] = r[1] /\ Tie[w][p] = Tie[w][r] => p = r
ASSUME IndexAssumption == /\ IndexStep \in Nat \ {0}
                          /\ {StopwordFreq, PruningLow, PruningHigh} \subseteq Nat

-----------------------------------------------------------------------------
(* The index.                                                              *)

(* Faults that the runs must notice: a key that forgets the position, a    *)
(* reader that leaves out the last word of a line.                         *)
ListedAnywhere(len, pos, word) == {p \in Phrases : p[1] = len /\ word \in Range(Text[p])}
ListedButLast(len, pos, word) ==
  {p \in Phrases : p[1] = len /\ pos < len /\ Text[p][pos] = word}

(* The phrases that PhraseFileReader gives the key "len:pos_word".         *)
Listed(len, pos, word) == {p \in Phrases : p[1] = len /\ Text[p][pos] = word}

(* A fault: values sorted in ascending order.                              *)
ListedAscending(word, p, r) ==
  \/ RefFreq(p) < RefFreq(r)
  \/ RefFreq(p) = RefFreq(r) /\ Tie[word][p] < Tie[word][r]

(* value_sorting_type::descending compares frequencies only.               *)
ListedBefore(word, p, r) ==
  \/ RefFreq(p) > RefFreq(r)
  \/ RefFreq(p) = RefFreq(r) /\ Tie[word][p] < Tie[word][r]

Postlist(len, pos, word) ==
  LET listed == Listed(len, pos, word)
      order == Ordered(listed, {pr \in listed \X listed : ListedBefore(word, pr[1], pr[2])})
  IN [i \in DOMAIN order |-> RefOf(order[i])]

(* The positions at which the running sum of the frequencies reaches each  *)
(* of the quantiles, with the frequencies there.                           *)
IndexPostlist(list) ==
  LET resolution == Len(list) \div IndexStep
      sum == RunningSum(list)
      reaches(i, k) == sum[i] * resolution >= k * sum[Len(list)]
      first(k) == CHOOSE i \in DOMAIN list :
                    reaches(i, k) /\ \A j \in 1 .. i - 1 : ~ reaches(j, k)
  IN [k \in 1 .. resolution |-> [pos |-> first(k) - 1, freq |-> list[first(k)].freq]]

(* A fault: the entry of the index at the limit or below, not the one      *)
(* before it.                                                              *)
IndexBeginLate(index, maxFreq) ==
  LET low == {k \in DOMAIN index : index[k].freq <= maxFreq}
  IN IF low = {} THEN 0 ELSE index[CHOOSE k \in low : \A j \in low : k <= j].pos

(* search_(): how many entries to skip for the entries up to maxFreq.      *)
IndexBegin(index, maxFreq) ==
  LET low == {k \in DOMAIN index : index[k].freq <= maxFreq}
      k == CHOOSE k \in low : \A j \in low : k <= j
  IN CASE low = {} -> 0
       [] low # {} /\ index[k].freq = maxFreq -> index[k].pos
       [] OTHER -> IF k = 1 THEN 0 ELSE index[k - 1].pos

(* search_(): the window of a list that is read.                           *)
Window(list, maxFreq, pruning) ==
  LET begin == IndexBegin(IndexPostlist(list), maxFreq)
  IN SubSeq(list, begin + 1, Smaller(begin + pruning, Len(list)))

-----------------------------------------------------------------------------
(* The query.                                                              *)

(* The frequency of a phrase in the phrase dictionary, as a set.           *)
DictFreq(words) == {Freq[p] : p \in WithText(words)}

(* unit_metadata: 0 is the frequency of a word that is no 1-gram.          *)
UnitFreq(word) == IF DictFreq(<<word>>) = {} THEN 0
                  ELSE CHOOSE f \in DictFreq(<<word>>) : TRUE

Pruning(word) == IF UnitFreq(word) > StopwordFreq THEN PruningHigh ELSE PruningLow

(* The positions of the words of a query, rarest word first.               *)
UnitOrder(q) ==
  LET units == {i \in DOMAIN q : q[i] # Qmark}
      before(i, j) == \/ UnitFreq(q[i]) < UnitFreq(q[j])
                      \/ UnitFreq(q[i]) = UnitFreq(q[j]) /\ i < j
  IN Ordered(units, {ij \in units \X units : before(ij[1], ij[2])})

(* A fault: the words on both sides of a wildcard joined into one string.  *)
JoinedSubstrings(q) == {SelectSeq(q, LAMBDA u : u # Qmark)}

(* extract_longest_substrings(): maximal runs of words, the longest ones.  *)
LongestSubstrings(q) ==
  LET run(i, j) == /\ i <= j
                   /\ \A n \in i .. j : q[n] # Qmark
                   /\ i = 1 \/ q[i - 1] = Qmark
                   /\ j = Len(q) \/ q[j + 1] = Qmark
      runs == {ij \in (DOMAIN q) \X (DOMAIN q) : run(ij[1], ij[2])}
      longest == {r \in runs : \A s \in runs : s[2] - s[1] <= r[2] - r[1]}
  IN {SubSeq(q, r[1], r[2]) : r \in longest}

(* compute_jumpin_frequency_()                                             *)
JumpinFreq(q) ==
  LET freqs == UNION {DictFreq(s) : s \in LongestSubstrings(q)}
  IN IF freqs = {} THEN NoLimit ELSE CHOOSE f \in freqs : \A g \in freqs : f <= g

(* What a round keeps of what it reads: only later rounds intersect.       *)
Within(read, limit, n, set) ==
  ElementsAt(read, {i \in DOMAIN read : read[i].freq <= limit /\ (n = 1 \/ read[i] \in set)})

(* One round of the loop of process_(), for the n-th of the ordered units: *)
(* initialize_result_set() in the first round, intersect_result_set() in   *)
(* the others.  The state of the loop is the set that the next round       *)
(* intersects, the frequency limit for it, the final list, the unknown     *)
(* words.  Lists are sorted, so that all entries after the first one that  *)
(* is within the limit are within it as well.                              *)
Round(o, q, n, state) ==
  LET units == UnitOrder(q)
      word == q[units[n]]
      list == Postlist(Len(q), units[n], word)
      limit == IF n = 1 THEN Smaller(state.limit, JumpinFreq(q)) ELSE state.limit
      hits == Within(Window(list, limit, Pruning(word)), limit, n, state.set)
      last == n = Len(units)
  IN IF list = <<>>
       THEN [set |-> IF last THEN state.set ELSE {}, limit |-> 0, refs |-> <<>>,
             unknown |-> state.unknown \cup {word}]
       ELSE [set |-> IF last THEN state.set ELSE Range(hits),
             limit |-> IF hits = <<>> THEN 0 ELSE hits[1].freq,
             refs |-> IF last THEN FirstN(hits, o.count) ELSE <<>>,
             unknown |-> state.unknown]

(* The loop ends early when the set to intersect is empty.                 *)
After(o, q, n, state) ==
  IF n > Len(UnitOrder(q)) \/ (n > 1 /\ state.set = {}) THEN state
  ELSE Round(o, q, n, state)

Rounds(o, q) ==
  LET start == [set |-> {}, limit |-> o.maxFreq, refs |-> <<>>, unknown |-> {}]
      loop[n \in 0 .. Len(q)] == IF n = 0 THEN start ELSE After(o, q, n, loop[n - 1])
  IN loop

(* QueryProcessor::process()                                               *)
Process(o, q) ==
  LET end == Rounds(o, q)[Len(q)]
  IN [refs |-> end.refs, unknown |-> end.unknown]

=============================================================================
