--------------------------- MODULE QueryProcessing --------------------------
(***************************************************************************)
(* The query processor over every index that can be built from the given   *)
(* phrases: the first choice is the frequencies of the phrases and what    *)
(* part of the lists is read, the second one the query and its options.    *)
(* Retrieval has the algorithms; the properties here compare their answer  *)
(* with what Ngrams says that a query asks for.                            *)
(***************************************************************************)
EXTENDS Integers, Sequences, FiniteSets

CONSTANTS
  Words, Qmark, Phrases, Text, RefFreqLimit, NoLimit,
  Tie, StopwordFreq,
  Windows,  \* bound: the steps of the postlist index and the pruning limits
  Freqs,    \* bound: frequencies of phrases and limits of queries
  Counts,   \* bound: the numbers of phrases that queries ask for
  Queries   \* bound: the wildcard queries

ASSUME PhrasesAssumption == /\ Qmark \notin Words
                            /\ IsFiniteSet(Phrases)
                            /\ Phrases \subseteq (Nat \ {0}) \X Nat
                            /\ Text \in [Phrases -> Seq(Words)]
                            /\ \A p \in Phrases : Len(Text[p]) = p[1]
ASSUME TieAssumption ==
  /\ Tie \in [Words -> [Phrases -> Nat]]
  /\ \A w \in Words : \A p, r \in Phrases : p[1] = r[1] /\ Tie[w][p] = Tie[w][r] => p = r
ASSUME LimitsAssumption == /\ {RefFreqLimit, NoLimit, StopwordFreq} \subseteq Nat
                           /\ RefFreqLimit # 0
ASSUME BoundsAssumption == /\ Windows \subseteq [step : Nat \ {0}, low : Nat, high : Nat]
                           /\ Freqs \subseteq 1 .. NoLimit
                           /\ Counts \subseteq Nat
                           /\ Queries \subseteq Seq(Words \cup {Qmark})

VARIABLES
  freq,     \* the frequencies, fixed when the index was built
  window,   \* [step, low, high]: which part of a list is read
  options,  \* the options of the query that was processed
  query,    \* that query, <<>> before
  answer    \* what process() returned for it

vars == <<freq, window, options, query, answer>>

(* Retrieval, with what is proved about it.                                *)
R == INSTANCE RetrievalProofs WITH Freq <- freq, IndexStep <- window.step,
                                   PruningLow <- window.low, PruningHigh <- window.high

Options == [count : Counts, maxFreq : Freqs \cup {NoLimit}]

(* No phrase is more frequent than a part of it, as in every collection    *)
(* of n-grams that was counted on one text.                                *)
Monotone(f) ==
  \A p, part \in Phrases :
    (\E i \in 0 .. p[1] - part[1] :
       \A j \in 1 .. part[1] : Text[part][j] = Text[p][i + j]) => f[p] <= f[part]

Init ==
  /\ freq \in {f \in [Phrases -> Freqs] : Monotone(f)}
  /\ window \in Windows
  /\ options \in [count : {0}, maxFreq : {NoLimit}]
  /\ query = <<>>
  /\ answer = [refs |-> <<>>, unknown |-> {}]

Ask(o, q) ==
  /\ query = <<>>
  /\ query' = q
  /\ options' = o
  /\ answer' = R!Process(o, q)
  /\ UNCHANGED <<freq, window>>

Next == \E o \in Options, q \in Queries : Ask(o, q)

Spec == Init /\ [][Next]_vars

-----------------------------------------------------------------------------

Refs == R!Range(answer.refs)

(* The references that a complete answer is made from.                     *)
Candidates ==
  {R!RefOf(p) : p \in {m \in R!Matches(query) : R!RefFreq(m) <= options.maxFreq}}

(* Every reference is to a phrase that the query matches, within the       *)
(* frequency limit, and given once, by descending frequency: merging and   *)
(* disjointness of cached lists rely on the order.                         *)
Sound ==
  /\ Refs \subseteq Candidates
  /\ Cardinality(Refs) = Len(answer.refs)
  /\ \A i, j \in DOMAIN answer.refs :
       i < j => answer.refs[i].freq >= answer.refs[j].freq

(* Is the list of a word read from an entry of its index, and is it read   *)
(* to the end?                                                             *)
Indexed == window.step <= Cardinality(Phrases)
Pruned == window.low < Cardinality(Phrases) \/ window.high < Cardinality(Phrases)

(* No phrase is left out that is more frequent than one that was returned. *)
BestFirst == \A c \in Candidates \ Refs, r \in Refs : c.freq <= r.freq

(* As many matching phrases as were asked for, or all of them, the most    *)
(* frequent ones.                                                          *)
IsComplete ==
  /\ Len(answer.refs) = R!Smaller(options.count, Cardinality(Candidates))
  /\ BestFirst

(* The jump-in frequency and the intersections lose nothing: an answer     *)
(* from lists that are read as a whole is complete.                        *)
Complete == query # <<>> /\ ~ Indexed /\ ~ Pruned => IsComplete

(* Pruning shortens the tail of an answer only.                            *)
NoGaps == ~ Indexed => BestFirst

(* Starting to read in the middle of a list loses only phrases in front of *)
(* all that are returned, and for a query with one word only phrases whose *)
(* frequency is exactly the limit.                                         *)
LostOnlyAtLimit ==
  \A c \in Candidates \ Refs, r \in Refs : r.freq < c.freq =>
    /\ \A s \in Refs : s.freq <= c.freq
    /\ Len(R!UnitOrder(query)) = 1 =>
         c.freq = R!Smaller(options.maxFreq, R!JumpinFreq(query))

(* A word is reported as unknown only if no phrase matches the query, and  *)
(* never with references: RawRefResult::merge() would forget the last of   *)
(* the unknown words that it merges.                                       *)
UnknownMeansNoMatch ==
  answer.unknown # {} => R!Matches(query) = {} /\ answer.refs = <<>>

=============================================================================
