------------------------------- MODULE Ngrams -------------------------------
(***************************************************************************)
(* The n-gram collection that is searched, and the queries asked of it.    *)
(*                                                                         *)
(* A phrase is named by its id: its length and a number that is unique     *)
(* among the phrases of that length.  A norm query is a sequence of units, *)
(* each a word or the question mark that stands for any one word.          *)
(***************************************************************************)
EXTENDS Lists, Functions

CONSTANTS
  Words,         \* words of phrases and queries
  Qmark,         \* the wildcard unit of norm queries
  Phrases,       \* phrase ids, <<length, local id>>
  Text,          \* the words of each phrase
  Freq,          \* the frequency of each phrase, as the corpus stores it
  RefFreqLimit,  \* number of values of an index frequency (2^32)
  NoLimit        \* the greatest frequency (2^64 - 1)

ASSUME WordsAssumption   == Qmark \notin Words
ASSUME PhrasesAssumption == /\ IsFiniteSet(Phrases)
                            /\ Phrases \subseteq (Nat \ {0}) \X Nat
                            /\ Text \in [Phrases -> Seq(Words)]
                            /\ \A p \in Phrases : Len(Text[p]) = p[1]
ASSUME FreqAssumption    == /\ RefFreqLimit \in Nat \ {0}
                            /\ NoLimit \in Nat
                            /\ Freq \in [Phrases -> 1 .. NoLimit]

(* The index stores a frequency in 32 bits, the corpus in 64.              *)
RefFreq(p) == Freq[p] % RefFreqLimit

(* The entry of a phrase in the phrase index, RawRefResult::Ref alike.     *)
RefOf(p) == [id |-> p[2], freq |-> RefFreq(p)]

(* Ids are ordered by lengths, then by the numbers of a length.            *)
IdLess(p, r) == p[1] < r[1] \/ (p[1] = r[1] /\ p[2] < r[2])

(* The phrases in the order of Phrase::operator<.                          *)
PhraseLess(p, r) == Freq[p] > Freq[r] \/ (Freq[p] = Freq[r] /\ IdLess(p, r))

PhraseOrder == {pr \in Phrases \X Phrases : PhraseLess(pr[1], pr[2])}

(* The words that the vocabulary of the corpus holds.                      *)
Vocabulary == UNION {Range(Text[p]) : p \in Phrases}

(* The id of the phrase with the given words in the phrase dictionary.     *)
WithText(words) == {p \in Phrases : Text[p] = words}

HasQmarks(q) == Qmark \in Range(q)

(* What a query asks for: the phrases of its length that have its words at *)
(* their places.                                                           *)
Matches(q) ==
  {p \in Phrases : /\ Len(Text[p]) = Len(q)
                   /\ \A i \in DOMAIN q : q[i] \in {Qmark, Text[p][i]}}

=============================================================================
