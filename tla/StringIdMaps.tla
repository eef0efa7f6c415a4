---------------------------- MODULE StringIdMaps ----------------------------
(***************************************************************************)
(* Words with ids, found by either (util/StringIdMap.hpp, the vocabulary   *)
(* of PhraseCorpus.cpp).  All words are in one array of characters, each   *)
(* with a NUL; a map keeps where each word begins, in the order of the     *)
(* words, and the position in this order for every id.                     *)
(***************************************************************************)
EXTENDS Integers, SequencesExt

NUL == 0

Appended(builder, word, id) ==
  [chars |-> builder.chars \o Append(word, NUL),
   entries |-> Append(builder.entries, [offset |-> Len(builder.chars), id |-> id])]
Builder(words) ==
  FoldLeft(LAMBDA builder, w : Appended(builder, w.word, w.id), [chars |-> <<>>, entries |-> <<>>], words)

(* strcmp() of the words that begin at two places.                         *)
WordAt(chars, offset) ==
  LET n == CHOOSE n \in 0 .. Len(chars) :
             /\ chars[offset + n + 1] = NUL
             /\ \A i \in 1 .. n : chars[offset + i] # NUL
  IN SubSeq(chars, offset + 1, offset + n)
StrLess(a, b) ==
  \E n \in 0 .. Len(b) - 1 :
    /\ n <= Len(a) /\ \A i \in 1 .. n : a[i] = b[i]
    /\ n = Len(a) \/ a[n + 1] < b[n + 1]

SortedWords(builder) ==
  SortSeq(builder.entries, LAMBDA x, y : StrLess(WordAt(builder.chars, x.offset), WordAt(builder.chars, y.offset)))

(* Positions begin with 0, that of the end is the number of words.         *)
(* Mutant of Gap: ids that no word has get the first position.             *)
FirstPosition(sorted) == 0
Gap(sorted) == Len(sorted)
IdMap(sorted) ==
  FoldLeft(LAMBDA map, i :
             LET id == sorted[i].id
             IN IF id < Len(map) THEN [map EXCEPT ![id + 1] = i - 1]
                ELSE map \o [n \in 1 .. id - Len(map) |-> Gap(sorted)] \o <<i - 1>>,
           <<>>, [i \in DOMAIN sorted |-> i])

MapOf(words) ==
  LET builder == Builder(words)
      sorted == SortedWords(builder)
  IN [chars |-> builder.chars, sorted |-> sorted, ids |-> IdMap(sorted)]
End(map) == Len(map.sorted)
EntryAt(map, position) ==
  [word |-> WordAt(map.chars, map.sorted[position + 1].offset), id |-> map.sorted[position + 1].id]

FindForId(map, id) == IF id < Len(map.ids) THEN map.ids[id + 1] ELSE End(map)

LowerBound(map, word) ==
  Cardinality({i \in DOMAIN map.sorted : StrLess(WordAt(map.chars, map.sorted[i].offset), word)})
FindForWord(map, word) ==
  LET position == LowerBound(map, word)
  IN IF position # End(map) /\ ~ StrLess(word, EntryAt(map, position).word) THEN position ELSE End(map)

=============================================================================
