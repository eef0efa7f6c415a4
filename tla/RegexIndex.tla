------------------------------ MODULE RegexIndex ----------------------------
(***************************************************************************)
(* The index of words that match a regex (regex/DefaultRegexIndex.cpp):    *)
(* queries that stand for few words are answered from a hash table with    *)
(* linear probing, others by matching word after word until enough were    *)
(* found or the time is over, which is only looked at now and then.        *)
(*                                                                         *)
(* The index never changes, so one query is followed from its text to the  *)
(* matches.  A probe beyond the end of the table, which the code does not  *)
(* prevent, ends in the phase "outside".                                   *)
(***************************************************************************)
EXTENDS RegexQueries

CONSTANTS
  Vocabularies,    \* bound: the lines of vocabulary files
  Texts,           \* bound: the queries
  Limits,          \* bound: max_matches
  Code(_),         \* what a character adds to a hash
  HashSeed,        \* 0x12345678
  HashRange,       \* 2^32
  LookupLimit,     \* 1000: from so many combinations on words are matched
  CheckEvery       \* 256: how many words share a look at the clock

VARIABLES
  words,     \* words_, by descending frequency
  table,     \* word_hash_table_: slots with indexes of words
  phase,     \* "idle", "asked", "matching", "done" or "outside"
  text,      \* the query as it was written
  query,     \* its units
  limit,     \* max_matches
  next,      \* the next word to match
  matches,   \* indexes of words, in the order they were added
  late,      \* has the timeout passed?
  overtime   \* history: words matched after it

vars == <<words, table, phase, text, query, limit, next, matches, late, overtime>>

-----------------------------------------------------------------------------
(* Initialization *)

NonEmptyLines(lines) == SelectSeq(lines, LAMBDA w : w # <<>>)

AllChars(ws) == UNION {ToSet(ws[i]) : i \in DOMAIN ws}

NextPowOf2(n) ==
  IF n = 0 THEN 0 ELSE 2 ^ (CHOOSE e \in 0 .. n : 2 ^ e >= n /\ (e = 0 \/ 2 ^ (e - 1) < n))
TableSize(count) ==
  LET n == NextPowOf2(count) IN IF n < count + count \div 2 THEN 2 * n ELSE n

HashWord(w) == FoldLeft(LAMBDA h, c : (h * 31 + Code(c)) % HashRange, HashSeed, w)

Empty == 0
EmptyTable(size) == [slot \in 0 .. size - 1 |-> Empty]

(* The word goes to the first empty slot from its hash on, cyclically.     *)
Inserted(slots, ws, index) ==
  LET size == Cardinality(DOMAIN slots)
      At(d) == (HashWord(ws[index]) + d) % size
      distance == CHOOSE d \in 0 .. size - 1 :
                    /\ slots[At(d)] = Empty
                    /\ \A e \in 0 .. d - 1 : slots[At(e)] # Empty
  IN [slots EXCEPT ![At(distance)] = index]

HashTable(ws) ==
  FoldLeft(LAMBDA slots, index : Inserted(slots, ws, index),
           EmptyTable(TableSize(Len(ws))), [i \in DOMAIN ws |-> i])

-----------------------------------------------------------------------------
(* Lookup *)

NotFound == 0
Outside == -1

(* Mutant of FindWord: the first word that shares the slot is taken.       *)
FindFirst(w) ==
  LET size == Cardinality(DOMAIN table)
  IN IF size = 0 THEN Outside ELSE table[HashWord(w) % size]

(* find_word(): the probe goes on without returning to the first slot.     *)
FindWord(w) ==
  LET size == Cardinality(DOMAIN table)
      start == IF size = 0 THEN 0 ELSE HashWord(w) % size
      Ends(slot) == table[slot] = Empty \/ words[table[slot]] = w
      stops == {slot \in start .. size - 1 : Ends(slot)}
  IN IF stops = {} THEN Outside ELSE table[Min(stops)]

ContainsUnknown(value) == ~ (ToSet(value) \subseteq AllChars(words))

(* optimize_query(): what the vocabulary has no characters for is dropped. *)
OptimizedFor(u) ==
  CASE u.type = "WORD" /\ ContainsUnknown(u.value) -> <<CharSet(<<>>)>>
    [] u.type = "OPTIONAL_WORD" /\ ContainsUnknown(u.value) -> <<>>
    [] u.type = "CHAR_SET" /\ ContainsUnknown(u.value) ->
         <<CharSet(SelectSeq(u.value, LAMBDA c : c \in AllChars(words)))>>
    [] OTHER -> <<u>>
OptimizeQuery(units) ==
  QueryOf(FlattenSeq([i \in DOMAIN units |-> OptimizedFor(units[i])]))

(* finite_query_to_utf8() and its combinations, in any order.              *)
Alternatives(u) ==
  CASE u.type = "CHAR_SET" -> {<<u.value[i]>> : i \in DOMAIN u.value}
    [] u.type = "OPTIONAL_WORD" -> {u.value, <<>>}
    [] OTHER -> {u.value}
Combinations(units) ==
  FoldLeft(LAMBDA ws, u : {w \o a : w \in ws, a \in Alternatives(u)}, {<<>>}, units)

First(n, s) == SubSeq(s, 1, IF n < Len(s) THEN n ELSE Len(s))

-----------------------------------------------------------------------------

Init ==
  /\ words \in {NonEmptyLines(lines) : lines \in Vocabularies}
  /\ table = HashTable(words)
  /\ phase = "idle"
  /\ text = <<>>
  /\ query = <<>>
  /\ limit = 0
  /\ next = 1
  /\ matches = <<>>
  /\ late = FALSE
  /\ overtime = 0

(* The caller parses the text and calls match_query().                     *)
Ask(t, n) ==
  /\ phase = "idle"
  /\ text' = t
  /\ query' = ParseQuery(t)
  /\ limit' = n
  /\ phase' = "asked"
  /\ UNCHANGED <<words, table, next, matches, late, overtime>>

Answer(found) ==
  /\ phase = "asked"
  /\ matches' = found
  /\ phase' = "done"
  /\ UNCHANGED <<words, table, text, query, limit, next, late, overtime>>

MatchNothing ==
  /\ limit = 0
  /\ Answer(<<>>)

MatchAll ==
  /\ limit > 0
  /\ AcceptAllNonEmpty(query)
  /\ Answer(First(limit, [i \in DOMAIN words |-> i]))

MatchRejected ==
  /\ limit > 0
  /\ RejectAll(query)
  /\ Answer(<<>>)

(* The optimized query decides that words are looked up, but it is the one *)
(* before that is enumerated.                                              *)
Ordinary == limit > 0 /\ ~ AcceptAllNonEmpty(query) /\ ~ RejectAll(query)
FewCombinations == CombinationsUpperBound(OptimizeQuery(query)) < LookupLimit
Found == {FindWord(w) : w \in Combinations(query)}

MatchByLookup ==
  /\ Ordinary /\ FewCombinations
  /\ Outside \notin Found
  /\ Answer(First(limit, SetToSortSeq(Found \ {NotFound}, LAMBDA i, j : i < j)))

ProbeOutside ==
  /\ phase = "asked"
  /\ Ordinary /\ FewCombinations
  /\ Outside \in Found
  /\ phase' = "outside"
  /\ UNCHANGED <<words, table, text, query, limit, next, matches, late, overtime>>

StartMatching ==
  /\ phase = "asked"
  /\ Ordinary /\ ~ FewCombinations
  /\ phase' = "matching"
  /\ UNCHANGED <<words, table, text, query, limit, next, matches, late, overtime>>

(* match_query_regex(): the body of its loop.                              *)
RejectedByLength(i) ==
  \/ TotalBytes(words[i]) < MinUtf8InputLength(query)
  \/ TotalBytes(words[i]) > MaxUtf8InputLength(query)

(* Mutant of Following: a word that is rejected is looked at again.        *)
FollowingMatched(i) == IF RejectedByLength(i) THEN i ELSE i + 1
Following(i) == i + 1

(* Mutant of LooksAtClock: matches are counted instead of words.           *)
LooksAtClockByMatches(i) == (1 + Len(matches)) % CheckEvery = 0
LooksAtClock(i) == (i - 1) % CheckEvery = 0

MatchWord ==
  /\ phase = "matching"
  /\ next <= Len(words)
  /\ next' = Following(next)
  /\ IF RejectedByLength(next) THEN UNCHANGED <<phase, matches, overtime>>
     ELSE /\ matches' = IF Accepts(query, words[next]) THEN Append(matches, next) ELSE matches
          /\ phase' = IF \/ Len(matches') >= limit /\ matches' # matches
                         \/ late /\ LooksAtClock(next)
                      THEN "done" ELSE phase
          /\ overtime' = overtime + (IF late THEN 1 ELSE 0)
  /\ UNCHANGED <<words, table, text, query, limit, late>>

AllMatched ==
  /\ phase = "matching"
  /\ next > Len(words)
  /\ phase' = "done"
  /\ UNCHANGED <<words, table, text, query, limit, next, matches, late, overtime>>

TimePasses ==
  /\ phase = "matching"
  /\ ~ late
  /\ late' = TRUE
  /\ UNCHANGED <<words, table, phase, text, query, limit, next, matches, overtime>>

Next ==
  \/ \E t \in Texts, n \in Limits : Ask(t, n)
  \/ MatchNothing \/ MatchAll \/ MatchRejected \/ MatchByLookup \/ ProbeOutside \/ StartMatching
  \/ MatchWord \/ AllMatched
  \/ TimePasses

Spec == Init /\ [][Next]_vars /\ WF_vars(MatchWord \/ AllMatched)

-----------------------------------------------------------------------------

(* What matches the query as it was written, in the order of the words.    *)
AllMatches ==
  SelectSeq([i \in DOMAIN words |-> i], LAMBDA i : Accepts(UnitsOf(text), words[i]))

(* Whichever way is taken, the matches are the first words that the query  *)
(* as it was written accepts, all up to the limit unless the time was over *)
(* ("The words have to be returned in the order of occurrence").           *)
FirstMatches ==
  phase = "done" =>
    \/ matches = First(limit, AllMatches)
    \/ overtime > 0 /\ IsPrefix(matches, First(limit, AllMatches))

(* The builder and the optimization for a vocabulary do not change which   *)
(* of its words a query accepts ("the resulting query will behave as if    *)
(* the given unit had been added"), and the bounds by which a way to match *)
(* is chosen and words are rejected hold, also where they are capped.      *)
QueriesEquivalent ==
  phase # "idle" =>
    /\ \A i \in DOMAIN words :
         LET accepted == Accepts(UnitsOf(text), words[i])
         IN /\ Accepts(query, words[i]) = accepted
            /\ Accepts(OptimizeQuery(query), words[i]) = accepted
            /\ accepted => ~ RejectedByLength(i)
    /\ CombinationsUpperBound(query) < Infinite =>
         Cardinality(Combinations(query)) <= CombinationsUpperBound(query)

(* If the words at which the clock is looked at are not rejected by their  *)
(* length, the search ends at the next of them after the timeout.          *)
OvertimeBounded ==
  (\A i \in DOMAIN words : (i - 1) % CheckEvery = 0 => ~ RejectedByLength(i))
    => overtime <= CheckEvery

(* Matching ends.                                                          *)
MatchingEnds == phase = "matching" ~> phase = "done"

=============================================================================
