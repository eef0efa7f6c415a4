----------------------------- MODULE Normalizing ----------------------------
(***************************************************************************)
(* The passes of QueryNormalizer.cpp: a query becomes a simple query, is   *)
(* optimized, has its regexes replaced, and is expanded into norm queries. *)
(*                                                                         *)
(* The options o of a call are the fields of QueryNormalizer::Options that *)
(* count, and the settings of the normalizer: minLength, maxLength,        *)
(* maxNormQueries, maxRegexMatches, allowRegex, lowerCase.                 *)
(***************************************************************************)
EXTENDS QueryTrees, Integers, SequencesExt, FiniteSetsExt

CONSTANTS
  Lower(_),        \* the lower-case form of a text
  DictionaryFile,  \* its lines, each a list of texts, which are lists of words
  RegexMatches,    \* the words of the regex index that match a regex, in its order
  MaxOrdered,      \* an order set has less elements than this
  MaxUint64        \* UINT64_MAX

ASSUME EstimateWidth == MaxUint64 \in Nat \ {0}

---------------------------------------------------------------------------
(* Dictionaries::parse_csv(): the synonyms of the first text of each line  *)
(* with two or more.  The lists of lines with the same text are joined.    *)

ParseCsv(lines) ==
  LET used == SelectSeq(lines, LAMBDA line : Len(line) >= 2)
      LinesOf(text) == SelectSeq(used, LAMBDA line : line[1] = text)
  IN [text \in {used[i][1] : i \in DOMAIN used} |->
        FlattenSeq([i \in DOMAIN LinesOf(text) |-> Tail(LinesOf(text)[i])])]

Synonyms == ParseCsv(DictionaryFile)

---------------------------------------------------------------------------
(* QuerySimplifier *)

(* An exception: a unit that no pass produces.                             *)
Invalid == Tree("INVALID", <<>>)

RECURSIVE IsInvalid(_)
IsInvalid(u) == u = Invalid \/ \E i \in DOMAIN u.kids : IsInvalid(u.kids[i])

(* The kids of a unit, with those of kind tag replaced by their own kids.  *)
Inlined(tag, kids) ==
  FlattenSeq([i \in DOMAIN kids |-> IF kids[i].tag = tag THEN kids[i].kids ELSE <<kids[i]>>])

AddToConcat(kids) == Concat(Inlined("CONCAT", kids))
AddToAlternation(kids) == Alternation(Inlined("ALTERNATION", kids))

TextOf(u, o) == IF o.lowerCase THEN Lower(u.text) ELSE u.text

PlusToSimple == Concat(<<QMark, Star>>)

RegexToSimple(u, o) == IF o.allowRegex THEN Leaf("REGEX", TextOf(u, o)) ELSE Alternation(<<>>)

DictToSimple(text) ==
  LET others == SelectSeq(Synonyms[<<text>>], LAMBDA synonym : synonym # <<text>>)
      Phrase(words) == [i \in DOMAIN words |-> Word(words[i])]
  IN IF <<text>> \notin DOMAIN Synonyms THEN Word(text)
     ELSE Alternation(<<Word(text)>> \o
            [i \in DOMAIN others |-> IF Len(others[i]) = 1 THEN Word(others[i][1])
                                                            ELSE Concat(Phrase(others[i]))])

(* A fault: an option set of one unit is not optional.                     *)
OptionOfOne(kids) ==
  LET simple == AddToAlternation(kids)
  IN IF Len(kids) < 1 THEN [simple EXCEPT !.kids = <<Concat(<<>>)>> \o @] ELSE simple

OptionToSimple(kids) ==
  LET simple == AddToAlternation(kids)
  IN IF Len(kids) <= 1 THEN [simple EXCEPT !.kids = <<Concat(<<>>)>> \o @] ELSE simple

(* The alternation of all orders of the elements that are not empty.       *)
Orders(elements) ==
  LET n == Len(elements)
      permutations == SetToSeq({p \in [1 .. n -> 1 .. n] : IsInjective(p)})
  IN Alternation([k \in DOMAIN permutations |->
                    AddToConcat([i \in 1 .. n |-> elements[permutations[k][i]]])])

Factorial(n) == FoldLeft(LAMBDA a, b : a * b, 1, [i \in 1 .. n |-> i])

OrderToSimple(kids, o) ==
  LET elements == SelectSeq(kids, LAMBDA kid : SimpleRange(kid).max # 0)
      minLength == FoldLeft(LAMBDA sum, kid : sum + SimpleRange(kid).min, 0, kids)
  IN CASE \E i \in DOMAIN kids : IsEmpty(SimpleRange(kids[i])) -> Alternation(<<>>)
       [] \A i \in DOMAIN kids : ~IsEmpty(SimpleRange(kids[i])) ->
            CASE minLength > o.maxLength -> Alternation(<<>>)
              [] minLength <= o.maxLength
                 /\ (Len(elements) >= MaxOrdered \/ Factorial(Len(elements)) > o.maxNormQueries)
                 -> Invalid
              [] OTHER -> CASE Len(elements) = 0 -> Concat(<<>>)
                            [] Len(elements) = 1 -> elements[1]
                            [] OTHER -> Orders(elements)

RECURSIVE ToSimple(_, _)
ToSimple(u, o) ==
  LET kids == [i \in DOMAIN u.kids |-> ToSimple(u.kids[i], o)]
  IN CASE u.tag = "WORD" -> Word(TextOf(u, o))
       [] u.tag = "QMARK" -> QMark
       [] u.tag = "STAR" -> Star
       [] u.tag = "PLUS" -> PlusToSimple
       [] u.tag = "REGEX" -> RegexToSimple(u, o)
       [] u.tag = "DICTSET" -> DictToSimple(TextOf(u, o))
       [] u.tag = "OPTIONSET" -> OptionToSimple(kids)
       [] u.tag = "ORDERSET" -> OrderToSimple(kids, o)
       [] u.tag = "ALTERNATION" -> AddToAlternation(kids)
       [] u.tag = "CONCAT" -> AddToConcat(kids)

---------------------------------------------------------------------------
(* SimpleQueryOptimizer *)

HasChild(kids, u) == \E i \in DOMAIN kids : kids[i] = u

(* A unit that only accepts question marks and units of length 0 between   *)
(* itself and a star before it, or behind it, is absorbed by that star.    *)
(* A fault: the unit's own length does not matter.                         *)
AbsorbedAnyway(kids, i, between) ==
  \A j \in between : kids[j].tag = "QMARK" \/ MinLength(kids[j]) = 0

Absorbed(kids, i, between) ==
  /\ MinLength(kids[i]) = 0
  /\ \A j \in between : kids[j].tag = "QMARK" \/ MinLength(kids[j]) = 0

AbsorbedForward(kids) ==
  {i \in DOMAIN kids :
     \E s \in 1 .. i - 1 : kids[s].tag = "STAR" /\ Absorbed(kids, i, s + 1 .. i)}
AbsorbedBackward(kids) ==
  {i \in DOMAIN kids :
     \E s \in i + 1 .. Len(kids) : kids[s].tag = "STAR" /\ Absorbed(kids, i, i .. s - 1)}

Removed(kids, positions) ==
  FlattenSeq([i \in DOMAIN kids |-> IF i \in positions THEN <<>> ELSE <<kids[i]>>])

ConcatStarOptimization(kids) ==
  LET kept == Removed(kids, AbsorbedForward(kids))
  IN Removed(kept, AbsorbedBackward(kept))

OptimizedConcat(kids) ==
  LET flat == Inlined("CONCAT", kids)
  IN CASE Len(kids) = 0 -> Concat(<<>>)
       [] Len(kids) = 1 -> kids[1]
       [] OTHER -> CASE HasChild(flat, Alternation(<<>>)) -> Alternation(<<>>)
                     [] HasChild(flat, Star) /\ ~HasChild(flat, Alternation(<<>>))
                        -> Concat(ConcatStarOptimization(flat))
                     [] OTHER -> Concat(flat)

OptimizedAlternation(kids) ==
  IF Len(kids) = 1 THEN kids[1] ELSE AddToAlternation(kids)

RECURSIVE OptimizedUnit(_)
OptimizedUnit(u) ==
  LET kids == [i \in DOMAIN u.kids |-> OptimizedUnit(u.kids[i])]
  IN CASE u.tag = "CONCAT" -> OptimizedConcat(kids)
       [] u.tag = "ALTERNATION" -> OptimizedAlternation(kids)
       [] OTHER -> u

Optimized(simple) ==
  [simple EXCEPT !.kids = [i \in DOMAIN @ |-> OptimizedUnit(@[i])]]

---------------------------------------------------------------------------
(* The arithmetic of NormQueryCounter: numbers of norm queries in 64 bits, *)
(* where a result that is smaller than an operand is taken for an          *)
(* overflow.  An estimate is a constant, or depends on the number of words *)
(* of a regex: constants are treated apart.                                *)

Uint64 == 0 .. MaxUint64

Estimate(constant, value) == [constant |-> constant, value |-> value]
Overflown == Estimate(TRUE, MaxUint64)

SafeAdd(a, b) ==
  LET sum == (a + b) % (MaxUint64 + 1) IN IF sum < a THEN MaxUint64 ELSE sum

SafeMult(a, b) ==
  LET prod == (a * b) % (MaxUint64 + 1) IN IF prod < a \/ prod < b THEN MaxUint64 ELSE prod

Plus(a, b) ==
  IF Overflown \in {a, b} THEN Overflown
  ELSE Estimate(a.constant /\ b.constant, SafeAdd(a.value, b.value))

Times(a, b) ==
  CASE Estimate(TRUE, 0) \in {a, b} -> Estimate(TRUE, 0)
    [] Estimate(TRUE, 0) \notin {a, b} /\ Overflown \in {a, b} -> Overflown
    [] OTHER -> Estimate(a.constant /\ b.constant, SafeMult(a.value, b.value))

---------------------------------------------------------------------------
(* NormQueryCounter *)

(* How many norm queries a star makes, where at least taken words are      *)
(* around it.  The difference has the width of a length.                   *)
(* A fault: the star that stands for no word is not counted.               *)
StarWithoutEmpty(taken, o) == (o.maxLength - taken) % (MaxUint32 + 1)

StarEstimate(taken, o) == 1 + ((o.maxLength - taken) % (MaxUint32 + 1))

(* taken: the least number of words around the unit.                       *)
RECURSIVE EstimateUnit(_, _, _, _)
EstimateUnit(u, taken, m, o) ==
  LET kids == u.kids
      Kid(k, around) == EstimateUnit(kids[k], around, m, o)
      least == MinLength(u)
      factors == [k \in DOMAIN kids |-> Kid(k, taken + least - MinLength(kids[k]))]
      early == {k \in DOMAIN kids : factors[k] \in {Overflown, Estimate(TRUE, 0)}}
  IN CASE u.tag \in {"WORD", "QMARK"} -> Estimate(TRUE, 1)
       [] u.tag = "STAR" -> Estimate(TRUE, StarEstimate(taken, o))
       [] u.tag = "REGEX" -> Estimate(FALSE, m)
       [] u.tag = "ALTERNATION" ->
            FoldLeft(LAMBDA sum, k : Plus(sum, Kid(k, taken)), Estimate(TRUE, 0),
                     [k \in DOMAIN kids |-> k])
       [] u.tag = "CONCAT" ->
            CASE least = MaxUint32 -> Estimate(TRUE, 0)
              [] least # MaxUint32 /\ early # {} -> factors[Min(early)]
              [] OTHER -> FoldLeft(Times, Estimate(TRUE, 1), factors)

EstimateAt(simple, m, o) == EstimateUnit(simple, 0, m, o).value

---------------------------------------------------------------------------
(* normalize_regexes() *)

RECURSIVE HasRegex(_)
HasRegex(u) == u.tag = "REGEX" \/ \E i \in DOMAIN u.kids : HasRegex(u.kids[i])

Fits(simple, m, o) == EstimateAt(simple, m, o) <= o.maxNormQueries

(* The middle is rounded up, and an estimate that is exactly the budget    *)
(* ends the search.                                                        *)
RECURSIVE BinarySearch(_, _, _, _)
BinarySearch(min, max, simple, o) ==
  LET m == min + ((max - min) \div 2) + 1
  IN CASE min >= max -> min
       [] min < max /\ EstimateAt(simple, m, o) = o.maxNormQueries -> m
       [] min < max /\ EstimateAt(simple, m, o) < o.maxNormQueries -> BinarySearch(m, max, simple, o)
       [] OTHER -> BinarySearch(min, m - 1, simple, o)

BestMaxMatches(simple, o) ==
  IF Fits(simple, o.maxRegexMatches, o) THEN o.maxRegexMatches
  ELSE BinarySearch(0, o.maxRegexMatches, simple, o)

(* Each regex becomes the first n of its matches.                          *)
RECURSIVE WithoutRegexes(_, _)
WithoutRegexes(u, n) ==
  IF u.tag = "REGEX"
  THEN LET all == RegexMatches[u.text]
           used == SubSeq(all, 1, IF n < Len(all) THEN n ELSE Len(all))
       IN Alternation([i \in DOMAIN used |-> Word(used[i])])
  ELSE [u EXCEPT !.kids = [i \in DOMAIN @ |-> WithoutRegexes(@[i], n)]]

---------------------------------------------------------------------------
(* StarQuery, a norm query with stars: a list of leaves.                   *)

Mins(query) == Len(SelectSeq(query, LAMBDA u : u.tag # "STAR"))
HasStars(query) == \E i \in DOMAIN query : query[i].tag = "STAR"

RECURSIVE ConcatTo(_, _, _), AlternativesOf(_, _)
ConcatTo(queries, u, o) ==
  LET alt == AlternativesOf(u, o)
      Pairs(before) == [k \in DOMAIN alt |-> before \o alt[k]]
      Short(query) == Mins(query) <= o.maxLength
  IN CASE IsTerminal(u) -> [i \in DOMAIN queries |-> Append(queries[i], u)]
       [] u.tag = "CONCAT" -> FoldLeft(LAMBDA qs, kid : ConcatTo(qs, kid, o), queries, u.kids)
       [] u.tag = "ALTERNATION" /\ Len(alt) = 1 -> [i \in DOMAIN queries |-> queries[i] \o alt[1]]
       [] OTHER -> SelectSeq(FlattenSeq([i \in DOMAIN queries |-> Pairs(queries[i])]), Short)
AlternativesOf(u, o) ==
  CASE IsTerminal(u) -> << <<u>> >>
    [] u.tag = "ALTERNATION" ->
         FlattenSeq([i \in DOMAIN u.kids |-> AlternativesOf(u.kids[i], o)])
    [] u.tag = "CONCAT" ->
         SelectSeq(ConcatTo(<< <<>> >>, u, o), LAMBDA query : Mins(query) <= o.maxLength)

(* ChainCutter: a state has a 0 for a unit of the chain and a 1 for a cut; *)
(* next_permutation() goes through all of them.  A segment is what is      *)
(* between two cuts.                                                       *)
CutStates(cuts, length) ==
  {s \in [1 .. cuts + length -> {0, 1}] : Cardinality({i \in DOMAIN s : s[i] = 1}) = cuts}
Segments(state) ==
  LET CutsUpTo(i) == Cardinality({j \in 1 .. i : state[j] = 1})
  IN [k \in 1 .. CutsUpTo(Len(state)) + 1 |->
        Cardinality({i \in DOMAIN state : state[i] = 0 /\ CutsUpTo(i) = k - 1})]

(* The star query with as many question marks for its stars as the first   *)
(* segments say.                                                           *)
Expanded(query, segments) ==
  LET StarsUpTo(i) == Cardinality({j \in 1 .. i : query[j].tag = "STAR"})
  IN FlattenSeq([i \in DOMAIN query |->
       IF query[i].tag = "STAR" THEN [n \in 1 .. segments[StarsUpTo(i)] |-> QMark]
                                 ELSE <<query[i]>>])

AddWithStars(query, o) ==
  LET cuts == Len(query) - Mins(query)
      states == SetToSeq(CutStates(cuts, o.maxLength - Mins(query)))
  IN SelectSeq([k \in DOMAIN states |-> Expanded(query, Segments(states[k]))],
               LAMBDA norm : Len(norm) >= o.minLength)

AddSimple(norms, query) == Append(norms, query)

(* to_norm_queries(): the list, or an exception as soon as it is too long. *)
RECURSIVE AddAll(_, _, _)
AddAll(norms, queries, o) ==
  LET query == Head(queries)
      more == CASE Mins(query) \notin o.minLength .. o.maxLength -> norms
                [] Mins(query) \in o.minLength .. o.maxLength /\ HasStars(query)
                   -> norms \o AddWithStars(query, o)
                [] OTHER -> AddSimple(norms, query)
  IN CASE queries = <<>> -> [ok |-> TRUE, norms |-> norms]
       [] queries # <<>> /\ Len(more) > o.maxNormQueries -> [ok |-> FALSE, norms |-> more]
       [] OTHER -> AddAll(more, Tail(queries), o)

ToStarQueries(simple, o) == AlternativesOf(simple, o)

ToNormQueries(simple, o) == AddAll(<<>>, ToStarQueries(simple, o), o)

=============================================================================
