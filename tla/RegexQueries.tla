----------------------------- MODULE RegexQueries ---------------------------
(***************************************************************************)
(* Regex queries: the units, the parser, the builder that simplifies them  *)
(* and the bounds that the index asks for (regex/RegexQuery.*,             *)
(* regex/parsers.cpp).  A text, and the value of a unit, is a sequence of  *)
(* characters.                                                             *)
(***************************************************************************)
EXTENDS Integers, FiniteSets, SequencesExt

CONSTANTS
  Utf8Bytes(_),   \* number_of_utf8_bytes() of a character
  Infinite        \* UINT32_MAX and SIZE_MAX

Unit(type, value) == [type |-> type, value |-> value]
QMark == Unit("QMARK", <<"?">>)
Star == Unit("STAR", <<"*">>)
WordUnit(value) == Unit("WORD", value)
CharSet(value) == Unit("CHAR_SET", value)
OptionalWord(value) == Unit("OPTIONAL_WORD", value)

(* The words that a unit stands for; units accept the concatenations.      *)
UnitAccepts(u, w) ==
  CASE u.type = "QMARK" -> Len(w) = 1
    [] u.type = "STAR" -> TRUE
    [] u.type = "WORD" -> w = u.value
    [] u.type = "CHAR_SET" -> \E i \in DOMAIN u.value : w = <<u.value[i]>>
    [] u.type = "OPTIONAL_WORD" -> w \in {<<>>, u.value}

RECURSIVE Accepts(_, _)
Accepts(units, w) ==
  IF units = <<>> THEN w = <<>>
  ELSE \E n \in 0 .. Len(w) :
         /\ UnitAccepts(Head(units), SubSeq(w, 1, n))
         /\ Accepts(Tail(units), SubSeq(w, n + 1, Len(w)))

-----------------------------------------------------------------------------
(* RegexQueryBuilder *)

NewBuilder == [units |-> <<>>, rejectAll |-> FALSE]
RejectingQuery == <<CharSet(<<>>)>>
ToQuery(b) == IF b.rejectAll THEN RejectingQuery ELSE b.units

WithoutDuplicates(value) == IF Len(value) < 2 THEN value ELSE SetToSeq(ToSet(value))
OptimizedUnit(u) ==
  LET set == WithoutDuplicates(u.value)
  IN CASE u.type # "CHAR_SET" -> u
       [] u.type = "CHAR_SET" /\ Len(set) = 1 -> WordUnit(set)
       [] OTHER -> CharSet(set)

(* Mutant of RemoveTrailingOptionalWords: question marks vanish, too.      *)
TrailingQMarksLost(units) ==
  LET kept == {i \in DOMAIN units : units[i].type \notin {"QMARK", "OPTIONAL_WORD"}}
  IN SubSeq(units, 1, IF kept = {} THEN 0 ELSE CHOOSE i \in kept : \A j \in kept : j <= i)

(* Optional words at the end and between question marks at the end vanish  *)
(* before a star.                                                          *)
RemoveTrailingOptionalWords(units) ==
  LET trailing(i) == \A j \in i .. Len(units) : units[j].type \in {"QMARK", "OPTIONAL_WORD"}
      first == CHOOSE i \in 1 .. Len(units) + 1 :
                 /\ trailing(i)
                 /\ i = 1 \/ ~ trailing(i - 1)
  IN SubSeq(units, 1, first - 1)
       \o SelectSeq(SubSeq(units, first, Len(units)), LAMBDA u : u.type = "QMARK")

Adding(b, u) ==
  LET prev == Last(b.units)
      Follows(type, before) == u.type = type /\ prev.type \in before
      With(units) == [b EXCEPT !.units = units]
  IN CASE u.value = <<>> /\ u.type = "CHAR_SET" -> [b EXCEPT !.rejectAll = TRUE]
       [] u.value = <<>> /\ u.type # "CHAR_SET" -> b
       [] u.value # <<>> /\ b.units = <<>> -> With(<<u>>)
       [] OTHER ->
            CASE Follows("WORD", {"WORD"}) ->
                   With(Front(b.units) \o <<WordUnit(prev.value \o u.value)>>)
              [] Follows("QMARK", {"STAR"}) -> With(Front(b.units) \o <<u, prev>>)
              [] Follows("STAR", {"STAR"}) \/ Follows("OPTIONAL_WORD", {"STAR"}) -> b
              [] Follows("STAR", {"OPTIONAL_WORD", "QMARK"}) ->
                   With(Append(RemoveTrailingOptionalWords(b.units), u))
              [] OTHER -> With(Append(b.units, u))

Add(b, u) == IF b.rejectAll THEN b ELSE Adding(b, OptimizedUnit(u))

QueryOf(units) == ToQuery(FoldLeft(Add, NewBuilder, units))

-----------------------------------------------------------------------------
(* parse_netspeak_regex_query(): a bracket that is not closed is a         *)
(* character like others.                                                  *)

IsClosed(text, end) == \E i \in DOMAIN text : text[i] = end
UntilChar(text, end) ==
  SubSeq(text, 1, (CHOOSE i \in DOMAIN text :
                     text[i] = end /\ \A j \in 1 .. i - 1 : text[j] # end) - 1)

RECURSIVE UnitsOf(_)
UnitsOf(text) ==
  LET c == Head(text)
      rest == Tail(text)
      After(value) == SubSeq(rest, Len(value) + 2, Len(rest))
      Dots == {i \in DOMAIN rest : \A j \in 1 .. i : rest[j] = "."}
      Bracketed(end) == UntilChar(rest, end)
  IN CASE text = <<>> -> <<>>
       [] text # <<>> /\ c = "?" -> <<QMark>> \o UnitsOf(rest)
       [] text # <<>> /\ c = "*" -> <<Star>> \o UnitsOf(rest)
       [] text # <<>> /\ c = "+" -> <<QMark, Star>> \o UnitsOf(rest)
       [] text # <<>> /\ c = "." /\ Dots # {} ->
            <<Star>> \o UnitsOf(SubSeq(rest, 1 + Cardinality(Dots), Len(rest)))
       [] text # <<>> /\ c = "[" /\ IsClosed(rest, "]") ->
            LET value == Bracketed("]")
            IN <<IF Len(value) = 1 THEN OptionalWord(value) ELSE CharSet(value)>>
                 \o UnitsOf(After(value))
       [] text # <<>> /\ c = "{" /\ IsClosed(rest, "}") ->
            LET value == Bracketed("}")
            IN [i \in DOMAIN value |-> CharSet(value)] \o UnitsOf(After(value))
       [] OTHER -> <<WordUnit(<<c>>)>> \o UnitsOf(rest)

ParseQuery(text) == QueryOf(UnitsOf(text))

-----------------------------------------------------------------------------
(* Bounds *)

Capped(n) == IF n >= Infinite THEN Infinite ELSE n

CombinationsUpperBound(units) ==
  FoldLeft(LAMBDA n, u :
             CASE n \in {0, Infinite} -> n
               [] n \notin {0, Infinite} /\ u.type \in {"QMARK", "STAR"} -> Infinite
               [] n \notin {0, Infinite} /\ u.type = "OPTIONAL_WORD" -> Capped(2 * n)
               [] n \notin {0, Infinite} /\ u.type = "CHAR_SET" -> Capped(Len(u.value) * n)
               [] OTHER -> n,
           1, units)

RejectAll(units) == CombinationsUpperBound(units) = 0

AcceptAll(units) == Len(units) = 1 /\ units[1].type = "STAR"
AcceptAllNonEmpty(units) ==
  \/ AcceptAll(units)
  \/ Len(units) = 2 /\ {units[1].type, units[2].type} = {"STAR", "QMARK"}

TotalBytes(value) == FoldLeft(LAMBDA n, c : n + Utf8Bytes(c), 0, value)
BytesOf(value) == {Utf8Bytes(value[i]) : i \in DOMAIN value}

MinUtf8InputLength(units) ==
  FoldLeft(LAMBDA n, u :
             CASE n = Infinite \/ u = CharSet(<<>>) -> Infinite
               [] n # Infinite /\ u.type = "WORD" -> n + TotalBytes(u.value)
               [] n # Infinite /\ u.type = "QMARK" -> n + 1
               [] n # Infinite /\ u.type = "CHAR_SET" /\ u.value # <<>> ->
                    n + Min(BytesOf(u.value))
               [] OTHER -> n,
           0, units)

MaxUtf8InputLength(units) ==
  FoldLeft(LAMBDA n, u :
             CASE n = Infinite \/ u.type = "STAR" -> Infinite
               [] n # Infinite /\ u.type \in {"WORD", "OPTIONAL_WORD"} -> n + TotalBytes(u.value)
               [] n # Infinite /\ u.type = "QMARK" -> n + 4
               [] n # Infinite /\ u.type = "CHAR_SET" -> n + Max(BytesOf(u.value) \cup {0})
               [] OTHER -> n,
           0, units)

=============================================================================
