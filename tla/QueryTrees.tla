----------------------------- MODULE QueryTrees -----------------------------
(***************************************************************************)
(* The trees of units that a query is: Query (model/Query.hpp) as it was   *)
(* written, SimpleQuery (model/SimpleQuery.hpp) with six kinds of units.   *)
(* The lengths of the phrases that a unit accepts.                         *)
(***************************************************************************)
EXTENDS Naturals, Sequences

CONSTANT MaxUint32     \* UINT32_MAX, the width of a length

ASSUME LengthWidth == MaxUint32 \in Nat \ {0}

Leaf(tag, text) == [tag |-> tag, text |-> text, kids |-> <<>>]
Tree(tag, kids) == [tag |-> tag, text |-> "", kids |-> kids]

Word(w) == Leaf("WORD", w)
QMark == Leaf("QMARK", "?")
Star == Leaf("STAR", "*")
Concat(kids) == Tree("CONCAT", kids)
Alternation(kids) == Tree("ALTERNATION", kids)

IsTerminal(u) == u.tag \in {"WORD", "QMARK", "STAR", "PLUS", "REGEX", "DICTSET"}

(* An interval of lengths.  It is empty if min is the greatest number, and *)
(* unbounded if max is.                                                    *)
Lengths(min, max) == [min |-> min, max |-> max]
NoLength == Lengths(MaxUint32, 0)
IsEmpty(r) == r.min = MaxUint32

(* r &= s: the lengths of a concatenation.                                 *)
Concatenated(r, s) ==
  CASE IsEmpty(r) -> r
    [] ~IsEmpty(r) /\ IsEmpty(s) -> [r EXCEPT !.min = MaxUint32]
    [] OTHER -> Lengths(r.min + s.min,
                        IF MaxUint32 \in {r.max, s.max} THEN MaxUint32 ELSE r.max + s.max)

(* r |= s: the lengths of an alternation.                                  *)
United(r, s) ==
  CASE IsEmpty(s) -> r
    [] ~IsEmpty(s) /\ IsEmpty(r) -> s
    [] OTHER -> Lengths(IF s.min < r.min THEN s.min ELSE r.min,
                        IF s.max > r.max THEN s.max ELSE r.max)

RECURSIVE LengthRange(_), RangeOfAny(_, _), RangeOfAll(_, _)

RangeOfAny(r, kids) ==
  IF kids = <<>> THEN r ELSE RangeOfAny(United(r, LengthRange(Head(kids))), Tail(kids))

RangeOfAll(r, kids) ==
  IF kids = <<>> \/ IsEmpty(r) THEN r
  ELSE RangeOfAll(Concatenated(r, LengthRange(Head(kids))), Tail(kids))

LengthRange(u) ==
  CASE u.tag \in {"WORD", "QMARK", "REGEX"} -> Lengths(1, 1)
    [] u.tag = "STAR" -> Lengths(0, MaxUint32)
    [] u.tag \in {"PLUS", "DICTSET"} -> Lengths(1, MaxUint32)
    [] u.tag = "OPTIONSET" -> RangeOfAny(Lengths(0, 0), u.kids)
    [] u.tag = "ALTERNATION" -> RangeOfAny(NoLength, u.kids)
    [] u.tag \in {"ORDERSET", "CONCAT"} -> RangeOfAll(Lengths(0, 0), u.kids)

(* The same for the tags of a SimpleQuery, which has its own copy.         *)
SimpleRange(u) == LengthRange(u)

(* The least length of a simple unit, MaxUint32 if it accepts nothing.     *)
RECURSIVE MinLength(_), SumOfMins(_)
SumOfMins(kids) ==
  IF kids = <<>> THEN 0
  ELSE LET first == MinLength(Head(kids))
           rest == SumOfMins(Tail(kids))
       IN IF MaxUint32 \in {first, rest} THEN MaxUint32 ELSE first + rest
MinLength(u) ==
  CASE u.tag = "STAR" -> 0
    [] u.tag \in {"WORD", "QMARK", "REGEX"} -> 1
    [] u.tag = "CONCAT" -> SumOfMins(u.kids)
    [] u.tag = "ALTERNATION" ->
         LET mins == {MinLength(u.kids[i]) : i \in DOMAIN u.kids} \cup {MaxUint32}
         IN CHOOSE m \in mins : \A n \in mins : m <= n

=============================================================================
