---------------------------- MODULE QueryParsing ----------------------------
(***************************************************************************)
(* From the tokens of a query to its tree: the recursive descent of the    *)
(* generated parser, whose rules enter and leave contexts, and the         *)
(* listener of antlr4/parse.cpp, which builds the tree from these events   *)
(* when the walker replays them.                                           *)
(*                                                                         *)
(* A rule maps the state of a parse to the next one.  An error throws out  *)
(* of the error listener: nothing is read after it.                        *)
(***************************************************************************)
EXTENDS QueryTrees, SequencesExt

CONSTANT MaxStackSize     \* MAX_STACK_SIZE of the listener

Token(kind, text) == [kind |-> kind, text |-> text]

Start(tokens) == [rest |-> tokens, events |-> <<>>, ok |-> TRUE]

(* LA(1)                                                                   *)
Ahead(p) == IF p.rest = <<>> THEN "EOF" ELSE Head(p.rest).kind

Match(p, kind) ==
  IF p.ok /\ Ahead(p) = kind THEN [p EXCEPT !.rest = Tail(@)] ELSE [p EXCEPT !.ok = FALSE]

Enter(p, rule) ==
  [p EXCEPT !.events = Append(@, [do |-> "enter", rule |-> rule,
                                  text |-> IF p.rest = <<>> THEN "" ELSE Head(p.rest).text])]
Exit(p, rule) == [p EXCEPT !.events = Append(@, [do |-> "exit", rule |-> rule, text |-> ""])]

(* The rules of one token.                                                 *)
AsteriskRule(p) == Exit(Match(Enter(p, "asterisk"), "ASTERISK"), "asterisk")
RegexwordRule(p) == Exit(Match(Enter(p, "regexword"), "REGEXWORD"), "regexword")
WordRule(p) == Exit(Match(Enter(p, "word"), "WORD"), "word")
QmarkRule(p) == Exit(Match(Enter(p, "qmark"), "QMARK"), "qmark")
PlusRule(p) == Exit(Match(Enter(p, "plus"), "PLUS"), "plus")
AssociationRule(p) == Exit(Match(Enter(p, "association"), "ASSOCIATION"), "association")

DictsetRule(p) == Exit(WordRule(Match(Enter(p, "dictset"), "HASH")), "dictset")

RECURSIVE PhraseWords(_)
PhraseWords(p) ==
  CASE p.ok /\ Ahead(p) = "REGEXWORD" -> PhraseWords(RegexwordRule(p))
    [] p.ok /\ Ahead(p) = "WORD" -> PhraseWords(WordRule(p))
    [] OTHER -> p
PhraseRule(p) ==
  Exit(Match(PhraseWords(Match(Enter(p, "phrase"), "DBLQUOTE")), "DBLQUOTE"), "phrase")

RECURSIVE SetMembers(_)
SetMembers(p) ==
  CASE p.ok /\ Ahead(p) = "REGEXWORD" -> SetMembers(RegexwordRule(p))
    [] p.ok /\ Ahead(p) = "WORD" -> SetMembers(WordRule(p))
    [] p.ok /\ Ahead(p) = "DBLQUOTE" -> SetMembers(PhraseRule(p))
    [] OTHER -> p
OptionsetRule(p) ==
  Exit(Match(SetMembers(Match(Enter(p, "optionset"), "LBRACKET")), "RBRACKET"), "optionset")
OrdersetRule(p) ==
  Exit(Match(SetMembers(Match(Enter(p, "orderset"), "LBRACE")), "RBRACE"), "orderset")

FirstOfUnit == {"WORD", "REGEXWORD", "LBRACKET", "LBRACE", "HASH", "QMARK", "PLUS", "ASTERISK"}

UnitRule(p) ==
  LET in == Enter(p, "unit")
  IN Exit(CASE Ahead(p) = "WORD" -> WordRule(in)
            [] Ahead(p) = "REGEXWORD" -> RegexwordRule(in)
            [] Ahead(p) = "LBRACKET" -> OptionsetRule(in)
            [] Ahead(p) = "LBRACE" -> OrdersetRule(in)
            [] Ahead(p) = "HASH" -> DictsetRule(in)
            [] Ahead(p) = "QMARK" -> QmarkRule(in)
            [] Ahead(p) = "PLUS" -> PlusRule(in)
            [] Ahead(p) = "ASTERISK" -> AsteriskRule(in)
            [] OTHER -> [in EXCEPT !.ok = FALSE], "unit")

RECURSIVE UnitList(_)
UnitList(p) == IF p.ok /\ Ahead(p) \in FirstOfUnit THEN UnitList(UnitRule(p)) ELSE p
UnitsRule(p) == Exit(UnitList(Enter(p, "units")), "units")

RECURSIVE Alternatives(_)
Alternatives(p) ==
  IF p.ok /\ Ahead(p) = "ASSOCIATION" THEN Alternatives(UnitsRule(AssociationRule(p))) ELSE p
QueryRule(p) ==
  LET read == Alternatives(UnitsRule(Enter(p, "query")))
  IN Exit([read EXCEPT !.ok = @ /\ Ahead(read) = "EOF"], "query")

(***************************************************************************)
(* The listener: a stack of units, the last being the one whose children   *)
(* are read.  A unit becomes a child when it is pushed; here it is added   *)
(* to its parent when it is popped.                                        *)
(***************************************************************************)
Listener == [stack |-> <<>>, inDictset |-> FALSE, ok |-> TRUE]

Push(l, unit) ==
  [l EXCEPT !.stack = Append(@, unit), !.ok = @ /\ Len(l.stack) < MaxStackSize]

Pop(l) ==
  LET n == Len(l.stack)
  IN IF n <= 1 THEN [l EXCEPT !.ok = FALSE]
     ELSE [l EXCEPT !.stack = [SubSeq(@, 1, n - 1) EXCEPT ![n - 1].kids = Append(@, l.stack[n])]]

Opened(l, event) ==
  CASE event.rule = "query" -> [l EXCEPT !.stack = <<Alternation(<<>>)>>]
    [] event.rule \in {"units", "phrase"} -> Push(l, Concat(<<>>))
    [] event.rule = "optionset" -> Push(l, Tree("OPTIONSET", <<>>))
    [] event.rule = "orderset" -> Push(l, Tree("ORDERSET", <<>>))
    [] event.rule = "asterisk" -> Push(l, Leaf("STAR", event.text))
    [] event.rule = "regexword" -> Push(l, Leaf("REGEX", event.text))
    [] event.rule = "word" -> Push(l, Leaf(IF l.inDictset THEN "DICTSET" ELSE "WORD", event.text))
    [] event.rule = "qmark" -> Push(l, Leaf("QMARK", event.text))
    [] event.rule = "plus" -> Push(l, Leaf("PLUS", event.text))
    [] event.rule = "dictset" -> [l EXCEPT !.inDictset = TRUE]
    [] OTHER -> l

(* A fault: the flag stays set behind a dictset.                           *)
ClosedInDictset(l, event) ==
  CASE event.rule = "query" -> [l EXCEPT !.ok = @ /\ Len(l.stack) = 1]
    [] event.rule \in {"unit", "association", "dictset"} -> l
    [] OTHER -> Pop(l)

Closed(l, event) ==
  CASE event.rule = "query" -> [l EXCEPT !.ok = @ /\ Len(l.stack) = 1]
    [] event.rule = "dictset" -> [l EXCEPT !.inDictset = FALSE]
    [] event.rule \in {"unit", "association"} -> l
    [] OTHER -> Pop(l)

(* One step of the walker.                                                 *)
Walk(l, event) ==
  IF ~l.ok THEN l ELSE IF event.do = "enter" THEN Opened(l, event) ELSE Closed(l, event)

Constructed(events) == FoldLeft(Walk, Listener, events)

(* parse_query(): a tree, or an exception.                                 *)
ParseQuery(tokens) ==
  LET parsed == QueryRule(Start(tokens))
      built == Constructed(parsed.events)
  IN IF parsed.ok /\ built.ok THEN [ok |-> TRUE, tree |-> built.stack[1]]
                              ELSE [ok |-> FALSE, tree |-> Alternation(<<>>)]

=============================================================================
