--------------------------- MODULE PropertiesFormat -------------------------
(***************************************************************************)
(* Files of keys and values (util/PropertiesFormat.cpp).                   *)
(***************************************************************************)
EXTENDS Characters

LetterU == 117
Delimiters == {Equals, Colon}
HexDigits == Digits \cup (65 .. 70) \cup (97 .. 102)

HexValue(c) == CASE c \in Digits -> c - Zero [] c \in 65 .. 70 -> c - 55 [] c \in 97 .. 102 -> c - 87
HexDigit(n) == IF n < 10 THEN Zero + n ELSE 55 + n

Failed == [chars |-> <<>>, rest |-> <<>>, ok |-> FALSE]
Gives(chars, rest) == [chars |-> chars, rest |-> rest, ok |-> TRUE]

-----------------------------------------------------------------------------
(* Reading.  What is escaped: a code, the end of a line with the spaces of *)
(* the next one, or a character; only the codes of ASCII are possible.     *)

Escaped(text) ==
  IF text = <<>> THEN Failed
  ELSE CASE Head(text) = LetterU ->
              IF Len(text) >= 5 /\ \A i \in 2 .. 5 : text[i] \in HexDigits
              THEN LET code == FoldLeft(LAMBDA n, c : 16 * n + HexValue(c), 0, SubSeq(text, 2, 5))
                   IN IF code < 128 THEN Gives(<<code>>, Drop(text, 5)) ELSE Failed
              ELSE Failed
         [] Head(text) = LF -> Gives(<<>>, Skip(Tail(text), Spaces))
         [] Head(text) = CR ->
              Gives(<<>>, Skip(IF NextIs(Tail(text), {LF}) THEN Drop(text, 2) ELSE Tail(text), Spaces))
         [] OTHER -> Gives(<<Head(text)>>, Tail(text))

RECURSIVE ReadUntil(_, _, _)
ReadUntil(text, ends, chars) ==
  IF text = <<>> \/ NextIs(text, ends) THEN Gives(chars, text)
  ELSE IF Head(text) # Backslash THEN ReadUntil(Tail(text), ends, Append(chars, Head(text)))
  ELSE LET e == Escaped(Tail(text))
       IN IF e.ok THEN ReadUntil(e.rest, ends, chars \o e.chars) ELSE Failed

ReadKey(text) ==
  LET key == ReadUntil(text, LineBreaks \cup Delimiters \cup Spaces, <<>>)
  IN IF key.rest = <<>> \/ NextIs(key.rest, LineBreaks) THEN Failed ELSE key
ReadValue(text) == ReadUntil(text, LineBreaks, <<>>)

(* A delimiter in spaces, or spaces.                                       *)
AfterDelimiter(text) ==
  LET start == Skip(text, Spaces)
  IN IF NextIs(start, Delimiters) THEN Skip(Tail(start), Spaces) ELSE start

(* Empty lines and comments.                                               *)
RECURSIVE FromKey(_)
FromKey(text) ==
  LET start == Skip(text, Spaces \cup LineBreaks)
  IN IF NextIs(start, {Hash, Bang}) THEN FromKey(Drop(start, Until(start, LineBreaks))) ELSE start

RECURSIVE Read(_, _)
Read(text, pairs) ==
  LET start == FromKey(text)
      key == ReadKey(start)
      value == ReadValue(AfterDelimiter(key.rest))
  IN CASE start = <<>> -> [pairs |-> pairs, ok |-> TRUE]
       [] start # <<>> /\ ~ (key.ok /\ value.ok) -> [pairs |-> pairs, ok |-> FALSE]
       [] OTHER -> Read(value.rest, Append(pairs, <<key.chars, value.chars>>))

-----------------------------------------------------------------------------
(* Writing.  Characters are signed: those beyond ASCII are taken for       *)
(* control characters, which only ASCII can be escaped of.                 *)

Special == {Backslash, Equals, Colon, Hash, Bang, Blank}
Code(c) == <<Backslash, LetterU, Zero, Zero, HexDigit(c \div 16), HexDigit(c % 16)>>
IsControl(c) == c < Blank \/ c >= 128
CanWrite(text) == \A i \in DOMAIN text : text[i] < 128

KeyChar(c) ==
  CASE c \in Special -> <<Backslash, c>>
    [] c \notin Special /\ IsControl(c) -> Code(c)
    [] OTHER -> <<c>>
ValueChar(c) ==
  CASE c = Backslash -> <<Backslash, c>>
    [] c # Backslash /\ IsControl(c) -> Code(c)
    [] OTHER -> <<c>>
KeyText(key) == FlattenSeq([i \in DOMAIN key |-> KeyChar(key[i])])

(* Mutant of ValueText: a blank at the start is not escaped.               *)
PlainValueText(value) == FlattenSeq([i \in DOMAIN value |-> ValueChar(value[i])])
ValueText(value) ==
  FlattenSeq([i \in DOMAIN value |->
    IF i = 1 /\ value[i] = Blank THEN <<Backslash, Blank>> ELSE ValueChar(value[i])])

Write(pairs) ==
  FlattenSeq([i \in DOMAIN pairs |->
    KeyText(pairs[i][1]) \o <<Equals>> \o ValueText(pairs[i][2]) \o <<LF>>])

=============================================================================
