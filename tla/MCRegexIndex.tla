---------------------------- MODULE MCRegexIndex ----------------------------
(***************************************************************************)
(* Words over two characters of one byte and one of two bytes; "z" is in   *)
(* no word.  The texts have up to three characters of every kind, and some *)
(* are longer.  Some words share a slot of the hash table, some are in its *)
(* last slots; queries for eight words or more are matched, and the clock  *)
(* is looked at for every second word.                                     *)
(***************************************************************************)
EXTENDS RegexIndex

MCBytes(c) == IF c = "e" THEN 2 ELSE 1
MCCode(c) == CASE c = "a" -> 1 [] c = "b" -> 2 [] c = "e" -> 3 [] OTHER -> 5

MCVocabularies ==
  { << <<"a">>, <<"a", "b">>, <<>>, <<"e">>, <<"b", "a", "b">> >>,
    << <<"a", "b", "a">>, <<"b">>, <<"e", "b">>, <<"b", "b">>, <<"a", "e">> >>,
    << <<"b", "a">> >>,
    << >> }

(* A usual vocabulary, with free slots in its table.                       *)
MCUsualVocabulary == { << <<"a", "b", "a">>, <<"b">>, <<"e", "b">>, <<"b", "b">>, <<"a", "e">> >> }

Symbols == {"a", "b", "e", "z", "?", "*", ".", "[", "]", "{", "}"}
MCTexts ==
  UNION {[1 .. n -> Symbols] : n \in 1 .. 3}
    \cup { <<"b", "[", "a", "]", "+">>, <<"{", "a", "b", "}">>, <<"{", "a", "b", "e", "}">>,
           <<"{", "a", "b">>, <<"[", "a", "b", "z", "]", "b">>, <<"[", "z", "]", "b">>,
           <<"*", "?", "[", "a", "]", "?">>, <<"a", "?", "[", "b", "]", "?", "*">>,
           <<"[", "a", "]", "[", "b", "]", "[", "e", "]", "[", "z", "]">>,
           <<".", ".", "b">>, <<"[", "a", "b", "]", "?", "[", "b", "]">> }

=============================================================================
