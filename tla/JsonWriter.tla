------------------------------ MODULE JsonWriter ----------------------------
(***************************************************************************)
(* Writing JSON (util/JsonWriter.hpp): which calls are possible is the     *)
(* type of the writer.  A writer has the tokens that it has written and    *)
(* the types that it goes back to, the current one last.                   *)
(***************************************************************************)
EXTENDS Characters

Writer == [out |-> <<>>, types |-> <<"Done", "Value">>]
Type(w) == Last(w.types)
Wrote(w, tokens, types) == [out |-> w.out \o tokens, types |-> Front(w.types) \o types]

(* Value *)
Scalar(w, token) == Wrote(w, <<token>>, <<>>)
Object(w) == Wrote(w, <<>>, <<"ObjectStart">>)
Array(w) == Wrote(w, <<>>, <<"ArrayStart">>)

(* ObjectStart and ObjectContinue.  The first property or element writes   *)
(* the bracket, and so does the end if there is none.                      *)
(* Mutant of Prop: the type of the writer does not change.                 *)
PropOfStart(w, key) ==
  Wrote(w, <<IF Type(w) = "ObjectStart" THEN "{" ELSE ",", key, ":">>, <<Type(w), "Value">>)
Prop(w, key) ==
  Wrote(w, <<IF Type(w) = "ObjectStart" THEN "{" ELSE ",", key, ":">>, <<"ObjectContinue", "Value">>)
EndObject(w) == Wrote(w, IF Type(w) = "ObjectStart" THEN <<"{", "}">> ELSE <<"}">>, <<>>)

(* ArrayStart and ArrayContinue *)
Element(w) ==
  Wrote(w, <<IF Type(w) = "ArrayStart" THEN "[" ELSE ",">>, <<"ArrayContinue", "Value">>)
EndArray(w) == Wrote(w, IF Type(w) = "ArrayStart" THEN <<"[", "]">> ELSE <<"]">>, <<>>)

Calls(w) ==
  CASE Type(w) = "Value" -> {Scalar(w, "number"), Scalar(w, "string"), Object(w), Array(w)}
    [] Type(w) \in {"ObjectStart", "ObjectContinue"} -> {Prop(w, "string"), EndObject(w)}
    [] Type(w) \in {"ArrayStart", "ArrayContinue"} -> {Element(w), EndArray(w)}
    [] Type(w) = "Done" -> {}

(* print_json_string() *)
Letter(c) == CASE c = CR -> 114 [] c = LF -> 110 [] c = Tab -> 116 [] OTHER -> c
Hex(n) == IF n < 10 THEN Zero + n ELSE 87 + n
StringChar(c) ==
  CASE c \in {CR, LF, Tab, Backslash, Quote} -> <<Backslash, Letter(c)>>
    [] c < Blank /\ c \notin {CR, LF, Tab} ->
         <<Backslash, 117, Zero, Zero, Hex(c \div 16), Hex(c % 16)>>
    [] OTHER -> <<c>>
StringText(chars) == FlattenSeq([i \in DOMAIN chars |-> StringChar(chars[i])])

-----------------------------------------------------------------------------
(* The grammar of JSON (RFC 8259): where a value that begins at a place    *)
(* may end, and what the text of a string says.                            *)

RECURSIVE ValueEnds(_, _), MembersEnd(_, _, _)
At(tokens, i) == IF i \in DOMAIN tokens THEN tokens[i] ELSE "end"
ValueEnds(tokens, i) ==
  CASE At(tokens, i) \in {"number", "string"} -> {i + 1}
    [] At(tokens, i) = "{" ->
         (IF At(tokens, i + 1) = "}" THEN {i + 2} ELSE {}) \cup MembersEnd(tokens, i + 1, "}")
    [] At(tokens, i) = "[" ->
         (IF At(tokens, i + 1) = "]" THEN {i + 2} ELSE {}) \cup MembersEnd(tokens, i + 1, "]")
    [] OTHER -> {}
MembersEnd(tokens, i, bracket) ==
  LET start == IF bracket = "]" THEN i ELSE i + 2
      named == bracket = "]" \/ (At(tokens, i) = "string" /\ At(tokens, i + 1) = ":")
      ends == IF named THEN ValueEnds(tokens, start) ELSE {}
  IN {e + 1 : e \in {e \in ends : At(tokens, e) = bracket}}
     \cup UNION {MembersEnd(tokens, e + 1, bracket) : e \in {e \in ends : At(tokens, e) = ","}}
IsJson(tokens) == Len(tokens) + 1 \in ValueEnds(tokens, 1)

HexOf(c) == IF c >= 97 THEN c - 87 ELSE c - Zero
EscapeOf(c) == CASE c = 114 -> CR [] c = 110 -> LF [] c = 116 -> Tab [] OTHER -> c
RECURSIVE Said(_)
Said(text) ==
  CASE text \in {<<>>, <<Backslash>>} -> <<>>
    [] text # <<>> /\ Head(text) # Backslash -> <<Head(text)>> \o Said(Tail(text))
    [] Len(text) > 1 /\ Head(text) = Backslash /\ text[2] = 117 ->
         <<16 * HexOf(text[5]) + HexOf(text[6])>> \o Said(Drop(text, 6))
    [] OTHER -> <<EscapeOf(text[2])>> \o Said(Drop(text, 2))
IsStringText(text) ==
  \A i \in DOMAIN text :
    /\ text[i] >= Blank
    /\ text[i] = Quote => i > 1 /\ text[i - 1] = Backslash

=============================================================================
