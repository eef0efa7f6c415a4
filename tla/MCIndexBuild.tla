---------------------------- MODULE MCIndexBuild ----------------------------
(***************************************************************************)
(* Four input directories: n-grams with a word that is no 1-gram and a     *)
(* frequency that is too large for the index; the same with duplicates in  *)
(* other files and a last line without newline; three files, which make    *)
(* more partitions; and a directory without 1-grams.                       *)
(***************************************************************************)
EXTENDS IndexBuild

Code(w) == CASE w = "a" -> 1 [] w = "b" -> 2 [] w = "c" -> 3
MCHash(words) == FoldLeft(LAMBDA h, w : h * 5 + Code(w), 3, words)
MCChecksum(words) == FoldLeft(LAMBDA h, w : h + Code(w), 0, words)

File(lines, ended) == [lines |-> lines, ended |-> ended]
First == File(<<Line(<<"a">>, 2), Line(<<"a", "c">>, 6), LineWithoutTab, Line(<<"b">>, 3), Line(<<"b", "a">>, 1)>>, TRUE)
Second == File(<<Line(<<"b", "a">>, 1), Line(<<"c">>, 1), Line(<<"a">>, 2)>>, FALSE)
Third == File(<<Line(<<"c", "b">>, 2)>>, TRUE)

MCInputs == { <<First>>, <<Second, First>>, <<Third, Second, First>>, <<Third>> }

=============================================================================
