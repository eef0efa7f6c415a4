----------------------------- MODULE Characters -----------------------------
(***************************************************************************)
(* Texts: sequences of character codes, and the ends that readers look     *)
(* for.                                                                    *)
(***************************************************************************)
EXTENDS Integers, SequencesExt

Tab == 9      LF == 10     CR == 13    Blank == 32
Quote == 34   Bang == 33   Hash == 35  Colon == 58
Equals == 61  Backslash == 92  Zero == 48

Spaces == {Blank, Tab}
LineBreaks == {LF, CR}
Digits == Zero .. Zero + 9

Drop(text, n) == SubSeq(text, n + 1, Len(text))
NextIs(text, chars) == text # <<>> /\ Head(text) \in chars

(* How many characters there are before the first that is not one of       *)
(* these, or the end.                                                      *)
Leading(text, chars) ==
  CHOOSE n \in 0 .. Len(text) :
    /\ \A i \in 1 .. n : text[i] \in chars
    /\ n < Len(text) => text[n + 1] \notin chars
Skip(text, chars) == Drop(text, Leading(text, chars))

(* Likewise before the first one of these.                                 *)
Until(text, chars) ==
  CHOOSE n \in 0 .. Len(text) :
    /\ \A i \in 1 .. n : text[i] \notin chars
    /\ n < Len(text) => text[n + 1] \in chars

=============================================================================
