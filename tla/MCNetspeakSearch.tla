-------------------------- MODULE MCNetspeakSearch --------------------------
(***************************************************************************)
(* The search with the query processor of Retrieval, on nine phrases: of   *)
(* the 2-grams that "a ?" matches two are equally frequent, "? b" matches  *)
(* one of them and two other ones, nothing matches "d ?", and two phrases  *)
(* have the word "?".                                                      *)
(***************************************************************************)
EXTENDS NetspeakSearch, Retrieval, TLC

MCWords == {"a", "b", "c", "d", "?"}
MCPhrases == ({1} \X (0 .. 2)) \cup ({2} \X (0 .. 5))
MCText ==
  <<1, 0>> :> <<"a">> @@ <<1, 1>> :> <<"b">> @@ <<1, 2>> :> <<"c">> @@
  <<2, 0>> :> <<"a", "a">> @@ <<2, 1>> :> <<"a", "b">> @@ <<2, 2>> :> <<"a", "c">> @@
  <<2, 3>> :> <<"b", "b">> @@ <<2, 4>> :> <<"?", "b">> @@ <<2, 5>> :> <<"c", "?">>
MCFreq ==
  <<1, 0>> :> 7 @@ <<1, 1>> :> 6 @@ <<1, 2>> :> 7 @@
  <<2, 0>> :> 2 @@ <<2, 1>> :> 3 @@ <<2, 2>> :> 2 @@ <<2, 3>> :> 1 @@ <<2, 4>> :> 1 @@ <<2, 5>> :> 1
MCTie == [w \in MCWords |-> [p \in MCPhrases |-> 9 - p[2]]]

Request(queries, maxPhrases, freqMax) ==
  [valid |-> TRUE, queries |-> queries, maxPhrases |-> maxPhrases,
   wordsMin |-> 0, wordsMax |-> 0, freqMax |-> freqMax]

A == <<"a", Qmark>>
B == <<Qmark, "b">>
D == <<"d", Qmark>>

(* Requests with one frequency limit: parts of one list in three lengths,  *)
(* overlapping norm queries, plain ones, and one that fails to parse.      *)
SameLimit ==
  { Request(<<A>>, 1, 0), Request(<<A>>, 2, 0),
    Request(<<A, B, <<"c", "?">> >>, 3, 0),
    Request(<<D, <<"d", "c">> >>, 1, 0),
    [Request(<<>>, 1, 0) EXCEPT !.valid = FALSE] }

(* Requests for one norm query with and without a frequency limit.         *)
Limits ==
  { Request(<<A>>, 1, 0), Request(<<A>>, 3, 0), Request(<<A>>, 1, 2), Request(<<A>>, 2, 2),
    Request(<<A, <<"b", "b">> >>, 3, 2) }

MCWorkloads ==
  { [requests |-> SameLimit, searches |-> 4, failures |-> 0],
    [requests |-> Limits, searches |-> 3, failures |-> 1] }

(* The answers, also those for a lowered frequency limit, computed once.   *)
Answers == [o \in AskedOptions |-> [q \in WildcardQueries |-> Process(o, q)]]
MCQueryProcessor(o, q) == Answers[o][q]

(* What the properties of the search take for granted of the processor.    *)
ASSUME SearchAssumption == AnswersFromOneList /\ ListsAreComplete /\ KeysDiffer /\ FreqsFit

=============================================================================
