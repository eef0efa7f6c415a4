-------------------------- MODULE MCQueryProcessing -------------------------
(***************************************************************************)
(* Seven phrases over three words: two words that are 1-grams and one that *)
(* is not, a 2-gram that gives a jump-in frequency, and four 3-grams that  *)
(* most queries match several of.  The two words order ties oppositely.    *)
(* Lists are read as a whole, or from an entry of an index with one entry  *)
(* for two of the list, or up to a pruning limit, or both.                 *)
(***************************************************************************)
EXTENDS QueryProcessing

MCWords == {"a", "b", "c"}
MCPhrases == {<<1, 0>>, <<1, 1>>, <<2, 0>>, <<3, 0>>, <<3, 1>>, <<3, 2>>, <<3, 3>>}
MCText ==
  [p \in MCPhrases |->
     CASE p = <<1, 0>> -> <<"a">>
       [] p = <<1, 1>> -> <<"b">>
       [] p = <<2, 0>> -> <<"a", "b">>
       [] p = <<3, 0>> -> <<"a", "b", "b">>
       [] p = <<3, 1>> -> <<"a", "a", "b">>
       [] p = <<3, 2>> -> <<"a", "c", "b">>
       [] p = <<3, 3>> -> <<"a", "b", "a">>]
MCTie ==
  [w \in MCWords |-> [p \in MCPhrases |-> IF w = "b" THEN 3 - p[2] ELSE p[2]]]
MCWindows == {[step |-> 2, low |-> 7, high |-> 7], [step |-> 2, low |-> 2, high |-> 3],
              [step |-> 8, low |-> 7, high |-> 7], [step |-> 8, low |-> 2, high |-> 3]}
MCQueries ==
  { <<"a", "?", "?">>, <<"?", "?", "b">>, <<"a", "?", "b">>, <<"a", "b", "?">>,
    <<"?", "c", "?">>, <<"?", "c", "b">>, <<"?", "a", "?">>, <<"b", "?">>,
    <<"a", "?">>, <<"?", "b", "b">> }

=============================================================================
