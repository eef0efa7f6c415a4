-------------------------- MODULE MCQueryNormalizer -------------------------
(* Queries with every kind of unit, alone and next to each other.          *)
EXTENDS QueryNormalizer

MCLower(text) == IF text = "A" THEN "a" ELSE text
MCDictionaryFile ==
  << << <<"a">>, <<"a">>, <<"b">> >>, << <<"b">> >>, << <<"b", "a">>, <<"a">> >>, << <<"a">>, <<"b", "a">> >> >>
MCRegexMatches == ("r" :> <<"a", "b">>) @@ ("s" :> <<>>)
MCVocabulary == {"a", "b"}

Regex(r) == Leaf("REGEX", r)
Leaves == {Word("a"), Word("A"), QMark, Star, Leaf("PLUS", "+"), Regex("r"), Leaf("DICTSET", "a")}
Members == {Word("b"), Regex("r"), Concat(<<>>), Concat(<<Word("b"), Word("a")>>)}
Sets(tag) == {Tree(tag, kids) : kids \in SeqOf(Members, 2)}
LongSets == {Tree("ORDERSET", <<Word("a"), Word("b"), m>>) : m \in Members}
            \cup {Tree("OPTIONSET", <<Word("a"), Regex("s"), Regex("r")>>)}

Units == Leaves \cup Sets("OPTIONSET") \cup Sets("ORDERSET") \cup LongSets
Few == {Star, Regex("r"), Word("b"), Tree("OPTIONSET", <<Word("b")>>)}

Sequences == SeqOf(Units, 1) \cup {<<u, v>> : u \in Units, v \in Leaves \cup Few}
             \cup {<<v, u>> : u \in Units, v \in Few} \cup SeqOf(Few, 3)

MCQueries ==
  {Alternation(<<Concat(s)>>) : s \in Sequences}
  \cup {Alternation(<<Concat(s), Concat(t)>>) : s, t \in SeqOf(Few, 2)}
  \cup {Alternation(<<Concat(<<Word("a"), Word("b"), Star, Word("b"), v>>),
                      Concat(<<Regex("r"), w>>)>>) : v, w \in Few}

(* The tokens of a query, and those tokens without one of them.            *)
MCInputs ==
  {Written(q) : q \in MCQueries}
  \cup UNION {{RemoveAt(Written(Alternation(<<Concat(<<u, Star>>)>>)), i) :
                 i \in 1 .. Len(Written(u))} : u \in Units}

MCOptionSets ==
  {[minLength |-> lengths[1], maxLength |-> lengths[2], maxNormQueries |-> budget,
    maxRegexMatches |-> matches, allowRegex |-> matches > 0, lowerCase |-> budget # 5] :
     lengths \in {<<1, 3>>, <<2, 3>>}, budget \in {5, 40}, matches \in {0, 2, 3}}

=============================================================================
