-------------------------- MODULE MCNetspeakService -------------------------
(***************************************************************************)
(* Server s1 has two corpora: its files extend one in the same and one in  *)
(* another directory, which sets home and a relative path.  Server s2 has  *)
(* one of these corpora, too, from a file with a home of its own, and an   *)
(* override.  Server s3 has a corpus with the same key and another name,   *)
(* from a file that sets one path twice.                                   *)
(***************************************************************************)
EXTENDS NetspeakService

CONSTANTS s1, s2, s3, w1, w2, v1, q1

MCWorkDir == Path(<<"run">>)
Corpus(key, name) ==
  << <<"corpus.key", key>>, <<"corpus.name", name>>, <<"corpus.language", "en">> >>
Base == << <<"home", Relative(<<"idx">>)>>,
           <<"phrase-index", Relative(<<"..", "fast">>)>> >>
One == Corpus("k1", "n") \o
       << <<"extends", Relative(<<"base">>)>>, <<"phrase-dictionary", Relative(<<"dict">>)>> >>
Other == Corpus("k2", "m") \o << <<"extends", Relative(<<"..", "base">>)>> >>
Two == Corpus("k1", "n") \o
       << <<"extends", Relative(<<"one">>)>>, <<"home", Path(<<"mnt", "idx">>)>>,
          <<"hash-dictionary", Relative(<<"words">>)>> >>
Three == Corpus("k1", "x") \o
         << <<"home", Relative(<<"x">>)>>, <<"regex-vocabulary", Relative(<<"small">>)>>,
            <<"regex-vocabulary", Relative(<<"large">>)>> >>

MCFiles ==
  [f \in {Path(<<"srv", "base">>), Path(<<"srv", "one">>), Path(<<"srv", "sub", "other">>),
          Path(<<"srv", "two">>), Path(<<"srv", "three">>)} |->
     CASE Last(f.names) = "base" -> Base [] Last(f.names) = "one" -> One
       [] Last(f.names) = "other" -> Other [] Last(f.names) = "two" -> Two
       [] Last(f.names) = "three" -> Three]

MCServers == {s1, s2, s3}
MCConfigFiles ==
  s1 :> <<Path(<<"srv", "one">>), Path(<<"srv", "sub", "other">>)>>
  @@ s2 :> <<Path(<<"srv", "two">>)>> @@ s3 :> <<Path(<<"srv", "three">>)>>
MCOverrideOf ==
  s1 :> <<>> @@ s2 :> << <<"postlist-index", Relative(<<"tmp">>)>> >> @@ s3 :> <<>>
MCSourceLists == {<<s1, s2>>, <<s2, s3>>}
MCLogged == {Proxy, s2}

MCWorkers == {w1, w2}
MCVisitors == {v1}
MCTrackingIdOf == w1 :> <<"A", "0">> @@ w2 :> <<"b">> @@ v1 :> <<"x", "0">>
MCRequests == {GetCorpora, Search("k1", q1), Search("k3", q1)}
MCLoads == {[queries |-> 2, visitors |-> {}], [queries |-> 1, visitors |-> {v1}]}
MCQueries == {q1}
MCHash == q1 :> 5

=============================================================================
