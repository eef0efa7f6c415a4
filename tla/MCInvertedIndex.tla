--------------------------- MODULE MCInvertedIndex --------------------------
(***************************************************************************)
(* Records of three keys with values of one or two words.  The keys "a"    *)
(* and "b" share a bucket while there are two buckets, "a" and "c" a map;  *)
(* "x" has no records.  Four words are two too many for one bucket, lists  *)
(* of three words are swapped out, those of four are sorted by runs, and a *)
(* data file has room for two short lists.                                 *)
(***************************************************************************)
EXTENDS InvertedIndex

MCHash(k) == CASE k = "a" -> 5 [] k = "b" -> 7 [] k = "c" -> 2 [] k = "x" -> 8
MCChecksum(k) == CASE k = "a" -> 10 [] k = "b" -> 20 [] k = "c" -> 30 [] k = "x" -> 40
MCValues == {<<1>>, <<2, 5>>}

=============================================================================
