-------------------------------- MODULE Lists -------------------------------
(***************************************************************************)
(* Sequences that are listings of finite sets.                             *)
(***************************************************************************)
EXTENDS Integers, Sequences, FiniteSets

Smaller(a, b) == IF a < b THEN a ELSE b

(* The relation R is a strict total order on the set X.                    *)
StrictlyOrders(R, X) ==
  /\ \A x \in X : <<x, x>> \notin R
  /\ \A x, y \in X : x # y => <<x, y>> \in R \/ <<y, x>> \in R
  /\ \A x, y, z \in X : <<x, y>> \in R /\ <<y, z>> \in R => <<x, z>> \in R

Rank(x, X, R) == Cardinality({y \in X : <<y, x>> \in R})

(* The members of the finite set X in the order R: the n-th is the one     *)
(* with n-1 members before it.                                             *)
Ordered(X, R) == [n \in 1 .. Cardinality(X) |-> CHOOSE x \in X : Rank(x, X, R) = n - 1]

(* The elements of the sequence s at the positions in I.                   *)
ElementsAt(s, I) ==
  LET order == Ordered(I, {ij \in I \X I : ij[1] < ij[2]})
  IN [n \in DOMAIN order |-> s[order[n]]]

(* The sequences of a numbered family, one after the other.                *)
Joined(lists) ==
  LET order == Ordered(DOMAIN lists, {ij \in (DOMAIN lists) \X (DOMAIN lists) : ij[1] < ij[2]})
      upTo[n \in 0 .. Len(order)] == IF n = 0 THEN <<>> ELSE upTo[n - 1] \o lists[order[n]]
  IN upTo[Len(order)]

(* The sums of the frequencies of the first 0, 1, .. elements of a list.   *)
RunningSum(list) ==
  LET sum[i \in 0 .. Len(list)] == IF i = 0 THEN 0 ELSE sum[i - 1] + list[i].freq
  IN sum

(* The first n elements of a sequence, or all of them if there are fewer.  *)
FirstN(s, n) == SubSeq(s, 1, Smaller(n, Len(s)))

=============================================================================
