---------------------------- MODULE RawRefResult ----------------------------
(***************************************************************************)
(* Lists of phrase references, the results of wildcard queries             *)
(* (model/RawRefResult): refs is the list, by descending frequency, and    *)
(* unknown the words that the query processor did not know.                *)
(***************************************************************************)
EXTENDS Lists

(* Ref::operator<: references with one frequency are equivalent.           *)
Before(a, b) == a.freq > b.freq

(* disjoint_with(): looks at the ends of the lists only.                   *)
DisjointWith(this, other) ==
  LET s == this.refs
      t == other.refs
  IN \/ s = <<>> \/ t = <<>>
     \/ IF Before(s[1], t[1]) THEN Before(s[Len(s)], t[1]) ELSE Before(t[Len(t)], s[1])

(* A fault: counts all of them.                                            *)
CountAll(s, n, f) == Cardinality({i \in DOMAIN s : s[i].freq = f})

(* How many elements of s up to position n have frequency f.               *)
CountUpTo(s, n, f) == Cardinality({i \in 1 .. n : s[i].freq = f})

(* std::set_union of two lists that are sorted by Before: the elements of  *)
(* the first, and of each group of equivalent elements of the second those *)
(* that exceed the number of equivalent ones in the first.                 *)
SetUnion(s, t) ==
  LET extra == {j \in DOMAIN t :
                  CountUpTo(t, j, t[j].freq) > CountUpTo(s, Len(s), t[j].freq)}
      items == {<<0, i>> : i \in DOMAIN s} \cup {<<1, j>> : j \in extra}
      at(x) == IF x[1] = 0 THEN s[x[2]] ELSE t[x[2]]
      less(x, y) == \/ Before(at(x), at(y))
                    \/ ~ Before(at(y), at(x)) /\ x[1] < y[1]
                    \/ ~ Before(at(y), at(x)) /\ x[1] = y[1] /\ x[2] < y[2]
      order == Ordered(items, {xy \in items \X items : less(xy[1], xy[2])})
  IN [n \in DOMAIN order |-> at(order[n])]

(* merge(). Its vec_sorted_filter_dups() works for no unknown words only;  *)
(* lists with unknown words are empty and so disjoint with every other     *)
(* (UnknownMeansNoMatch in QueryProcessing), and never merged.             *)
Merge(this, other) ==
  [refs |-> SetUnion(this.refs, other.refs), unknown |-> this.unknown \cup other.unknown]

=============================================================================
