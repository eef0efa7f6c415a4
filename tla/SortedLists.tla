----------------------------- MODULE SortedLists ----------------------------
(***************************************************************************)
(* What an inverted index promises: each key has the list of the values    *)
(* that were inserted with it, in the configured order, and a search       *)
(* returns the size or a part of one list, or nothing for a key without    *)
(* values.                                                                 *)
(***************************************************************************)
EXTENDS Integers, Sequences, TLC

CONSTANTS
  Keys, Values,
  Before(_, _, _),   \* the order of the values, by sorting
  Begins, Lengths    \* the parts that are searched

VARIABLES
  sorting,   \* "ascending", "descending", or "disabled": as inserted
  lists,     \* the list of each key
  open,      \* is the index built?
  answer     \* of the last search

vars == <<sorting, lists, open, answer>>

Ordered(list) ==
  IF sorting = "disabled" THEN list ELSE SortSeq(list, LAMBDA v, w : Before(sorting, v, w))

Init ==
  /\ sorting \in {"ascending", "descending", "disabled"}
  /\ lists = [k \in Keys |-> <<>>]
  /\ open = FALSE
  /\ answer = [kind |-> "none"]

Insert(k, v) ==
  /\ ~ open
  /\ lists' = [lists EXCEPT ![k] = Ordered(Append(@, v))]
  /\ UNCHANGED <<sorting, open, answer>>

Open ==
  /\ open' = TRUE
  /\ UNCHANGED <<sorting, lists, answer>>

Answer(reply) ==
  /\ open
  /\ answer' = reply
  /\ UNCHANGED <<sorting, lists, open>>

Part(list, begin, length) ==
  SubSeq(list, begin + 1, IF begin + length < Len(list) THEN begin + length ELSE Len(list))

SearchHead(k) ==
  Answer(IF lists[k] = <<>> THEN [kind |-> "null"] ELSE [kind |-> "head", count |-> Len(lists[k])])

SearchPostlist(k, begin, length) ==
  Answer(IF lists[k] = <<>> THEN [kind |-> "null"]
         ELSE [kind |-> "list", values |-> Part(lists[k], begin, length)])

Next ==
  \/ \E k \in Keys, v \in Values : Insert(k, v)
  \/ Open
  \/ \E k \in Keys : SearchHead(k)
  \/ \E k \in Keys, begin \in Begins, length \in Lengths : SearchPostlist(k, begin, length)

Spec == Init /\ [][Next]_vars

=============================================================================
