------------------------------ MODULE Postlists -----------------------------
(***************************************************************************)
(* Postlists, in memory and on disk (Postlist, RawPostlist, Iterator,      *)
(* PostlistBuilder, PostlistSorter, PostlistReader of invertedindex/).     *)
(*                                                                         *)
(* A value is the sequence of 32-bit words that value_traits writes for    *)
(* it: the pairs of the phrase index have two, other types differ in size. *)
(* A file is the sequence of its words; a list in it begins with a head of *)
(* three.  A list is in memory as one page, or as one page at a time of a  *)
(* stream that it was swapped out to.                                      *)
(***************************************************************************)
EXTENDS Integers, SequencesExt, TLC

CONSTANTS
  PageSize,      \* swap_type::default_pagesize
  BuilderPage,   \* page_size_ of a PostlistBuilder
  SortMemory     \* max_bucket_size of PostlistSorter::sort()

Total(numbers) == FoldLeft(LAMBDA sum, n : sum + n, 0, numbers)
Smallest(a, b) == IF a < b THEN a ELSE b

(* Pairs and the other tuples are compared by their first element; values  *)
(* with the same one would come in any order.                              *)
ValueLess(v, w) == v[1] < w[1]

ValueBefore(sorting, v, w) ==
  IF sorting = "ascending" THEN ValueLess(v, w) ELSE ValueLess(w, v)

-----------------------------------------------------------------------------
(* Head: valueSize is 0 if the values differ in size.                      *)

HeadSize == 3
Head0(count, size, total) == [count |-> count, size |-> size, total |-> total]
HeadOf(sizes) ==
  Head0(Len(sizes),
        IF \A i \in DOMAIN sizes : sizes[i] = sizes[1] THEN sizes[1] ELSE 0,
        Total(sizes))

(* An iterator and its page: buffer holds the values begin + 1 .. end, cur *)
(* were read, offset is where the next one is in a list of variable size.  *)
(* The payload is the page, or what is left at the position of the stream. *)
Page(head, sizes, payload) ==
  [head |-> head, sizes |-> sizes, swapped |-> FALSE, pagesize |-> 0, payload |-> payload,
   pos |-> 0, buffer |-> payload, begin |-> 0, end |-> Len(sizes), cur |-> 0, offset |-> 0]
Swapped(head, sizes, payload, pagesize) ==
  [Page(head, sizes, payload) EXCEPT
     !.swapped = TRUE, !.pagesize = pagesize, !.buffer = <<>>, !.end = 0]

EmptyPostlist == Page(Head0(0, 0, 0), <<>>, <<>>)

ByteSize(it) == HeadSize + Len(it.payload) + (IF it.head.size = 0 THEN Len(it.sizes) ELSE 0)

(* The number of values of the next page: as many as fit, or in a list of  *)
(* variable size one more.                                                 *)
PageCount(it) ==
  LET rest == Len(it.sizes) - it.end
      Over(n) == Total(SubSeq(it.sizes, it.end + 1, it.end + n)) > it.pagesize
  IN IF it.head.size # 0 THEN Smallest(rest, it.pagesize \div it.head.size)
     ELSE CHOOSE n \in 0 .. rest :
            /\ n = rest \/ Over(n)
            /\ \A m \in 1 .. n - 1 : ~ Over(m)

NextPage(it, count, words) ==
  IF count = 0 THEN it
  ELSE [it EXCEPT !.buffer = SubSeq(it.payload, it.pos + 1, it.pos + words),
                  !.pos = it.pos + words, !.offset = 0,
                  !.begin = it.end, !.cur = it.end, !.end = it.end + count]
Swap(it) ==
  LET count == PageCount(it)
  IN NextPage(it, count, Total(SubSeq(it.sizes, it.end + 1, it.end + count)))

Rewind(it) ==
  IF it.swapped
  THEN [it EXCEPT !.cur = 0, !.offset = 0, !.pos = 0, !.begin = 0, !.end = 0, !.buffer = <<>>]
  ELSE [it EXCEPT !.cur = 0, !.offset = 0]

HasNext(it) == it.cur # Len(it.sizes)
Filled(it) == IF it.cur = it.end THEN Swap(it) ELSE it

(* next(): the value at the position in the page.                          *)
NextIn(page) ==
  LET at == IF page.head.size = 0 THEN page.offset
            ELSE (page.cur - page.begin) * page.head.size
      size == page.sizes[page.cur + 1]
  IN [value |-> SubSeq(page.buffer, at + 1, at + size),
      it |-> [page EXCEPT !.cur = @ + 1, !.offset = @ + size]]
Next1(it) == NextIn(Filled(it))

RECURSIVE ValuesFrom(_)
ValuesFrom(it) ==
  IF HasNext(it) THEN LET n == Next1(it) IN <<n.value>> \o ValuesFrom(n.it) ELSE <<>>

(* write(): the head, the sizes if they differ, and page after page.       *)
RECURSIVE PagesFrom(_)
PagesFrom(it) ==
  LET page == Swap(it)
  IN IF PageCount(it) = 0 THEN <<>> ELSE page.buffer \o PagesFrom(page)

Written(it) ==
  <<it.head.count, it.head.size, it.head.total>>
    \o (IF it.head.size = 0 THEN it.sizes ELSE <<>>)
    \o (IF it.swapped THEN PagesFrom(Rewind(it)) ELSE it.buffer)

-----------------------------------------------------------------------------
(* PostlistBuilder: once the values exceed its memory they go to a stream. *)
Built(values) ==
  LET sizes == [i \in DOMAIN values |-> Len(values[i])]
      head == HeadOf(sizes)
  IN CASE values = <<>> -> EmptyPostlist
       [] values # <<>> /\ head.total > BuilderPage ->
            Swapped(head, sizes, FlattenSeq(values), BuilderPage)
       [] OTHER -> Page(head, sizes, FlattenSeq(values))

(* PostlistSorter: in memory, or by sorted runs of equal length, which are *)
(* merged by taking the least first value until all runs are empty.        *)
RECURSIVE Scattered(_, _), Merged(_, _)
Scattered(values, size) ==
  IF values = <<>> THEN <<>>
  ELSE <<SubSeq(values, 1, Smallest(size, Len(values)))>>
         \o Scattered(SubSeq(values, size + 1, Len(values)), size)

Merged(sorting, runs) ==
  IF runs = <<>> THEN <<>>
  ELSE LET least == CHOOSE i \in DOMAIN runs :
                      /\ \A j \in DOMAIN runs :
                           ~ ValueBefore(sorting, runs[j][1], runs[i][1])
                      /\ \A j \in 1 .. i - 1 : ValueBefore(sorting, runs[i][1], runs[j][1])
       IN <<runs[least][1]>>
            \o Merged(sorting, IF Len(runs[least]) = 1 THEN RemoveAt(runs, least)
                               ELSE [runs EXCEPT ![least] = Tail(@)])

Sorted(sorting, it) ==
  LET values == ValuesFrom(Rewind(it))
      buckets == it.head.total \div SortMemory
      Sort(s) == SortSeq(s, LAMBDA v, w : ValueBefore(sorting, v, w))
      runs == Scattered(values, 1 + Len(values) \div buckets)
  IN CASE sorting = "disabled" -> it
       [] sorting # "disabled" /\ buckets = 0 -> Built(Sort(values))
       [] OTHER -> Built(Merged(sorting, [i \in DOMAIN runs |-> Sort(runs[i])]))

-----------------------------------------------------------------------------
(* Mutant of Read: the sizes are read from the first value on.             *)
ReadFirstSizes(file, offset, begin, length) ==
  LET head == Head0(file[offset + 1], file[offset + 2], file[offset + 3])
      first == Smallest(begin, head.count)
      count == Smallest(length, head.count - first)
      start == offset + HeadSize
      sizes == IF head.size = 0 THEN SubSeq(file, start + 1, start + count)
               ELSE [i \in 1 .. count |-> head.size]
      payload == IF head.size = 0
                 THEN start + head.count + Total(SubSeq(file, start + 1, start + first))
                 ELSE start + first * head.size
      words == SubSeq(file, payload + 1, payload + Total(sizes))
  IN Page(Head0(count, head.size, Total(sizes)), sizes, words)

(* PostlistReader: the head and length values after the first begin ones.  *)
Read(file, offset, begin, length) ==
  LET Words(from, n) == SubSeq(file, from + 1, from + n)
      head == Head0(file[offset + 1], file[offset + 2], file[offset + 3])
      first == Smallest(begin, head.count)
      count == Smallest(length, head.count - first)
      start == offset + HeadSize
      sizes == IF head.size = 0 THEN Words(start + first, count)
               ELSE [i \in 1 .. count |-> head.size]
      payload == IF head.size = 0
                 THEN start + head.count + Total(Words(start, first))
                 ELSE start + first * head.size
      words == Words(payload, Total(sizes))
      new == Head0(count, head.size, Total(sizes))
  IN IF Total(sizes) > PageSize THEN Swapped(new, sizes, words, PageSize)
     ELSE Page(new, sizes, words)

=============================================================================
