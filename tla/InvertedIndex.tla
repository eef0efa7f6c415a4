---------------------------- MODULE InvertedIndex ---------------------------
(***************************************************************************)
(* Building an inverted index from records and searching it (Indexer,      *)
(* UnsortedInput, SortedInput, StorageWriter, Searcher, StorageReader of   *)
(* invertedindex/).                                                        *)
(*                                                                         *)
(* Records that come in any order go to bucket files by a hash of their    *)
(* keys, which are replaced by more of them when they become too large.    *)
(* Then each bucket is grouped by keys and its lists are sorted and        *)
(* stored.  Records that come ordered by keys are collected and stored     *)
(* when the key changes.  Lists are appended to data files, which roll     *)
(* over at a limit; a table, a BigHashMap at last, has their addresses.    *)
(***************************************************************************)
EXTENDS Postlists, HashMaps, FiniteSets

CONSTANTS
  Keys,            \* keys that are searched, a set of strings
  Inserted,        \* the ones among them that records may have
  Values,          \* the values of records
  MaxBucketSize,   \* max_bucket_size_ of UnsortedInput
  MaxFileSize,     \* data_file_size_max
  Expected,        \* expected_record_count: 0 for unknown
  Begins, Lengths, \* bound: the parts of lists that are searched
  MaxRecords,      \* bound: records inserted
  MaxFailures      \* bound: records that cannot be written

VARIABLES
  sorting,    \* the configured order of values
  grouped,    \* key_sorting(): do the records come ordered by keys?
  phase,      \* "insert", "index" (buckets are processed) or "open"
  stats,      \* keys, values and size: IndexStrategy::stats_
  buckets,    \* the bucket files, a sequence of sequences of records
  current,    \* key_ and builder_ of SortedInput
  files,      \* the data files
  table,      \* table.txt: records of keys and addresses
  maps,       \* the BigHashMap made of it
  answer,     \* of the last search
  failures,   \* counts records that could not be written
  written     \* history: the records that could, in their order

input == <<sorting, grouped>>
storage == <<files, table>>
vars == <<sorting, grouped, phase, stats, buckets, current, files, table, maps, answer,
          failures, written>>

Record(k, v) == [key |-> k, value |-> v]

-----------------------------------------------------------------------------
(* StorageWriter::write() of an empty list does nothing.  A new file is    *)
(* begun for the first list and for one that does not fit; the counter of  *)
(* files has 16 bits, which do for 64 TB.                                  *)
Stored(store, k, it) ==
  LET last == Len(store.files)
      fresh == last = 0 \/ Len(store.files[last]) + ByteSize(it) > MaxFileSize
      number == IF fresh THEN last ELSE last - 1
      opened == IF fresh THEN Append(store.files, <<>>) ELSE store.files
  IN IF it.sizes = <<>> THEN store
     ELSE [files |-> [opened EXCEPT ![number + 1] = @ \o Written(it)],
           table |-> Append(store.table,
                            Record(k, [file |-> number, offset |-> Len(opened[number + 1])]))]

Store == [files |-> files, table |-> table]

-----------------------------------------------------------------------------
(* UnsortedInput                                                           *)

BucketOf(k, count) == 1 + (Hash(k) % count)

(* Mutant of Rehashed: records stay in the bucket they were in.            *)
RehashedInPlace(bs, count) ==
  [i \in 1 .. count |-> IF i \in DOMAIN bs THEN bs[i] ELSE <<>>]

(* rehash(): the records of all buckets, file by file, to new files.       *)
Rehashed(bs, count) ==
  LET records == FlattenSeq(bs)
  IN [i \in 1 .. count |-> SelectSeq(records, LAMBDA r : BucketOf(r.key, count) = i)]

(* The number of buckets for the expected size of all records.             *)
NewCount(st, old) ==
  LET size == (st.size * Expected) \div st.values
      doubled == 2 * old
      wanted == 1 + size \div MaxBucketSize
  IN IF Expected = 0 \/ wanted < doubled THEN doubled ELSE wanted

AfterInsert(st, bs) ==
  IF st.size \div Len(bs) > MaxBucketSize
  THEN Rehashed(bs, NextPrime(NewCount(st, Len(bs)))) ELSE bs

(* group(): the values of each key, in the order of the records.           *)
ValuesOf(records, k) ==
  LET own == SelectSeq(records, LAMBDA r : r.key = k)
  IN [i \in DOMAIN own |-> own[i].value]

(* store(): the lists of a bucket, in the order of an unordered_map.       *)
RECURSIVE StoredAll(_, _, _)
StoredAll(store, records, keys) ==
  IF keys = <<>> THEN store
  ELSE StoredAll(Stored(store, Head(keys), Sorted(sorting, Built(ValuesOf(records, Head(keys))))),
                 records, Tail(keys))

-----------------------------------------------------------------------------

NoKey == ""

Init ==
  /\ sorting \in {"ascending", "descending", "disabled"}
  /\ grouped \in BOOLEAN
  /\ phase = "insert"
  /\ stats = [keys |-> 0, values |-> 0, size |-> 0]
  /\ buckets = IF grouped THEN <<>> ELSE Rehashed(<<>>, NextPrime(2))
  /\ current = [key |-> NoKey, values |-> <<>>]
  /\ files = <<>>
  /\ table = <<>>
  /\ maps = <<>>
  /\ answer = [kind |-> "none"]
  /\ failures = 0
  /\ written = <<>>

(* IndexStrategy::insert()                                                 *)
Counted(v) == [stats EXCEPT !.values = @ + 1, !.size = @ + Len(v)]

InsertUnsorted(k, v) ==
  /\ phase = "insert" /\ ~ grouped
  /\ stats.values < MaxRecords
  /\ stats' = Counted(v)
  /\ LET added == [buckets EXCEPT ![BucketOf(k, Len(buckets))] = Append(@, Record(k, v))]
     IN buckets' = AfterInsert(stats', added)
  /\ written' = Append(written, Record(k, v))
  /\ UNCHANGED <<input, phase, current, storage, maps, answer, failures>>

(* The record cannot be written: ManagedIndexer logs it and goes on.       *)
InsertFails(k, v) ==
  /\ phase = "insert" /\ ~ grouped
  /\ stats.values < MaxRecords
  /\ failures < MaxFailures
  /\ failures' = failures + 1
  /\ stats' = Counted(v)
  /\ UNCHANGED <<input, phase, buckets, current, storage, maps, answer, written>>

(* write_current_postlist_(): the list of key_, and its key is counted.    *)
WithCurrent ==
  Stored(Store, current.key, Sorted(sorting, Built(current.values)))

(* Mutant of KeyCounted: a key is counted without values.                  *)
KeyCountedAlways(st) == [st EXCEPT !.keys = @ + 1]
KeyCounted(st) == [st EXCEPT !.keys = @ + (IF current.values = <<>> THEN 0 ELSE 1)]

(* The keys come in groups, as they do from table.txt of another index.    *)
InsertSorted(k, v) ==
  /\ phase = "insert" /\ grouped
  /\ stats.values < MaxRecords
  /\ k \notin KeysOf(table)
  /\ IF k = current.key
       THEN /\ current' = [current EXCEPT !.values = Append(@, v)]
            /\ stats' = Counted(v)
            /\ UNCHANGED storage
       ELSE /\ current' = [key |-> k, values |-> <<v>>]
            /\ stats' = KeyCounted(Counted(v))
            /\ files' = WithCurrent.files
            /\ table' = WithCurrent.table
  /\ written' = Append(written, Record(k, v))
  /\ UNCHANGED <<input, phase, buckets, maps, answer, failures>>

(* index(): closes the buckets.                                            *)
CloseBuckets ==
  /\ phase = "insert" /\ ~ grouped
  /\ phase' = "index"
  /\ UNCHANGED <<input, stats, buckets, current, storage, maps, answer, failures, written>>

(* The next bucket that the directory gives is grouped, sorted, stored and *)
(* removed.                                                                *)
ProcessBucket(i) ==
  /\ phase = "index"
  /\ i \in DOMAIN buckets
  /\ \E keys \in SetToSeqs(KeysOf(buckets[i])) :
       LET store == StoredAll(Store, buckets[i], keys)
       IN /\ files' = store.files
          /\ table' = store.table
          /\ stats' = [stats EXCEPT !.keys = @ + Len(keys)]
  /\ buckets' = RemoveAt(buckets, i)
  /\ UNCHANGED <<input, phase, current, maps, answer, failures, written>>

(* StorageWriter::close(): there is a table if a list was stored.          *)
BuiltTable(records) == IF records = <<>> THEN <<>> ELSE Build(records)

(* The index is built to its end and opened, with its table unless the     *)
(* properties say that there are no keys.                                  *)
Opened(records, properties) ==
  /\ CanBuild(records)
  /\ maps' = IF properties.keys = 0 THEN <<>> ELSE BuiltTable(records)
  /\ phase' = "open"

OpenUnsorted ==
  /\ phase = "index" /\ buckets = <<>>
  /\ Opened(table, stats)
  /\ UNCHANGED <<input, stats, buckets, current, storage, answer, failures, written>>

OpenSorted ==
  /\ phase = "insert" /\ grouped
  /\ files' = WithCurrent.files
  /\ table' = WithCurrent.table
  /\ stats' = KeyCounted(stats)
  /\ current' = [key |-> NoKey, values |-> <<>>]
  /\ Opened(table', stats')
  /\ UNCHANGED <<input, buckets, answer, failures, written>>

AddressOf(k) == Get(maps, k)
HeadAt(address) == files[address.file + 1][address.offset + 1]
PostlistAt(address, begin, length) ==
  Read(files[address.file + 1], address.offset, begin, length)

SearchHead(k) ==
  /\ phase = "open"
  /\ answer' = IF HasKey(maps, k)
               THEN [kind |-> "head", count |-> HeadAt(AddressOf(k))]
               ELSE [kind |-> "null"]
  /\ UNCHANGED <<input, phase, stats, buckets, current, storage, maps, failures, written>>

SearchPostlist(k, begin, length) ==
  /\ phase = "open"
  /\ answer' = IF HasKey(maps, k)
               THEN [kind |-> "list", values |-> ValuesFrom(PostlistAt(AddressOf(k), begin, length))]
               ELSE [kind |-> "null"]
  /\ UNCHANGED <<input, phase, stats, buckets, current, storage, maps, failures, written>>

Next ==
  \/ \E k \in Inserted, v \in Values :
       InsertUnsorted(k, v) \/ InsertFails(k, v) \/ InsertSorted(k, v)
  \/ CloseBuckets
  \/ \E i \in 1 .. Len(buckets) : ProcessBucket(i)
  \/ OpenUnsorted
  \/ OpenSorted
  \/ \E k \in Keys : SearchHead(k)
  \/ \E k \in Keys, begin \in Begins, length \in Lengths : SearchPostlist(k, begin, length)

Spec == Init /\ [][Next]_vars

-----------------------------------------------------------------------------

ListAt(address) == PostlistAt(address, 0, MaxRecords)

Abstract == INSTANCE SortedLists WITH
              Before <- ValueBefore,
              lists <- [k \in Keys |->
                          LET values == ValuesOf(written, k)
                          IN IF sorting = "disabled" THEN values
                             ELSE SortSeq(values, LAMBDA v, w : ValueBefore(sorting, v, w))],
              open <- phase = "open"

(* Rehashing, swapping, sorting by runs, rolling over, the table and the   *)
(* reading of parts change nothing of what an index promises: every search *)
(* returns the part of the list of its key that was asked for.             *)
ImplementsSortedLists == Abstract!Spec

(* Whatever was written, the buckets are small enough to be sorted in      *)
(* memory on average (UnsortedInput::rehash), no record was lost when they *)
(* were replaced, and each is with its key's other records.                *)
BucketsBounded ==
  phase = "insert" /\ ~ grouped =>
    /\ Total([i \in DOMAIN written |-> Len(written[i].value)]) \div Len(buckets) <= MaxBucketSize
    /\ Len(FlattenSeq(buckets)) = Len(written)
    /\ \A i \in DOMAIN buckets, k \in Inserted :
         k \in KeysOf(buckets[i]) => i = BucketOf(k, Len(buckets))

(* The properties of an index (Properties.hpp) agree with its contents:    *)
(* without its key_count the searcher does not open the table.             *)
StatisticsAgree ==
  phase = "open" =>
    LET lists == [i \in DOMAIN table |-> ListAt(table[i].value)]
    IN /\ stats.keys = Cardinality(KeysOf(table))
       /\ stats.values = failures + Total([i \in DOMAIN table |-> Len(lists[i].sizes)])
       /\ failures = 0 => stats.size = Total([i \in DOMAIN table |-> lists[i].head.total])

=============================================================================
