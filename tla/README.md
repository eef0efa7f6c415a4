# Netspeak in TLA+

Netspeak is a search engine for n-grams: a query such as `a ? problem` asks for
the most frequent phrases of a large collection that match it.  This directory
holds TLA+ models of the engine, of the programs that build its indexes and of
the servers around it, configurations for the model checker TLC, and proofs that
TLAPS checks.  Paths below are relative to `src/src/netspeak/` unless they start
with `src/` or `cli/` (`src/src/cli/`).

## The system

| Part | State | Operations | Works with |
|---|---|---|---|
| Search (`Netspeak.cpp`) | the result cache | `search()`: parse, normalize, answer each norm query, merge, read phrases | all parts of an index; called by the threads of the server at the same time |
| Result cache (`util/LfuCache.hpp`) | a hash map and a heap of priorities, counters, one mutex | `find`, `insert`, `update`, `erase`, `reserve`, `clear` | shared by all threads, locked per call |
| Query processing (`QueryProcessor.hpp`, `RetrievalStrategy3.hpp`) | index files, which do not change | `process()`: order words, read windows of their lists, intersect | two inverted files, phrase dictionary |
| Raw results (`model/RawRefResult`) | immutable lists of references | `disjoint_with`, `merge` | search, cache |
| Query parser (`src/src/antlr4/`) | a stack of open units, a flag | generated rules call a listener that builds a tree | normalizer |
| Query normalizer (`QueryNormalizer.cpp`) | none | turns a query tree into norm queries under a budget | parser, regex index, synonyms |
| Regex index (`regex/`) | vocabulary by frequency, a hash table of it | `match_query` with limits on time and matches | normalizer |
| Phrase dictionary (`bighashmap/`) | hash tables on disk, one `FILE` each | `Build`, `Get` | build, search, query processing |
| Phrase corpus (`PhraseCorpus.cpp`, `PhraseFile*`) | files of phrases, the vocabulary | `read_phrases`, `contains` | build, search |
| Inverted file (`invertedindex/`) | buckets, sorted runs, data files, a table of addresses | `Indexer::put`/`index`, `Searcher::search_postlist` | build, query processing |
| Index build (`indexing.cpp`, `cli/BuildCommand.cpp`) | the files of all stages | partition and merge duplicates, build five components | everything above reads its output |
| Service (`service/`, `cli/ServeCommand.cpp`, `cli/ProxyCommand.cpp`, `cli/StressCommand.cpp`) | corpora, stubs of other servers, log files, counters | route by corpus, balance by query, log, track; stress test | search, the network |
| Configuration (`Configuration.cpp`, `util/Config.cpp`, `util/PropertiesFormat.cpp`) | layers of key-value maps | `get_required`, extends chains, overrides | everything |
| Values and utilities (`value/`, `util/`) | none | values as bytes and as text, ids of words, JSON | everything |
| Protocol messages, shell, Python binding | - | - | - |

What makes them hard:

* **Threads.** The server answers requests in parallel.  They share the result
  cache, locked per call and not per request; the files of the inverted index,
  whose position is protected by a mutex; and the files of the phrase dictionary,
  whose position is not.
* **Stale reads.** A request looks a list up in the cache, works for a long time,
  and then merges what it found with what it had seen.
* **Partial reads.** Lists are read from the middle to a limit, and in pages.
* **Rewriting.** A query goes through a parser and four passes, each of which
  rewrites it under limits; a regex is simplified while it is built.
* **Stops and leftovers.** A build makes five components one after the other,
  merging makes partitions before; nothing tells a partial component from a
  complete one, and what a stopped command leaves is there for the next.
* **Failing reads and servers.** Reads throw in the corpus and in the dictionary
  and fail silently in the inverted index; a proxy's servers come and go.
* **Widths and edges.** Frequencies have 64 bits in the corpus and 32 in the
  index, estimates saturate in 64 bits, priorities and checksums have 32; pages,
  buckets, data files and tables have limits.

`PROJECT.json` lists the hazards at their lines, each with the properties that
watch it, or the reason why none does.

## Modules

| Module | Models |
|---|---|
| `Lists` | listings of finite sets in an order, sequences that are joined, running sums; shared helpers |
| `Ngrams` | phrases, frequencies, orders, dictionary, vocabulary, what a norm query matches |
| `Retrieval` (extends `Ngrams`) | the index of a collection and `QueryProcessor::process()` with `RetrievalStrategy3`, as operators |
| `QueryProcessing` | all queries against all small indexes |
| `RawRefResult` | `disjoint_with()` and `merge()`, with `std::set_union` |
| `LfuCache`, `LfuPolicy` | the cache, one action per method; what a cache with LFU policy promises (abstract) |
| `NetspeakSearch` (extends `Ngrams`, `RawRefResult`; instantiates `LfuCache`) | `search()` in several threads that share the cache |
| `SearchService` | what clients are promised (abstract) |
| `ExternalMap`, `Dictionary` | lookups of several threads in one file of a hash map; what it promises them (abstract) |
| `HashMaps` | building a hash map and reading it in memory |
| `QueryTrees`, `QueryParsing` | query trees; the rules of the grammar and the listener |
| `Normalizing` | saturating arithmetic; the passes of the normalizer as operators |
| `QueryNormalizer` (extends `QueryParsing`, `Normalizing`) | a query on its way from tokens to norm queries |
| `RegexQueries`, `RegexIndex` | regex queries, their simplification and bounds; matching with a limit and a timeout |
| `Postlists` | postlists as pages and streams, building, sorting, reading parts |
| `InvertedIndex` (extends `Postlists`, `HashMaps`), `SortedLists` | an index from the first record to a search; a map from keys to sorted lists (abstract) |
| `IndexBuild` (extends `HashMaps`) | files of n-grams and components of an index; the build and merge commands |
| `Configurations`, `NetspeakService` | configuration files; servers, proxy, logs and clients |
| `ValueTraits`, `StringIdMaps`, `Characters`, `PropertiesFormat`, `JsonWriter` | values as bytes and text, records, words and ids, texts, files of properties, JSON |
| `Algorithms` | the former and `RawRefResult` over all small inputs |
| `MC...` | instances for TLC |
| `...Proofs` | theorems about the module without the suffix |

**State and code.**

* `LfuCache`: `storage` and `policy` are `storage_` and `policy_`; the heap is
  abstracted to the set of its least entries, so that `remove_top_()` may take
  any of them.
* `NetspeakSearch`: the local variables of `process_wildcard_query_()` are per
  thread: `seen` is `cached_result`, `fresh` is `final_result`; `todo` and `raw`
  belong to `search_raw_()`.  An action is what happens between two uses of the
  cache's mutex: `ServeFromCache` and `AskProcessor` begin with `find()`, `Store`
  is the `update()` or `insert()`.  The query processor is a constant operator,
  with its contract as an assumption; the instance gives it `Process` of
  `Retrieval`, and TLC evaluates the assumption for it.
* `ExternalMap`: each call of the C library is a step, as it locks the `FILE` for
  itself, and `holder` is the mutex of the thread-safe instance.  The history
  variable `place` is where a thread's last step left the position, until a read
  of it begins elsewhere.
* `QueryNormalizer`: one action per pass; `query`, `simple` and `norms` are what
  the passes hand on, and `phase` is the next pass or the exception.  A regex
  search may end with any number of matches up to the best estimate, as its time
  is limited.
* `RegexIndex`: `words` and `table` are built at start; `MatchWord` is the body of
  the loop over the vocabulary, and `TimePasses` is the clock.
* `InvertedIndex`: `buckets` is the directory of bucket files, `current` the list
  that `SortedInput` collects, `files` and `table` are what `StorageWriter` has
  written, `maps` the hash map made of the table.  `InsertFails` is a record that
  `ManagedIndexer` drops.
* `IndexBuild`: `parts` and `copies` are the partition and merge directories,
  `index` the components in the output directories, each `None`, `Partial` or its
  contents; `step` is the next statement of the command.  `Stop` ends the command
  anywhere; `RemoveOut` and `RemoveMergeDir` are a user who cleans up.  The history
  variable `source` keeps the lines that an index was built from, all lines of its
  input, and whether these were merged in a directory that had been empty.
* `NetspeakService`: `frames` has the calls that handle a client's request,
  outermost first; their stages are the statements of `RequestLogger`, of the
  service and of the proxy.  `counter` and `log` are those of the loggers,
  `handled` is a history variable.

**Faults.** A definition whose comment begins with "A fault" or "Mutant of" is
not used by any specification.  It is a plausible bug in another definition, and
`PROJECT.json` says which property notices when it takes that definition's place.

## Abstractions

* A word is a string or a model value where its characters do not matter, else a
  sequence of characters.  A request of `NetspeakSearch` is the norm queries that
  it normalizes to, its limits, and whether it parses.
* `std::sort` leaves the order of equal elements open: `Tie` gives it, and the
  instances give different words different orders.  `std::unordered_map` and
  directories are read in any order.
* Values of postlists are sequences of 32-bit words; a data file is the sequence
  of its words.  The quantiles of the postlist index are exact fractions; the code
  compares sums of `double`.
* Pruning limits are the same in all requests (constants of `to_options()`).
* When a read of the inverted index fails, any word of the query is reported
  unknown; the code reports the one it was reading.
* A disturbed lookup in the dictionary, in `NetspeakSearch`, reports a phrase as
  missing, lowers the jump-in frequency or throws.  A wrong value with the right
  checksum is shown by `ExternalMap` only.
* Frequencies of collections are monotone: a phrase is not more frequent than a
  part of it.  The jump into a list relies on it and nothing checks it.
* Hash functions are constants; cmph gives each key of a table a slot of its own
  and other keys any.
* A component of an index is `Partial` from when it is begun until it ends;
  `Opens` says which components the service opens although they are partial.
* The tags that tell which unit of a query a word of a response answers, and the
  sources of units that they are made from, are left out.

## Runs

| Run | Question | Bounds |
|---|---|---|
| `LfuCache` | Does the cache implement the LFU policy, with containers that agree and statistics that account for its priorities? | 3 keys, 2 values, capacities 1 and 2, 5 finds, priorities below 8 |
| `QueryProcessing` | Which answers are complete, and what can be missing from others? | 7 phrases with frequencies 1 to 3 in all monotone ways, 10 queries, 4 limits on the frequency, 4 counts, 4 ways to read a list |
| `Search` | Is every request answered as if alone; with several frequency limits and a failing read, do cached lists and replies keep what they promise; does every request end? | 2 threads, 9 phrases, a cache of 1; 4 requests of 5 kinds with one limit, or 3 requests of 5 kinds with several and 1 failure |
| `DictionaryLocked` | With the mutex, do lookups answer as if alone? | 2 threads, 2 entries, 4 keys with all kinds of collisions, any number of lookups |
| `DictionaryShared` | Without it, is a lookup right that nobody moves the position for? | the same |
| `DictionaryRaces` | Without it, is a known key found? (violated) | the same |
| `QueryNormalizer` | Is a query parsed as written, do its norm queries mean what it means, and do estimates keep the budget? | all units alone and next to others, sequences of three, alternations, each token missing; 2 words, lengths 1 to 3, budgets of 5 and 40, 64-bit numbers of 14 bits |
| `InvertedIndex` | Does a search return what was inserted, in order, in any part? | 3 records of 3 keys, values of one and two words, every order of values; 1 failure |
| `RegexIndex` | Do all ways of matching find the first words, and does matching end in time? | 4 vocabularies of up to 5 words, all texts of up to 3 characters and 11 longer ones, limits 0, 1, 2 and 9 |
| `IndexBuild` | Do components agree, are n-grams merged once, and what opens after a stop? | 4 collections of up to three files, 2 commands, 1 stop, any clean-up |
| `NetspeakService` | Are indexes those of the files, answers from the right corpus, logs true, and all calls answered? | 3 servers, a proxy, 2 workers with 2 queries or 1 query and a visitor, 1 stop |
| `Algorithms` | Do merging, values, words, properties and JSON do what they promise? | all inputs up to the sizes in `Algorithms.cfg` |

**Why the bounds are enough.**  The cache has entries to evict while a third key
is new, a capacity that grows when full, ties of priorities, and more finds than
a tie needs; priorities do not wrap.  Three 3-grams that share words give lists with ties in every
position; the index has one entry for two of a list, so entries fall in, before
and behind groups of ties, and the limits prune within them.  Three requests are
what a cached list needs to be stored, merged and reused, a fourth one evicts it;
two threads interleave the lookup of one with the store of the other.  Two
entries and two threads are enough for one lookup of the dictionary to be
disturbed before each of its three reads, and for a read at the end of the file.
Lists are merged from all pairs of their parts, with up to five references of
three frequencies, so a part begins and ends in, before and behind groups of ties.
The `Search` run reads lists as a whole, so such parts do not occur in it.
The queries have every unit before and behind every kind of neighbour, so each
rule of the optimizer applies; products reach the width of estimates.  Limits of
the inverted index (pages of two words, buckets of one, files of nine, tables of
two keys) are crossed by three records, also exactly.  Words of the regex index
share slots, lie in the last slots of the table and have characters of two bytes;
the clock is looked at for every second word.  Two build commands and one stop
give each component a leftover of each kind.  Two servers share a corpus that a
third one has with another name, so the proxy starts, balances and refuses.

**Stopping.** Except for the cache and the dictionary, runs have a bound on what
their environment asks (searches, calls, commands, records) and do not check for
deadlock; that the program itself goes on is what `EveryRequestAnswered`,
`EveryCallAnswered`, `MatchingEnds` and `BuildsSucceed` say.

**Fairness.** `NetspeakSearch` assumes weak fairness of each thread's `Step`: a
thread in a request is scheduled until it is done, and its steps never wait for
another thread longer than for a cache operation.  `RegexIndex` and `IndexBuild`
assume that a process goes on unless it is stopped, `NetspeakService` that some
thread that handles a call is scheduled as long as there is one (calls are
finitely many), and that the stress command goes on.  Nothing is assumed of
clients, of the clock, of stops, or that a server is started again.
`ExternalMap` has no liveness property, because `std::mutex` promises no order
among the threads that wait.

## What the runs show

* With one limit on the frequency, the search implements `SearchService`: cached,
  merged and pruned lists give the same answers as the index.  With several
  limits it does not: a merged list is stored under the options of the last
  request and returned unfiltered on an exact hit (`Netspeak.cpp:457`).  Even so
  every list in the cache contains the answer for its options (`CacheFaithful`).
* The word `?` and the wildcard have the same cache key (`Netspeak.cpp:404`), and
  a read of the inverted index that fails is cached as an unknown word
  (`invertedindex/Searcher.hpp:82`).
* An answer from whole lists is complete.  Pruning only shortens its tail.  An
  index entry whose frequency is exactly the wanted one loses equally frequent
  entries in front of it (`RetrievalStrategy3.hpp:348`) and nothing else
  (`LostOnlyAtLimit`).
* A slice that is read from an index entry of exactly the limit may begin within a
  group of ties.  Another slice that has this group from its start is merged with
  it by frequency (`model/RawRefResult.cpp:41`), which loses references of the
  group or gives some twice, although the result is documented to contain
  "all phrases" of both (`model/RawRefResult.hpp:130`); a TODO at line 71 knows it.
  Of a list with two equally frequent references, the slices with the first and
  with the second one are merged to one of them.  `MergedOutsideTies` says exactly
  where this can be: other groups are merged whole, and slices that do not tear a
  group give a slice.
* The phrase dictionary is opened without the mutex and shared by the threads of
  the server (`PhraseDictionary.hpp:9`): `DictionaryRaces` loses a known key, and
  `NetspeakSearch` shows that a request then still ends, with phrases that match.
  Only a position that was moved in between makes a lookup wrong
  (`UndisplacedLookupsAnswered`).
* When the priority of a hot key wraps to 0, the cache drops it next, and `erase()`
  of another key can remove it instead; the containers agree all the same, because
  `erase()` takes what it removes from the heap (proved: `CacheConsistent`).
* Lists with unknown words are always empty (`UnknownMeansNoMatch`), so merging
  never meets the case in which `vec_sorted_filter_dups()` (`util/Vec.hpp:62`)
  erases one element instead of the tail.
* The normalizer adds nothing to a query.  It drops star queries whose words alone
  are fewer than the least length (`QueryNormalizer.cpp:1001`).  So the search for
  `* word *` with at least two words that `indexing.cpp:352` uses for words
  without a 1-gram has no norm queries.  Estimates are never too low, though
  `safe_mult()` misses overflows and a negative length wraps (line 710): a product
  that fits the budget and is not less than its factors has factors that fit it,
  too, so it is exact for any budget below 2^32.
* A lookup in the regex index tests the simplified query and enumerates the one
  before; both mean the same.  The probe for a word does not wrap at the end of
  the table (`DefaultRegexIndex.cpp:425`, phase "outside"), and the clock is not
  looked at for words that are rejected by length (line 543), even where it is due.
  `OvertimeBounded` leaves such vocabularies out; with one of them matching may go
  on to its end, though `regex/RegexIndex.hpp:24` says that it is aborted.
* A search in an inverted index returns what was inserted, for all pages, runs,
  buckets and files.  A failed record is still counted in the properties.
* A build that was stopped is taken up again in an empty directory only;
  `tmp` directories of an earlier merge make later ones fail
  (`indexing.cpp:433`); after a merge the index stays in `out/tmp-index`, because
  the rename to the directory that contains it fails (`cli/BuildCommand.cpp:77`);
  the last line of a file without newline is dropped by a build and kept by a
  merge (`PhraseFileParser`); a collection without 1-grams fails at its last
  stage; a vocabulary that was cut by a stop opens silently.
* A relative path that is inherited from a file in another directory is taken
  relative to the wrong one, so `IndexAsConfigured` leaves such paths out.  So it does
  with keys that a file sets twice: `util/Config.hpp:90` documents that reading a
  file overwrites existing keys, but the first value stays (`util/Config.cpp:47`),
  for a path as well as for the file to extend.  The run has a file with two paths
  of a component, which is opened at the first one.  All other
  parts of an index are opened where the documentation has them, and no more parts
  than it has.  A file that extends itself is opened without end
  (`Configuration.cpp:72`).
* The proxy does not forward tracking ids; its own log has them.

## Theorems

TLC checks small instances; these hold for all values of the constants that
satisfy the assumptions named in the modules.

* `CacheConsistent`: the containers of the cache agree and fit the capacity, all
  fields keep their types, also when priorities wrap.  Types alone are not
  inductive: `find()` raises the priority of a key that it met in the other
  container.  The invariant is the types together with the agreement.
* `CacheImplementsLfuPolicy`: with fewer finds than priorities, the cache
  implements `LfuPolicy`.  The invariant adds that a priority is at least 1 and
  at most one more than the number of finds, so that the priority 0 that
  `erase()` gives a key is the only least one.  Without that assumption the
  theorem is false: after a wrap, `erase()` can remove another key.
* `HitsAreAccountedFor`: each point that a priority has above the first was earned
  by a hit of its own, also when priorities wrap.  Inductive with the invariant of
  `CacheConsistent`: a hit adds at most one point, a wrap takes all points of its
  key, and every other step gives a key its old priority, none, 0 or 1.
* `OrderedListing`: `Ordered(X, R)` lists a finite set in a strict total order;
  the other modules use it for every sort.
* `UnionOfParts`: take two parts of one list that is sorted by frequency, each
  with the first elements of every frequency that it has elements of, which leaves
  out parts that begin within a group of ties.  `merge()`
  makes of them the part with the elements of both, without loss or duplicate,
  although it compares references by frequency and id and ties are not sorted by
  id.  The proof orders the elements of both parts as `std::set_union` reads them
  and shows that this is the order of the list.
* `TypesHold`: any number of threads that share the cache, any requests and any
  failing reads keep the types of `NetspeakSearch`.  The invariant `FitsInv` adds
  that the containers of the cache agree, and that what the cache and the threads
  hold for a query are references to phrases that match it.
* `AnswersAreSound`: from the same invariant, the phrases of a reply match a query
  of the request, are in order, without duplicates, and as few as asked for.  It
  needs `KeysDiffer`: two queries with one cache key get each other's phrases,
  which is possible if `?` is also a word (`Netspeak.cpp:404`).
* `CacheStaysFaithful`: while no read has failed, a cached list, pruned to the
  options it is stored with, is what the query processor answers.  The invariant
  `FaithInv` says of each list, in the cache or in the hands of a thread, that it
  is a part of the query's whole list as in `UnionOfParts` and contains what its
  options ask for, so that merging gives such a part again, also when
  another thread has replaced the list between the lookup and the store.
* `SearchImplementsService`: with one frequency limit for all requests and no
  failing read (`Undisturbed`), the search implements `SearchService`: threads
  that share the cache answer every request as if it were the only one.  The
  invariant `ServInv` adds that the phrases a thread has found cover the best
  answer of every query it is done with.
* The last two assume `AnswersFromOneList`: whatever the limits, the query
  processor selects from one sorted list.  The refinement also assumes that this
  list is complete (`ListsAreComplete`) and that frequencies fit into 32 bits
  (`FreqsFit`).  `MCNetspeakSearch` has TLC evaluate all of them for the query
  processor of `Retrieval`.
* `ProcessSound`, `ProcessLoses`, `ProcessWhole` (`RetrievalProofs`): what an
  answer of the query processor has, what it may lack, and what it is where lists
  are read as a whole, for any collection, any query, any step of the postlist
  index, any pruning limits and any order of equally frequent entries.  The last
  two need monotone frequencies (`Monotone`), without which the jump-in frequency
  loses matches.  The argument follows the loop of `process_()`: after `n` rounds
  either it is at its end with the answer (`Ended`), or the set to intersect holds
  phrases that have the first `n` words, what it lacks of the candidates is above
  or below all of it (`Spans`), and no candidate in it is beyond the limit of the
  next round (`Running`).  A round keeps this because its window starts at or in
  front of the first entry that is below the limit (`IndexBegin`, where only
  entries at the limit are skipped).  That the position of an entry of the index
  is well defined is itself an induction over the running sums.  Recursive
  functions are shown to be what their equations say by a lemma about iterated
  functions (`Iterates`).
* `AnswersAreOrderedMatches`, `UnknownWordsEndTheSearch`, `PruningShortensTheTail`,
  `OnlyTheLimitIsLost`, `WholeListsGiveAllMatches`: the five invariants of
  `QueryProcessing`, for every index that can be built.  The invariant `IInv` says
  that the index is one and that the answer is what `process()` returns for it;
  `SteadyProcess` shows that this depends on nothing else.  The last one is about
  queries with a word: one of wildcards only has no list and no answer.
* `ProcessorIsAsAssumed`, `WholeListsAnswerAlike`: the processor of `Retrieval`
  satisfies `ProcessAssumption`, and with lists that are read as a whole also
  `AnswersFromOneList` and `ListsAreComplete`.  So `IndexedSearchImplementsService`
  and `IndexedCacheStaysFaithful` are the theorems about the search without
  assumptions about its processor: what remains is that the lists are read as a
  whole, that frequencies are monotone and fit into 32 bits, that a wildcard query
  has a word, and that cache keys differ.
* `KnownKeysAreFound` and `LockedMapImplementsDictionary`: with the mutex, any
  number of threads get from any map the values of its keys, as if each lookup
  were atomic.  The invariant says that exactly the holder of the mutex is
  between the seek and the last read, that the file position is at its next
  field, and that the words it has are the first ones of the entry in the slot of
  its key.  From it, no read reaches the end of the file, and the last read is
  the `Answer` of the dictionary.
* `UndisplacedLookupsAreAnswered`: with or without the mutex, which the phrase
  dictionary does not take, a lookup whose reads all begin where its own steps left
  the position gets the answer of the dictionary and no error.  The invariant says
  of a thread that no other one has displaced so far that its place is that of its
  next field, and that the words it has are the first ones of the entry in the slot
  of its key; the position itself may be anywhere in the file.
* `AnswersComeFromCorpus`: for any number of servers, clients and calls, any
  configuration files and any order of starts and stops, a result is of an index
  of the corpus that was asked for, and at the proxy of a corpus that it lists by
  the same name and language.  The invariant `ServiceInv` says that a server runs
  with its own entries, that the stubs of the proxy are of such entries and
  compatible with each other, and that a client has no call, one, or one that
  waits at the proxy for another at a server that the proxy offers for the key.
  The step that matters is `Return`: the server has one entry for the key
  (`OneEntry`), the proxy has a stub of it, and stubs with one key agree in name
  and language, so that the entry is the one that is listed.
* `LogsTellAnswers`: under the same conditions, what `LogTellsAnswers` says of
  the logs.  The invariant `SiteOK` of a site relates its counter, its files, the
  calls that it has answered and those that are pending: the ids of lines and of
  pending calls are below the counter, no two calls share one, a call has its
  request line from the stage "serve" on, and its error line only when it is about
  to return with a failure.  It is stated on values, so that the lemmas about one
  log know nothing of the other sites.  Both theorems rest on
  `ServiceAssumption`: the proxy is not one of the servers, its command lines name
  servers, requests are of the two methods, hashes are natural numbers.
* `OpenedIndexIsComplete`: for any collections, any commands, stops, failures and
  removals in any order, an index that the service can open has a whole corpus and
  a whole dictionary.  The invariant `OrderInv` says that the components of every
  directory were begun in the order of `BuildNetspeak()`, each after those before
  it had ended (`InOrder`), and that a running build is at the first one that has
  not ended (`BuiltUpTo`), which holds at its start since the directory is empty
  then.  It assumes that the mark of a component that was begun (`Partial`) is not
  a function, as all contents are (`PartialIsApart`).
* `MergedLinesAreOnce`: for any collections and any sequence of commands, stops,
  failures and clean-ups, an index that was built from a merge directory that was
  empty has each n-gram of the input once, with the sum of its frequencies.  The
  invariant `MergeInv` says that, while a command merges, the partition files that
  are left and the merged files that are there are together the partition of its
  input (`PartlyMerged`), that the directory has exactly the merged files
  afterwards (`MergedInput`), and that every source marked as merged is made of such
  files.  The rest is about one input: all lines of a text are in the file of its
  hash, so that the sum over that file is the sum over all lines, and no text is in
  two files.
* `BuiltComponentsAgree`: `ComponentsAgree` for any collections, index steps, hash
  functions and limits, whatever was stopped and left behind before.  The invariant
  adds to those of the last two theorems that all files of the merge directories
  hold lines (`FilesInv`), and that each component that has ended holds what its
  stage makes of the lines the directory was built from, the dictionary only if all
  n-grams are different (`ContentInv`); as a component is made from those before
  it, `OrderInv` is needed for that.  Lemmas about the contents do the rest: the
  phrase with an id is at its place among the numbers of its length
  (`PhrasesFound`, `PhrasesCounted`), the lists have one place for each phrase with
  the key (`ListsCounted`), the vocabulary has the words by frequency
  (`UnigramsByFrequency`).
  Both theorems rest on `InputsAssumption`: inputs are sequences of files with
  lines, hash values are natural numbers, and there is a prime between the number
  of files and its double.  The last is Bertrand's postulate, true of every input
  with a file and not proved here.  The second one also assumes that the limits are
  natural numbers and that a table of the hash map has room for a record.
* `IndexesAreAsConfigured`: for any files that extend each other in any way, any
  overrides and any order of starts and stops, a running server has those parts of
  an index of which one of its files or overrides says where they are, and opens
  them there; a relative path that was inherited from another directory is left
  out, and so is one of a key that its file sets twice, or of any where a file sets
  twice what it extends: the files as they are read and as they are written agree
  on everything else (`LayersAgree`).  The part about states is in `ServiceInv`: a server runs with its own
  entries.  The rest is about one list of files.  Replacing home keeps the first
  layer that says where a component is (`SaidByLayer`, `LayersSay`).  Overrides are
  merged with paths that are canonical, which is why nothing happens to them when
  they are taken relative to a directory again (`CanonicalTwice`).  A home in an
  override or a file gives all components, so the second replacement adds nothing
  (`HomeInLayer`).  It assumes that no path is written as an empty one
  (`FilesGivePaths`): an empty path of a component is taken for the directory of the
  file, and an empty home for none.

Recursion over data is reasoned about in two ways: functions that are defined by
recursion are shown to exist as iterations of a function (`IterationExists`,
`Iterates`), and what they compute is shown by induction up to a number, for a
property that is given as a set (`UpTo`).  Both are proved from facts about finite
sets, as the provers cannot instantiate an induction scheme.

Only model-checked: the inverted index with its refinement, the normalizer, the
regex index, the formats.  The parser, the normalizer, regex queries, postlists
and formats are written with recursive operators over trees and texts, which the
provers cannot use.  Liveness properties are out of their reach, too.

## Not modelled

* **Generated code**: the protocol messages and the lexer.  The generated parser
  is modelled by its rules (`QueryParsing`).
* **Command line**: arguments, the interactive shell, all output; of the commands
  only build, serve, proxy and stress.
* **Search**: `properties()`, `to_tag()`, `set_response_phrase()` and highlighting.
* **Query trees**: equality, cloning and printing, backslashes in words.
* **Configuration**: typed values and their defaults.
* **Utilities**: thread pool, logging macros, string helpers, wrappers of system
  calls, accessors of tuples.
* **Python binding**: forwards to the regex index.
* **Libraries**: cmph (its hash function is a constant), gRPC (a call is answered
  or the server is unavailable), the C and C++ libraries.
* Words of the vocabulary with more than 65535 bytes, whose lengths
  `DefaultRegexIndex` stores in 16 bits; the 16-bit number of data files.
