--------------------------- MODULE NetspeakSearch ---------------------------
(***************************************************************************)
(* Netspeak::search() as the threads of the server run it: each thread     *)
(* takes a request through its norm queries, sharing only the result cache *)
(* (the index and the corpus do not change).                               *)
(*                                                                         *)
(* A norm query with wildcards looks in the cache, and when the cached     *)
(* references do not serve, asks the query processor and then stores what  *)
(* it got, merged with what it had seen.  The cache is locked for each     *)
(* lookup and each store, not between them: these are the steps.           *)
(*                                                                         *)
(* Reads can fail, and a lookup in the phrase dictionary can be disturbed  *)
(* by one of another thread (see ExternalMap).  A disturbed lookup reports *)
(* that a phrase is missing or a wrong frequency for a jump into a list,   *)
(* or it throws.  That a plain phrase gets a wrong id is not modelled.     *)
(*                                                                         *)
(* Abstracted: parsing and normalizing (a request is the norm queries it   *)
(* leads to); the pruning limits, which are the same in all requests; the  *)
(* norm query that each reference came from, which only decides how the    *)
(* words of a response are highlighted.                                    *)
(***************************************************************************)
EXTENDS Ngrams, RawRefResult

CONSTANTS
  None,             \* no item, no request, no response
  QmarkText,        \* the text "?", which is also how a wildcard is printed
  Threads,          \* threads of the server
  Workloads,        \* the requests that clients send, and two bounds: the
                    \* number of requests and that of failed and disturbed reads
  QueryProcessor(_, _),  \* its process() when no read fails
  CacheCapacity,    \* capacity given to reserve()
  PriorityLimit     \* see LfuCache

VARIABLES
  workload,   \* what the clients of this behavior send
  storage, policy, capacity, accCount, hitCount,   \* result_cache_
  pc,         \* per thread: "idle", "search" or "store"
  request,    \* its request
  todo,       \* norm queries that it has not processed yet
  seen,       \* cached_result
  fresh,      \* final_result
  raw,        \* the raw result of the norm queries processed so far
  response,   \* its last response
  searches,   \* number of requests so far
  failures    \* number of failed and disturbed reads so far

cacheVars == <<storage, policy, capacity, accCount, hitCount>>
vars == <<workload, cacheVars, pc, request, todo, seen, fresh, raw, response, searches, failures>>

-----------------------------------------------------------------------------

(* norm_query_to_key()                                                     *)
Key(q) == [i \in DOMAIN q |-> IF q[i] = Qmark THEN QmarkText ELSE q[i]]

(* SearchRequests after parsing and normalizing, and their fields.         *)
ASSUME WorkloadsAssumption ==
  /\ Workloads \subseteq
       [requests : SUBSET [valid : BOOLEAN, queries : Seq(Seq(Words \cup {Qmark})),
                           maxPhrases : Nat, wordsMin : Nat, wordsMax : Nat, freqMax : Nat],
        searches : Nat, failures : Nat]
  /\ \A w \in Workloads : None \notin w.requests
ASSUME CacheAssumption == CacheCapacity \in Nat /\ PriorityLimit \in Nat \ {0, 1}

Requests == UNION {w.requests : w \in Workloads}
MaxSearches == CHOOSE n \in {w.searches : w \in Workloads} : \A w \in Workloads : w.searches <= n
MaxReadFailures == workload.failures

Queries == UNION {Range(r.queries) : r \in Requests}
WildcardQueries == {q \in Queries : HasQmarks(q)}
QueryKeys == {Key(q) : q \in Queries}

MaxLength == IF Phrases = {} THEN 0
             ELSE CHOOSE n \in {p[1] : p \in Phrases} : \A p \in Phrases : p[1] <= n

(* to_options(): 0 means that a limit is not set.                          *)
ToOptions(r) ==
  [count   |-> r.maxPhrases,
   maxFreq |-> IF r.freqMax # 0 THEN r.freqMax ELSE NoLimit,
   lenMin  |-> IF r.wordsMin > 1 THEN r.wordsMin ELSE 1,
   lenMax  |-> IF r.wordsMax # 0 /\ r.wordsMax < MaxLength THEN r.wordsMax ELSE MaxLength]

(* References to the phrases, also with the length of the phrase.          *)
Refs == {RefOf(p) : p \in Phrases}
LengthRefs == {<<p[1], RefOf(p)>> : p \in Phrases}
Options == {ToOptions(r) : r \in Requests}
Results == [refs : Seq(Refs), unknown : SUBSET Words]
CacheItems == [options : Options, result : Results]
Responses ==
  [phrases : Seq(Phrases), unknown : SUBSET Words] \cup [error : {"INVALID_QUERY", "UNKNOWN"}]

Cache == INSTANCE LfuCache
           WITH Keys <- QueryKeys, Values <- CacheItems,
                Capacities <- {CacheCapacity}, MaxAccesses <- MaxSearches

(* A fault: the number of phrases is not compared.                         *)
PrunableFromShorter(superset, o) ==
  /\ superset.maxFreq = o.maxFreq
  /\ superset.lenMin <= o.lenMin
  /\ superset.lenMax >= o.lenMax

(* is_prunable_from()                                                      *)
IsPrunableFrom(superset, o) ==
  /\ superset.maxFreq = o.maxFreq
  /\ superset.count >= o.count
  /\ superset.lenMin <= o.lenMin
  /\ superset.lenMax >= o.lenMax

(* prune()                                                                 *)
Prune(result, o) ==
  [refs |-> FirstN(ElementsAt(result.refs, {i \in DOMAIN result.refs :
                                              result.refs[i].freq <= o.maxFreq}),
                   o.count),
   unknown |-> result.unknown]

(* The options that the query processor is asked with: those of requests,  *)
(* and those that a disturbed lookup makes of them; with the last ones it  *)
(* leaves nothing out.                                                     *)
Unlimited == [count |-> Cardinality(Phrases), maxFreq |-> NoLimit,
              lenMin |-> 1, lenMax |-> MaxLength]
AskedOptions ==
  Options \cup {[o EXCEPT !.maxFreq = Freq[p]] : o \in Options, p \in Phrases} \cup {Unlimited}

(* What this module assumes of the query processor: each reference of an   *)
(* answer is that of a phrase that the query matches, and words that it    *)
(* reports are words of the query.                                         *)
ASSUME ProcessAssumption ==
  \A q \in WildcardQueries, o \in AskedOptions :
    LET answer == QueryProcessor(o, q)
    IN /\ answer \in Results
       /\ Range(answer.refs) \subseteq {RefOf(p) : p \in Matches(q)}
       /\ answer.unknown \subseteq Range(q) \ {Qmark}
ASSUME NoneAssumption == None \notin CacheItems \cup Results \cup Responses \cup Int

(* Every answer to a query is the part of one list that the options select *)
(* as where the processor reads the lists of all words as a whole.         *)
AnswersFromOneList ==
  \A q \in WildcardQueries :
    LET everything == QueryProcessor(Unlimited, q)
        list == everything.refs
    IN /\ \A i, j \in DOMAIN list : i < j => ~ Before(list[j], list[i]) /\ list[i] # list[j]
       /\ \A o \in Options : QueryProcessor(o, q).refs = Prune(everything, o).refs

(* That list has all phrases that the query matches.                       *)
ListsAreComplete ==
  \A q \in WildcardQueries :
    {RefOf(p) : p \in Matches(q)} \subseteq Range(QueryProcessor(Unlimited, q).refs)

(* No two wildcard queries have one key: none has "?" also as a word.      *)
KeysDiffer == \A q, s \in WildcardQueries : Key(q) = Key(s) => q = s

(* Frequencies fit into the 32 bits that the index has for them.           *)
FreqsFit == \A p \in Phrases : Freq[p] < RefFreqLimit

-----------------------------------------------------------------------------
(* Raw results.  A reference becomes a phrase id by the length of the norm *)
(* query that it was found for.                                            *)

EmptyRaw == [refs |-> {}, phrases |-> {}, unknown |-> {}]

(* process_non_wildcard_query_()                                           *)
PlainResult(o, q, found) ==
  IF o.count > 0 /\ found # {}
    THEN [phrases |-> {p \in found : Freq[p] <= o.maxFreq}, unknown |-> {}]
    ELSE [phrases |-> {}, unknown |-> Range(q) \ Vocabulary]

PhraseOf(x) == <<x[1], x[2].id>>

(* ref_::operator<                                                         *)
RefLess(x, y) ==
  x[2].freq > y[2].freq \/ (x[2].freq = y[2].freq /\ IdLess(PhraseOf(x), PhraseOf(y)))

(* The phrases of the best k references.                                   *)
TopPhrases(refs, k) ==
  {PhraseOf(x) : x \in {x \in refs : Cardinality({y \in refs : RefLess(y, x)}) < k}}

(* A fault: the plain phrases first, then the others.                      *)
PhrasesThenRefs(found, k) ==
  LET top == TopPhrases(found.refs, k)
  IN FirstN(Ordered(found.phrases, PhraseOrder) \o Ordered(top \ found.phrases, PhraseOrder), k)

(* merge_raw_result_(): the best k references, then the best k phrases of  *)
(* these and the plain ones.                                               *)
MergeRaw(found, k) ==
  LET top == TopPhrases(found.refs, k)
  IN FirstN(Ordered(top \cup found.phrases, PhraseOrder), k)

-----------------------------------------------------------------------------

Init ==
  /\ workload \in Workloads
  /\ storage = [k \in QueryKeys |-> None]
  /\ policy = [k \in QueryKeys |-> None]
  /\ capacity = CacheCapacity
  /\ accCount = 0
  /\ hitCount = 0
  /\ pc = [t \in Threads |-> "idle"]
  /\ request = [t \in Threads |-> None]
  /\ todo = [t \in Threads |-> <<>>]
  /\ seen = [t \in Threads |-> None]
  /\ fresh = [t \in Threads |-> None]
  /\ raw = [t \in Threads |-> EmptyRaw]
  /\ response = [t \in Threads |-> None]
  /\ searches = 0
  /\ failures = 0

(* A request arrives, is parsed, normalized and turned into options.       *)
Start(t, r) ==
  /\ pc[t] = "idle"
  /\ searches < workload.searches
  /\ searches' = searches + 1
  /\ request' = [request EXCEPT ![t] = r]
  /\ IF r.valid
       THEN /\ pc' = [pc EXCEPT ![t] = "search"]
            /\ todo' = [todo EXCEPT ![t] = r.queries]
            /\ raw' = [raw EXCEPT ![t] = EmptyRaw]
            /\ response' = [response EXCEPT ![t] = None]
       ELSE /\ response' = [response EXCEPT ![t] = [error |-> "INVALID_QUERY"]]
            /\ UNCHANGED <<pc, todo, raw>>
  /\ UNCHANGED <<workload, cacheVars, seen, fresh, failures>>

Searching(t) == pc[t] = "search" /\ todo[t] # <<>>
Query(t) == Head(todo[t])
OptionsOf(t) == ToOptions(request[t])

(* What the cached item serves to the options: nothing, the list as it is  *)
(* stored, or a part of it.                                                *)
Served(item, o) ==
  CASE item = None -> None
    [] item # None /\ item.options = o -> item.result
    [] OTHER -> IF IsPrunableFrom(item.options, o) THEN Prune(item.result, o) ELSE None

(* A fault: references with the length of the list that is left.           *)
DoneByRest(t, result) ==
  /\ raw' = [raw EXCEPT
       ![t].refs = @ \cup {<<Len(todo[t]), ref>> : ref \in Range(result.refs)},
       ![t].unknown = @ \cup result.unknown]
  /\ todo' = [todo EXCEPT ![t] = Tail(@)]

(* The next norm query is done with: its result is added, the next is due. *)
Done(t, result) ==
  /\ raw' = [raw EXCEPT
       ![t].refs = @ \cup {<<Len(Query(t)), ref>> : ref \in Range(result.refs)},
       ![t].unknown = @ \cup result.unknown]
  /\ todo' = [todo EXCEPT ![t] = Tail(@)]

(* process_wildcard_query_() up to its return from the cache.              *)
ServeFromCache(t) ==
  /\ Searching(t) /\ HasQmarks(Query(t))
  /\ Cache!Find(Key(Query(t)))
  /\ LET served == Served(storage[Key(Query(t))], OptionsOf(t))
     IN served # None /\ Done(t, served)
  /\ UNCHANGED <<pc, request, seen, fresh, response, searches, failures>>

(* Another thread uses the phrase dictionary during a lookup of this one.  *)
Disturbed(t) == \E u \in Threads \ {t} : pc[u] # "idle"

(* A read fails: Searcher catches the exception and returns no postlist,   *)
(* which is taken for a word that has none.                                *)
ReadFailed(w) == [refs |-> <<>>, unknown |-> {w}]

(* process_wildcard_query_() up to the answer of the query processor.  A   *)
(* disturbed lookup lowers the jump-in frequency.                          *)
AskProcessor(t) ==
  /\ Searching(t) /\ HasQmarks(Query(t))
  /\ Cache!Find(Key(Query(t)))
  /\ Served(storage[Key(Query(t))], OptionsOf(t)) = None
  /\ seen' = [seen EXCEPT ![t] = storage[Key(Query(t))]]
  /\ \/ /\ fresh' = [fresh EXCEPT ![t] = QueryProcessor(OptionsOf(t), Query(t))]
        /\ UNCHANGED failures
     \/ /\ failures < MaxReadFailures
        /\ failures' = failures + 1
        /\ \E w \in Range(Query(t)) \ {Qmark} :
             fresh' = [fresh EXCEPT ![t] = ReadFailed(w)]
     \/ /\ failures < MaxReadFailures /\ Disturbed(t)
        /\ failures' = failures + 1
        /\ \E f \in {Freq[p] : p \in Phrases} :
             /\ f <= OptionsOf(t).maxFreq
             /\ fresh' = [fresh EXCEPT ![t] =
                           QueryProcessor([OptionsOf(t) EXCEPT !.maxFreq = f], Query(t))]
  /\ pc' = [pc EXCEPT ![t] = "store"]
  /\ UNCHANGED <<request, todo, raw, response, searches>>

(* Does the answer extend the item that was seen?                          *)
Extends(t) == seen[t] # None /\ ~ DisjointWith(fresh[t], seen[t].result)

(* A fault: the new options with the old list.                             *)
OldItem(t) ==
  [options |-> OptionsOf(t), result |-> IF Extends(t) THEN seen[t].result ELSE fresh[t]]

NewItem(t) ==
  [options |-> OptionsOf(t),
   result  |-> IF Extends(t) THEN Merge(fresh[t], seen[t].result) ELSE fresh[t]]

(* process_wildcard_query_() from there.  The item that was seen may not   *)
(* be in the cache any more.                                               *)
Store(t) ==
  /\ pc[t] = "store"
  /\ IF Extends(t) THEN Cache!Update(Key(Query(t)), NewItem(t))
                   ELSE Cache!Insert(Key(Query(t)), NewItem(t))
  /\ Done(t, fresh[t])
  /\ seen' = [seen EXCEPT ![t] = None]
  /\ fresh' = [fresh EXCEPT ![t] = None]
  /\ pc' = [pc EXCEPT ![t] = "search"]
  /\ UNCHANGED <<request, response, searches, failures>>

(* A norm query without wildcards.                                         *)
LookUpPhrase(t) ==
  /\ Searching(t) /\ ~ HasQmarks(Query(t))
  /\ \E found \in {WithText(Key(Query(t))), {}} :
       /\ \/ found = WithText(Key(Query(t))) /\ UNCHANGED failures
          \/ /\ failures < MaxReadFailures /\ Disturbed(t) /\ OptionsOf(t).count > 0
             /\ found # WithText(Key(Query(t)))
             /\ failures' = failures + 1
       /\ LET result == PlainResult(OptionsOf(t), Query(t), found)
          IN raw' = [raw EXCEPT ![t].phrases = @ \cup result.phrases,
                                ![t].unknown = @ \cup result.unknown]
  /\ todo' = [todo EXCEPT ![t] = Tail(@)]
  /\ UNCHANGED <<cacheVars, pc, request, seen, fresh, response, searches>>

(* A lookup in the phrase dictionary throws; search() reports the error,   *)
(* and what the norm queries before this one found is lost.                *)
LookUpThrows(t) ==
  /\ Searching(t) /\ failures < MaxReadFailures
  /\ failures' = failures + 1
  /\ IF HasQmarks(Query(t))
       THEN /\ Cache!Find(Key(Query(t)))
            /\ Served(storage[Key(Query(t))], OptionsOf(t)) = None
            /\ Range(Query(t)) # {Qmark}
       ELSE OptionsOf(t).count > 0 /\ UNCHANGED cacheVars
  /\ response' = [response EXCEPT ![t] = [error |-> "UNKNOWN"]]
  /\ pc' = [pc EXCEPT ![t] = "idle"]
  /\ UNCHANGED <<request, todo, seen, fresh, raw, searches>>

(* All norm queries are processed: the phrases are read from the corpus    *)
(* and sent.  A read that fails here is reported as an error.              *)
Respond(t) ==
  /\ pc[t] = "search" /\ todo[t] = <<>>
  /\ pc' = [pc EXCEPT ![t] = "idle"]
  /\ \/ /\ response' = [response EXCEPT ![t] =
             [phrases |-> MergeRaw(raw[t], request[t].maxPhrases),
              unknown |-> raw[t].unknown \ Vocabulary]]
        /\ UNCHANGED failures
     \/ /\ failures < MaxReadFailures
        /\ raw[t].refs # {} /\ request[t].maxPhrases > 0
        /\ response' = [response EXCEPT ![t] = [error |-> "UNKNOWN"]]
        /\ failures' = failures + 1
  /\ UNCHANGED <<cacheVars, request, todo, seen, fresh, raw, searches>>

Step(t) ==
  /\ \/ ServeFromCache(t) \/ AskProcessor(t) \/ Store(t)
     \/ LookUpPhrase(t) \/ LookUpThrows(t) \/ Respond(t)
  /\ UNCHANGED workload

Next == \E t \in Threads : Step(t) \/ \E r \in workload.requests : Start(t, r)

(* A thread that handles a request is scheduled until it is done.          *)
Fairness == \A t \in Threads : WF_vars(Step(t))

Spec == Init /\ [][Next]_vars /\ Fairness

-----------------------------------------------------------------------------

TypeOK ==
  /\ workload \in Workloads
  /\ Cache!TypeOK
  /\ pc \in [Threads -> {"idle", "search", "store"}]
  /\ request \in [Threads -> Requests \cup {None}]
  /\ todo \in [Threads -> Seq(Queries)]
  /\ seen \in [Threads -> CacheItems \cup {None}]
  /\ fresh \in [Threads -> Results \cup {None}]
  /\ raw \in [Threads -> [refs : SUBSET LengthRefs, phrases : SUBSET Phrases,
                          unknown : SUBSET Words]]
  /\ response \in [Threads -> Responses \cup {None}]
  /\ searches \in 0 .. workload.searches /\ failures \in 0 .. MaxReadFailures

(* Whatever was merged into it by which threads, a cached list contains    *)
(* what its options ask for, as long as no read failed: pruned to them it  *)
(* is the answer that the query processor would give.  It is sorted and    *)
(* has nothing twice.                                                      *)
CacheFaithful ==
  \A q \in Queries :
    failures = 0 /\ HasQmarks(q) /\ storage[Key(q)] # None =>
      LET item == storage[Key(q)]
          refs == item.result.refs
      IN /\ Prune(item.result, item.options).refs = QueryProcessor(item.options, q).refs
         /\ \A i, j \in DOMAIN refs : i < j => ~ Before(refs[j], refs[i]) /\ refs[i] # refs[j]

(* The phrases of a response, for a request that it answers.               *)
Answered(t) == pc[t] = "idle" /\ response[t] # None /\ "phrases" \in DOMAIN response[t]

(* Every phrase of a response matches a norm query of the request, no      *)
(* phrase is there twice, they are in their natural order and not more     *)
(* than asked for.                                                         *)
RepliesSound ==
  \A t \in Threads : Answered(t) =>
    LET phrases == response[t].phrases
    IN /\ \A p \in Range(phrases) : \E q \in Range(request[t].queries) : p \in Matches(q)
       /\ \A i, j \in DOMAIN phrases : i < j => PhraseLess(phrases[i], phrases[j])
       /\ Len(phrases) <= request[t].maxPhrases

Undisturbed ==
  /\ MaxReadFailures = 0
  /\ \A r, s \in workload.requests : r.freqMax = s.freqMax

(* The service that clients see: see SearchService.  Only where no read    *)
(* fails and all requests have one frequency limit: otherwise a cached     *)
(* list may lack what another limit asks for.                              *)
Service == INSTANCE SearchService
             WITH request  <- IF Undisturbed THEN request  ELSE [t \in Threads |-> None],
                  response <- IF Undisturbed THEN response ELSE [t \in Threads |-> None]

(* When no read fails and all requests have one frequency limit, threads   *)
(* that share the cache answer every request as if it were the only one.   *)
ImplementsService == Service!Spec

(* A thread gets to the end of every request, whatever the others do.      *)
EveryRequestAnswered == \A t \in Threads : pc[t] # "idle" ~> pc[t] = "idle"

=============================================================================
