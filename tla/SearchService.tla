---------------------------- MODULE SearchService ---------------------------
(***************************************************************************)
(* What the search engine promises its clients: every request is answered  *)
(* once, on its own merits.  A cache, other requests and the order in      *)
(* which the server works do not show.                                     *)
(***************************************************************************)
EXTENDS Ngrams

CONSTANTS None, Threads, Requests

VARIABLES
  request,    \* per thread: the last request
  response    \* the response to it, None while it is pending

(* The phrases that a request asks for.                                    *)
Candidates(r) ==
  {p \in UNION {Matches(q) : q \in Range(r.queries)} :
     r.freqMax = 0 \/ Freq[p] <= r.freqMax}

(* The sets of phrases that answer it: as many as it asks for, or all, and *)
(* none less frequent than one that is left out.                           *)
TopSets(r) ==
  {X \in SUBSET Candidates(r) :
     /\ Cardinality(X) = Smaller(r.maxPhrases, Cardinality(Candidates(r)))
     /\ \A p \in X, c \in Candidates(r) \ X : Freq[c] <= Freq[p]}

Results(r) ==
  [phrases : {Ordered(X, PhraseOrder) : X \in TopSets(r)},
   unknown : SUBSET ((UNION {Range(q) : q \in Range(r.queries)}) \ Vocabulary)]

Init ==
  /\ request = [t \in Threads |-> None]
  /\ response = [t \in Threads |-> None]

Free(t) == request[t] = None \/ response[t] # None

Accept(t, r) ==
  /\ Free(t) /\ r.valid
  /\ request' = [request EXCEPT ![t] = r]
  /\ response' = [response EXCEPT ![t] = None]

Refuse(t, r) ==
  /\ Free(t) /\ ~ r.valid
  /\ request' = [request EXCEPT ![t] = r]
  /\ response' = [response EXCEPT ![t] = [error |-> "INVALID_QUERY"]]

Answer(t) ==
  /\ ~ Free(t)
  /\ \E result \in Results(request[t]) : response' = [response EXCEPT ![t] = result]
  /\ UNCHANGED request

Fail(t) ==
  /\ ~ Free(t)
  /\ response' = [response EXCEPT ![t] = [error |-> "UNKNOWN"]]
  /\ UNCHANGED request

Next ==
  \E t \in Threads :
    Answer(t) \/ Fail(t) \/ \E r \in Requests : Accept(t, r) \/ Refuse(t, r)

Spec == Init /\ [][Next]_<<request, response>>

=============================================================================
