------------------------ MODULE QueryProcessingProofs -----------------------
(***************************************************************************)
(* Proofs about QueryProcessing, from those about the query processor in   *)
(* RetrievalProofs.                                                        *)
(***************************************************************************)
EXTENDS QueryProcessing, FiniteSetTheorems, TLAPS

(* The index does not change.                                              *)
Steady == freq' = freq /\ window' = window

(* What process() returns depends on the index only, not on the rest of    *)
(* the state.                                                              *)
LEMMA SteadyProcess ==
  ASSUME Steady
  PROVE  \A o, q : R!Process(o, q)' = R!Process(o, q)
<1>1. ASSUME NEW p PROVE R!RefFreq(p)' = R!RefFreq(p)
  BY DEF R!RefFreq, Steady
<1>2. ASSUME NEW p PROVE R!RefOf(p)' = R!RefOf(p)
  BY <1>1 DEF R!RefOf
<1>3. ASSUME NEW w, NEW p, NEW r PROVE R!ListedBefore(w, p, r)' = R!ListedBefore(w, p, r)
  BY <1>1 DEF R!ListedBefore
<1>4. ASSUME NEW len, NEW pos, NEW w PROVE R!Postlist(len, pos, w)' = R!Postlist(len, pos, w)
  BY <1>2, <1>3 DEF R!Postlist
<1>5. ASSUME NEW list PROVE R!IndexPostlist(list)' = R!IndexPostlist(list)
  BY DEF R!IndexPostlist, Steady
<1>6. ASSUME NEW list, NEW limit, NEW n PROVE R!Window(list, limit, n)' = R!Window(list, limit, n)
  BY <1>5 DEF R!Window, Steady
<1>7. ASSUME NEW words PROVE R!DictFreq(words)' = R!DictFreq(words)
  BY DEF R!DictFreq, Steady
<1>8. ASSUME NEW w PROVE R!UnitFreq(w)' = R!UnitFreq(w)
  <2> DEFINE chosen(D) == IF D = {} THEN 0 ELSE CHOOSE f \in D : TRUE
  <2>1. R!DictFreq(<<w>>)' = R!DictFreq(<<w>>)
    BY <1>7
  <2>2. R!UnitFreq(w) = chosen(R!DictFreq(<<w>>)) /\ R!UnitFreq(w)' = chosen(R!DictFreq(<<w>>)')
    BY DEF R!UnitFreq
  <2> HIDE DEF chosen
  <2> QED
    BY <2>1, <2>2
<1>9. ASSUME NEW w PROVE R!Pruning(w)' = R!Pruning(w)
  BY <1>8 DEF R!Pruning, Steady
<1>10. ASSUME NEW q PROVE R!UnitOrder(q)' = R!UnitOrder(q)
  BY <1>8 DEF R!UnitOrder
<1>11. ASSUME NEW q PROVE R!JumpinFreq(q)' = R!JumpinFreq(q)
  <2> DEFINE least(D) == IF D = {} THEN NoLimit ELSE CHOOSE f \in D : \A g \in D : f <= g
             freqs == UNION {R!DictFreq(s) : s \in R!LongestSubstrings(q)}
  <2>1. freqs' = freqs
    BY <1>7
  <2>2. R!JumpinFreq(q) = least(freqs) /\ R!JumpinFreq(q)' = least(freqs')
    BY DEF R!JumpinFreq
  <2> HIDE DEF least, freqs
  <2> QED
    BY <2>1, <2>2
<1>12. ASSUME NEW o, NEW q, NEW n, NEW s PROVE R!Round(o, q, n, s)' = R!Round(o, q, n, s)
  BY <1>4, <1>6, <1>9, <1>10, <1>11 DEF R!Round, R!Within
<1>13. ASSUME NEW o, NEW q, NEW n, NEW s PROVE R!After(o, q, n, s)' = R!After(o, q, n, s)
  BY <1>10, <1>12 DEF R!After
<1>14. ASSUME NEW o, NEW q PROVE R!Rounds(o, q)' = R!Rounds(o, q)
  BY <1>13 DEF R!Rounds
<1>15. ASSUME NEW o, NEW q PROVE R!Process(o, q)' = R!Process(o, q)
  BY <1>14 DEF R!Process
<1> QED
  BY <1>15

-----------------------------------------------------------------------------

EmptyAnswer == [refs |-> <<>>, unknown |-> {}]

(* The inductive invariant: the index is one that can be built, and the    *)
(* answer is what process() returns for the query.                         *)
IInv ==
  /\ freq \in [Phrases -> 1 .. NoLimit] /\ Monotone(freq)
  /\ window \in [step : Nat \ {0}, low : Nat, high : Nat]
  /\ R!IsOptions(options)
  /\ query \in Queries \cup {<<>>}
  /\ \/ query = <<>> /\ answer = EmptyAnswer
     \/ answer = R!Process(options, query)

(* It holds at the start.                                                  *)
LEMMA IInvInit == Init => IInv
<1> SUFFICES ASSUME Init PROVE IInv
  OBVIOUS
<1>1. freq \in [Phrases -> 1 .. NoLimit] /\ Monotone(freq)
  BY BoundsAssumption DEF Init
<1>2. window \in [step : Nat \ {0}, low : Nat, high : Nat]
  BY BoundsAssumption DEF Init
<1>3. R!IsOptions(options)
  BY LimitsAssumption DEF Init, R!IsOptions
<1> QED
  BY <1>1, <1>2, <1>3 DEF Init, IInv, EmptyAnswer

(* Every step keeps it.                                                    *)
LEMMA IInvNext == IInv /\ [Next]_vars => IInv'
<1> SUFFICES ASSUME IInv, [Next]_vars PROVE IInv'
  OBVIOUS
<1>1. ASSUME NEW o \in Options, NEW q \in Queries, Ask(o, q) PROVE IInv'
  <2>1. freq' = freq /\ window' = window /\ Steady /\ options' = o /\ query' = q
    BY <1>1 DEF Ask, Steady
  <2>2. o.count \in Nat /\ o.maxFreq \in Nat
    <3>1. NoLimit \in Nat /\ \A f \in Freqs : f \in Nat /\ Counts \subseteq Nat
      BY LimitsAssumption, BoundsAssumption
    <3>2. o.count \in Counts /\ (o.maxFreq \in Freqs \/ o.maxFreq = NoLimit)
      BY DEF Options
    <3> QED
      BY <3>1, <3>2, BoundsAssumption
  <2>3. R!IsOptions(options)'
    BY <2>1, <2>2 DEF R!IsOptions
  <2>4. answer' = R!Process(o, q)
    BY <1>1 DEF Ask
  <2>5. R!Process(options, query)' = R!Process(o, q)
    BY <2>1, SteadyProcess
  <2>6. Monotone(freq)'
    BY <2>1 DEF IInv, Monotone
  <2> QED
    BY <2>1, <2>3, <2>4, <2>5, <2>6 DEF IInv
<1>2. CASE UNCHANGED vars
  <2>1. Steady /\ UNCHANGED <<freq, window, options, query, answer>>
    BY <1>2 DEF vars, Steady
  <2>2. R!Process(options, query)' = R!Process(options, query)
    BY <2>1, SteadyProcess
  <2>3. R!IsOptions(options)'
    BY <2>1 DEF R!IsOptions, IInv
  <2>4. Monotone(freq)'
    BY <2>1 DEF IInv, Monotone
  <2> QED
    BY <2>1, <2>2, <2>3, <2>4 DEF IInv, EmptyAnswer
<1> QED
  BY <1>1, <1>2 DEF Next

(* So it holds always.                                                     *)
LEMMA IInvHolds == Spec => []IInv
BY IInvInit, IInvNext, PTL DEF Spec

-----------------------------------------------------------------------------
(* The answer in a state of the invariant.                                 *)

(* The instance has its own copies of the standard operators.              *)
LEMMA SameCardinality == \A S : Cardinality(S) = R!Cardinality(S)
BY DEF Cardinality, R!Cardinality

LEMMA SameFiniteness == \A S : IsFiniteSet(S) <=> R!IsFiniteSet(S)
BY DEF IsFiniteSet, R!IsFiniteSet

(* What the proofs about the query processor take for granted.             *)
LEMMA IndexFits ==
  ASSUME IInv
  PROVE  /\ R!WordsAssumption /\ R!PhrasesAssumption /\ R!FreqAssumption
         /\ R!TieAssumption /\ R!IndexAssumption
         /\ R!IsQuery(query) /\ R!IsOptions(options) /\ R!Monotone
<1>1. R!IsQuery(query)
  <2>1. query \in Queries \/ query = <<>>
    BY DEF IInv
  <2>2. <<>> \in Seq(Words \cup {Qmark})
    OBVIOUS
  <2> QED
    BY <2>1, <2>2, BoundsAssumption DEF R!IsQuery
<1>2. R!Monotone
  BY DEF IInv, Monotone, R!Monotone
<1>3. R!WordsAssumption
  BY PhrasesAssumption DEF R!WordsAssumption
<1>4. R!PhrasesAssumption
  BY PhrasesAssumption, SameFiniteness DEF R!PhrasesAssumption
<1>5. R!FreqAssumption
  BY LimitsAssumption DEF R!FreqAssumption, IInv
<1>6. R!TieAssumption
  BY TieAssumption DEF R!TieAssumption
<1>7. R!IndexAssumption
  BY LimitsAssumption DEF R!IndexAssumption, IInv
<1> QED
  BY <1>1, <1>2, <1>3, <1>4, <1>5, <1>6, <1>7 DEF IInv

(* Soundness of an answer of the processor.                                *)
LEMMA AnswerSound ==
  ASSUME IInv
  PROVE  /\ R!Range(answer.refs) \subseteq R!Candidates(options, query)
         /\ answer.refs \in Seq(R!AllRefs)
         /\ R!Cardinality(R!Range(answer.refs)) = Len(answer.refs)
         /\ R!Falling(answer.refs)
         /\ answer.unknown # {} => R!Matches(query) = {} /\ answer.refs = <<>>
<1>1. CASE answer = R!Process(options, query)
  BY <1>1, IndexFits, R!ProcessSound
<1>2. CASE answer = EmptyAnswer
  <2>1. answer.refs = <<>> /\ answer.unknown = {} /\ <<>> \in Seq(R!AllRefs) /\ Len(<<>>) = 0
    BY <1>2 DEF EmptyAnswer
  <2>2. R!Range(<<>>) = {} /\ R!Falling(<<>>)
    BY DEF R!Range, R!Falling
  <2>3. R!Range(answer.refs) = {} /\ R!Falling(answer.refs) /\ answer.refs \in Seq(R!AllRefs)
    BY <2>1, <2>2
  <2>4. R!Cardinality(R!Range(answer.refs)) = Len(answer.refs)
    BY <2>1, <2>3, FS_EmptySet, SameCardinality
  <2> QED
    BY <2>1, <2>3, <2>4
<1> QED
  BY <1>1, <1>2 DEF IInv

(* What an answer of the processor leaves out.                             *)
LEMMA AnswerLoses ==
  ASSUME IInv, answer = R!Process(options, query)
  PROVE  LET C == R!Candidates(options, query)
             S == R!Range(answer.refs)
         IN /\ ~ R!Indexed => \A c \in C \ S : R!Below(c, S)
            /\ \A c \in C \ S, r \in S : r.freq < c.freq =>
                 /\ R!Above(c, S)
                 /\ Len(R!UnitOrder(query)) = 1 => c.freq = R!Bound(options, query)
            /\ R!Whole /\ R!Units(query) # {} =>
                 Len(answer.refs) = R!Smaller(options.count, R!Cardinality(C))
BY IndexFits, R!ProcessLoses

(* The terms of the properties are those of the proofs.                    *)
LEMMA SameTerms ==
  ASSUME IInv
  PROVE  /\ Candidates = R!Candidates(options, query)
         /\ Indexed <=> R!Indexed
         /\ Pruned <=> R!Pruned
         /\ \A c, S : R!Above(c, S) => \A r \in S : r.freq <= c.freq
         /\ \A c, S : R!Below(c, S) => \A r \in S : c.freq <= r.freq
BY SameCardinality DEF Candidates, R!Candidates, Indexed, R!Indexed, Pruned, R!Pruned, R!Above, R!Below

(* Before the first query, nothing was returned.                           *)
LEMMA NothingYet ==
  ASSUME IInv, answer # R!Process(options, query)
  PROVE  Refs = {} /\ query = <<>>
BY DEF IInv, EmptyAnswer, Refs, R!Range

-----------------------------------------------------------------------------
(* The properties.                                                         *)

(* An answer has references only to phrases that the query matches, within *)
(* the frequency limit, each once, by descending frequency: for every      *)
(* collection, whatever part of the lists is read (process_()).            *)
THEOREM AnswersAreOrderedMatches == Spec => []Sound
<1>1. ASSUME IInv PROVE Sound
  <2>1. Candidates = R!Candidates(options, query)
    BY DEF Candidates, R!Candidates
  <2>2. R!Falling(answer.refs) =>
          \A i, j \in DOMAIN answer.refs : i < j => answer.refs[j].freq <= answer.refs[i].freq
    BY DEF R!Falling
  <2>3. \A i \in DOMAIN answer.refs : answer.refs[i].freq \in Int
    <3>1. answer.refs \in Seq(R!AllRefs)
      BY <1>1, AnswerSound
    <3>2. \A e \in R!AllRefs : e.freq \in Nat
      BY <1>1, IndexFits, R!RefFreqType
    <3>3. \A i \in DOMAIN answer.refs : answer.refs[i] \in R!AllRefs
      BY <3>1
    <3> QED
      BY <3>2, <3>3
  <2> QED
    BY <1>1, <2>1, <2>2, <2>3, AnswerSound, SameCardinality DEF Sound, Refs
<1> QED
  BY <1>1, IInvHolds, PTL

(* A word is unknown only where no phrase matches, and then nothing is     *)
(* returned: RawRefResult::merge() never meets unknown words.              *)
THEOREM UnknownWordsEndTheSearch == Spec => []UnknownMeansNoMatch
<1>1. ASSUME IInv PROVE UnknownMeansNoMatch
  BY <1>1, AnswerSound DEF UnknownMeansNoMatch
<1> QED
  BY <1>1, IInvHolds, PTL

(* Pruning shortens the tail of an answer only: where every list is read   *)
(* from its start, no phrase is left out that is more frequent than one    *)
(* that was returned, for every collection and every pruning limit         *)
(* (initialize_result_set(), intersect_result_set()).                      *)
THEOREM PruningShortensTheTail == Spec => []NoGaps
<1>1. ASSUME IInv PROVE NoGaps
  <2>1. CASE answer = R!Process(options, query)
    BY <1>1, <2>1, AnswerLoses, SameTerms DEF NoGaps, BestFirst, Refs
  <2>2. CASE answer # R!Process(options, query)
    BY <1>1, <2>2, NothingYet DEF NoGaps, BestFirst
  <2> QED
    BY <2>1, <2>2
<1> QED
  BY <1>1, IInvHolds, PTL

(* Starting to read in the middle of a list, with any step of the index,   *)
(* loses only phrases in front of all that are returned; a query with one  *)
(* word loses only phrases whose frequency is exactly the limit            *)
(* (search_(), process_()).                                                *)
THEOREM OnlyTheLimitIsLost == Spec => []LostOnlyAtLimit
<1>1. ASSUME IInv PROVE LostOnlyAtLimit
  <2>1. CASE answer = R!Process(options, query)
    <3>1. R!Bound(options, query) = R!Smaller(options.maxFreq, R!JumpinFreq(query))
      BY DEF R!Bound
    <3> QED
      BY <1>1, <2>1, <3>1, AnswerLoses, SameTerms DEF LostOnlyAtLimit, Refs
  <2>2. CASE answer # R!Process(options, query)
    BY <1>1, <2>2, NothingYet DEF LostOnlyAtLimit
  <2> QED
    BY <2>1, <2>2
<1> QED
  BY <1>1, IInvHolds, PTL

(* An answer from lists that are read as a whole is complete: the jump-in  *)
(* frequency, the order of the words and the frequency limits of the       *)
(* rounds lose nothing.  Only a query without a word has no list to read.  *)
THEOREM WholeListsGiveAllMatches ==
  ASSUME \A q \in Queries : \E i \in DOMAIN q : q[i] # Qmark
  PROVE  Spec => []Complete
<1>1. ASSUME IInv PROVE Complete
  <2> SUFFICES ASSUME query # <<>>, ~ Indexed, ~ Pruned PROVE IsComplete
    BY DEF Complete
  <2>1. answer = R!Process(options, query) /\ query \in Queries
    BY <1>1 DEF IInv
  <2>2. R!Units(query) # {}
    BY <2>1 DEF R!Units
  <2>3. R!Whole
    BY <1>1, SameTerms DEF R!Whole
  <2>4. Len(answer.refs) = R!Smaller(options.count, Cardinality(Candidates))
    BY <1>1, <2>1, <2>2, <2>3, AnswerLoses, SameTerms, SameCardinality
  <2>5. BestFirst
    BY <1>1, <2>1, AnswerLoses, SameTerms DEF BestFirst, Refs
  <2> QED
    BY <2>4, <2>5 DEF IsComplete
<1> QED
  BY <1>1, IInvHolds, PTL

=============================================================================
