----------------------- MODULE NetspeakServiceProofs -----------------------
(***************************************************************************)
(* Theorems about the servers and the proxy of NetspeakService, for any    *)
(* number of them, of clients and of calls: an answer comes from an index  *)
(* of the corpus that was asked for, the logs tell what was answered, and  *)
(* the parts of an index are where its configuration has them.             *)
(***************************************************************************)
EXTENDS NetspeakService, ListsProofs, SequenceTheorems, TLAPS

(* The values that occur in calls.                                         *)
Entries == UNION {{EntriesOf[s][i] : i \in DOMAIN EntriesOf[s]} : s \in CanStart}
KnownRequests == Requests \cup {GetCorpora} \cup {Search(KeyOf(e), q) : e \in Entries, q \in Queries}
Users ==
  {NoUser, GetTrackingId(NoUser)}
    \cup {GetTrackingId(TrackingIdOf[c]) : c \in Clients}
    \cup {GetTrackingId(SetTrackingId(TrackingIdOf[c])) : c \in Clients}
Stages == {"receive", "log", "serve", "wait", "error", "return"}
Answers ==
  {None, Unavailable, Error("INVALID_CORPUS"), Error("INTERNAL_ERROR")}
    \cup {Result(e) : e \in Entries} \cup {List(corpora) : corpora \in SUBSET {e.corpus : e \in Entries}}
Calls ==
  [site : Sites, request : KnownRequests, user : Users, id : Nat \cup {None},
   stage : Stages, answer : Answers]

(* A server runs with its own entries.                                     *)
ServersOK ==
  /\ DOMAIN instances = Servers
  /\ \A s \in Servers : instances[s] # None => s \in CanStart /\ instances[s] = EntriesOf[s]

(* The stubs of the proxy are those of servers that could start, with the  *)
(* corpora that they have, and no two of them have one key for two names.  *)
StubsOf(s) == {[corpus |-> EntriesOf[s][i].corpus, server |-> s] : i \in DOMAIN EntriesOf[s]}
AllStubs == UNION {StubsOf(s) : s \in CanStart}
Compatible(stubs) == \A i, j \in DOMAIN stubs : AreCompatible(stubs[i].corpus, stubs[j].corpus)
ProxyOK ==
  proxy # None =>
    /\ proxy \in [sources : Seq(Servers), asked : Nat, stubs : Seq(AllStubs)]
    /\ proxy.asked <= Len(proxy.sources)
    /\ Compatible(proxy.stubs)

(* The sites that run, and what the proxy offers: a server for a key.      *)
Running == {site \in Sites : Runs(site)}
Offered == {<<stub.server, stub.corpus["corpus.key"]>> : stub \in ToSet(proxy.stubs)}

(* A call is at a site that runs, and its answer comes from the corpus.    *)
IsResult(answer) == answer # None /\ answer.kind = "result"
AnswerOK(call, listed) ==
  IF call.site = Proxy
  THEN call.answer.entry.corpus["corpus.key"] = call.request.corpus /\ call.answer.entry.corpus \in listed
  ELSE \E i \in DOMAIN EntriesOf[call.site] :
         call.answer.entry = EntriesOf[call.site][i] /\ KeyOf(call.answer.entry) = call.request.corpus
CallOK(call, running, listed) ==
  /\ call \in Calls /\ call.site \in running
  /\ IsResult(call.answer) => AnswerOK(call, listed)

(* The calls for a client: one, or one at the proxy that waits for another *)
(* at a server that it offers.                                             *)
Forwarded(first, second, offered) ==
  /\ first.site = Proxy /\ first.stage = "wait"
  /\ second.site \in Servers /\ second.request = first.request
  /\ <<second.site, second.request.corpus>> \in offered
FrameOK(calls, running, listed, offered) ==
  /\ calls \in Seq(Calls) /\ Len(calls) <= 2
  /\ \A i \in DOMAIN calls : CallOK(calls[i], running, listed)
  /\ calls # <<>> => calls[Len(calls)].stage # "wait"
  /\ Len(calls) = 2 => Forwarded(calls[1], calls[2], offered)

FramesOK ==
  /\ DOMAIN frames = Clients
  /\ \A c \in Clients : FrameOK(frames[c], Running, ListedCorpora, Offered)

CounterOK == counter \in [Sites -> Nat]

ServiceInv == ServersOK /\ ProxyOK /\ FramesOK /\ CounterOK

-----------------------------------------------------------------------------
(* Corpora *)

(* A server has one entry for each of its files.                           *)
LEMMA EntriesOfType ==
  ASSUME NEW s \in Servers
  PROVE  /\ DOMAIN EntriesOf[s] = 1 .. Len(ConfigFiles[s]) /\ Len(ConfigFiles[s]) \in Nat
         /\ \A i \in DOMAIN EntriesOf[s] :
              EntriesOf[s][i] = EntryOf(Load(ConfigFiles[s][i], OverrideOf[s]))
BY ServiceAssumption DEF EntriesOf

(* Corpora that agree in key, name and language are equal.                 *)
LEMMA CompatibleEqual ==
  ASSUME NEW e \in Entries, NEW f \in Entries,
         AreCompatible(e.corpus, f.corpus), KeyOf(e) = KeyOf(f)
  PROVE  e.corpus = f.corpus
<1>1. ASSUME NEW g \in Entries
      PROVE  DOMAIN g.corpus = Metadata /\ g.corpus = [m \in Metadata |-> g.corpus[m]]
  <2>1. CanStart \subseteq Servers
    BY DEF CanStart
  <2>2. PICK s \in CanStart : \E i \in DOMAIN EntriesOf[s] : g = EntriesOf[s][i]
    BY DEF Entries
  <2>3. PICK i \in DOMAIN EntriesOf[s] : g = EntryOf(Load(ConfigFiles[s][i], OverrideOf[s]))
    BY <2>1, <2>2, EntriesOfType
  <2> QED
    BY <2>3 DEF EntryOf
<1>2. \A m \in Metadata : e.corpus[m] = f.corpus[m]
  BY DEF Metadata, AreCompatible, KeyOf
<1> QED
  BY <1>1, <1>2

(* A server has one entry for a key.                                       *)
LEMMA OneEntry ==
  ASSUME NEW s \in CanStart, NEW i \in DOMAIN EntriesOf[s], NEW j \in DOMAIN EntriesOf[s],
         KeyOf(EntriesOf[s][i]) = KeyOf(EntriesOf[s][j])
  PROVE  i = j
BY DEF CanStart, IsInjective

(* The corpus of a stub is that of an entry.                               *)
LEMMA StubCorpus ==
  ASSUME NEW stub \in AllStubs
  PROVE  stub.server \in CanStart /\ \E e \in Entries : stub.corpus = e.corpus
<1>1. PICK s \in CanStart : stub \in StubsOf(s)
  BY DEF AllStubs
<1>2. PICK i \in DOMAIN EntriesOf[s] : stub = [corpus |-> EntriesOf[s][i].corpus, server |-> s]
  BY <1>1 DEF StubsOf
<1> QED
  BY <1>2 DEF Entries

(* What a server with a stub answers is a corpus that the proxy lists.     *)
LEMMA ForwardedIsListed ==
  ASSUME ProxyOK, proxy # None,
         NEW s \in CanStart, NEW i \in DOMAIN EntriesOf[s],
         <<s, KeyOf(EntriesOf[s][i])>> \in Offered
  PROVE  EntriesOf[s][i].corpus \in ListedCorpora
<1> DEFINE key == KeyOf(EntriesOf[s][i])
           at == {k \in DOMAIN proxy.stubs : proxy.stubs[k].corpus["corpus.key"] = key}
<1>1. proxy.stubs \in Seq(AllStubs) /\ Compatible(proxy.stubs)
  BY DEF ProxyOK
<1>2. PICK k \in at : proxy.stubs[k].server = s
  BY DEF Offered, ToSet
<1>3. PICK j \in DOMAIN EntriesOf[s] : proxy.stubs[k].corpus = EntriesOf[s][j].corpus
  BY <1>1, <1>2 DEF AllStubs, StubsOf
<1>4. proxy.stubs[k].corpus = EntriesOf[s][i].corpus
  BY <1>2, <1>3, OneEntry DEF KeyOf
<1>5. /\ StubsFor(key) \in Seq(AllStubs) /\ StubsFor(key) # <<>>
      /\ \A n \in DOMAIN StubsFor(key) : \E l \in at : StubsFor(key)[n] = proxy.stubs[l]
  <2>1. StubsFor(key) = ElementsAt(proxy.stubs, at)
    BY DEF StubsFor
  <2> HIDE DEF at
  <2>2. at \in SUBSET (DOMAIN proxy.stubs)
    BY DEF at
  <2> QED
    BY <1>1, <1>2, <2>1, <2>2, ElementsAtType
<1>6. PICK l \in at : StubsFor(key)[1] = proxy.stubs[l]
  BY <1>5
<1>7. PICK e \in Entries : proxy.stubs[l].corpus = e.corpus
  BY <1>1, <1>6 DEF AllStubs, StubsOf, Entries
<1>8. proxy.stubs[l].corpus = EntriesOf[s][i].corpus
  <2>1. AreCompatible(e.corpus, EntriesOf[s][i].corpus)
    BY <1>1, <1>2, <1>4, <1>6, <1>7 DEF Compatible
  <2>2. KeyOf(e) = KeyOf(EntriesOf[s][i])
    BY <1>6, <1>7 DEF KeyOf
  <2>3. EntriesOf[s][i] \in Entries
    BY DEF Entries
  <2> QED
    BY <1>7, <2>1, <2>2, <2>3, CompatibleEqual
<1>9. \E stub \in ToSet(proxy.stubs) : stub.corpus["corpus.key"] = key
  BY <1>2 DEF ToSet
<1> QED
  BY <1>6, <1>8, <1>9 DEF ListedCorpora

(* What the proxy lists are corpora of entries, and a stub is chosen of    *)
(* those with the key.                                                     *)
LEMMA StubsForSeq ==
  ASSUME ProxyOK, proxy # None, NEW key
  PROVE  StubsFor(key) \in Seq(AllStubs)
<1> DEFINE at == {k \in DOMAIN proxy.stubs : proxy.stubs[k].corpus["corpus.key"] = key}
<1>1. proxy.stubs \in Seq(AllStubs)
  BY DEF ProxyOK
<1>2. StubsFor(key) = ElementsAt(proxy.stubs, at) /\ at \in SUBSET (DOMAIN proxy.stubs)
  BY DEF StubsFor
<1> HIDE DEF at
<1> QED
  BY <1>1, <1>2, ElementsAtType

(* The stubs for a key are stubs of the proxy with that key.               *)
LEMMA StubsForType ==
  ASSUME ProxyOK, proxy # None, NEW key, NEW n \in DOMAIN StubsFor(key)
  PROVE  /\ StubsFor(key)[n] \in AllStubs
         /\ StubsFor(key)[n].corpus["corpus.key"] = key
         /\ \E k \in DOMAIN proxy.stubs : proxy.stubs[k] = StubsFor(key)[n]
<1> DEFINE at == {k \in DOMAIN proxy.stubs : proxy.stubs[k].corpus["corpus.key"] = key}
<1>1. proxy.stubs \in Seq(AllStubs)
  BY DEF ProxyOK
<1>2. StubsFor(key) = ElementsAt(proxy.stubs, at)
  BY DEF StubsFor
<1>3. at \in SUBSET (DOMAIN proxy.stubs)
  OBVIOUS
<1> HIDE DEF at
<1>4. PICK l \in at : StubsFor(key)[n] = proxy.stubs[l]
  BY <1>1, <1>2, <1>3, ElementsAtType
<1>5. l \in DOMAIN proxy.stubs /\ proxy.stubs[l].corpus["corpus.key"] = key
  BY DEF at
<1>6. proxy.stubs[l] \in AllStubs
  BY <1>1, <1>5
<1> QED
  BY <1>4, <1>5, <1>6

(* The corpora that the proxy lists are those of entries.                  *)
LEMMA ListedType ==
  ASSUME ProxyOK, proxy # None
  PROVE  ListedCorpora \in SUBSET {e.corpus : e \in Entries}
<1> SUFFICES ASSUME NEW corpus \in ListedCorpora
             PROVE  \E e \in Entries : corpus = e.corpus
  OBVIOUS
<1>1. proxy.stubs \in Seq(AllStubs)
  BY DEF ProxyOK
<1>2. PICK stub \in ToSet(proxy.stubs) : corpus = StubsFor(stub.corpus["corpus.key"])[1].corpus
  BY DEF ListedCorpora
<1> DEFINE key == stub.corpus["corpus.key"]
           at  == {k \in DOMAIN proxy.stubs : proxy.stubs[k].corpus["corpus.key"] = key}
<1>3. at # {} /\ at \in SUBSET (DOMAIN proxy.stubs)
  BY <1>2 DEF ToSet
<1>4. StubsFor(key) = ElementsAt(proxy.stubs, at)
  BY DEF StubsFor
<1> HIDE DEF at
<1>5. StubsFor(key) \in Seq(AllStubs) /\ StubsFor(key) # <<>>
  BY <1>1, <1>3, <1>4, ElementsAtType
<1>6. StubsFor(key)[1] \in AllStubs
  BY <1>5
<1> QED
  BY <1>2, <1>6, StubCorpus

-----------------------------------------------------------------------------
(* Calls *)

(* What a call is when it arrives.                                         *)
LEMMA CallType ==
  ASSUME NEW site \in Sites, NEW request \in KnownRequests, NEW id, GetTrackingId(id) \in Users
  PROVE  /\ Call(site, request, id) \in Calls
         /\ Call(site, request, id).site = site /\ Call(site, request, id).request = request
         /\ Call(site, request, id).answer = None /\ Call(site, request, id).stage # "wait"
         /\ Call(site, request, id).stage \in {"receive", "serve"}
BY DEF Call, Calls, Stages, Answers

(* An answer changes the answer and the stage of a call only.              *)
LEMMA AnsweredType ==
  ASSUME NEW call \in Calls, NEW answer \in Answers
  PROVE  /\ Answered(call, answer) \in Calls
         /\ Answered(call, answer).site = call.site /\ Answered(call, answer).request = call.request
         /\ Answered(call, answer).user = call.user /\ Answered(call, answer).id = call.id
         /\ Answered(call, answer).answer = answer
         /\ Answered(call, answer).stage \in {"error", "return"}
BY DEF Answered, Calls, Stages

(* The calls of a client are none, one, or two.                            *)
LEMMA FrameShape ==
  ASSUME NEW running, NEW listed, NEW offered, NEW calls, FrameOK(calls, running, listed, offered)
  PROVE  \/ calls = <<>>
         \/ Len(calls) = 1 /\ calls = <<calls[1]>> /\ CallOK(calls[1], running, listed)
              /\ calls[1].stage # "wait"
         \/ Len(calls) = 2 /\ calls = <<calls[1], calls[2]>>
              /\ CallOK(calls[1], running, listed) /\ CallOK(calls[2], running, listed)
              /\ calls[2].stage # "wait" /\ Forwarded(calls[1], calls[2], offered)
<1>1. calls \in Seq(Calls) /\ Len(calls) <= 2
  BY DEF FrameOK
<1>2. CASE calls # <<>>
  <2>1. Len(calls) \in Nat \ {0}
    BY <1>1, <1>2, EmptySeq
  <2>2. \A n \in Nat \ {0} : n <= 2 => n \in {1, 2}
    OBVIOUS
  <2>3. Len(calls) \in {1, 2}
    BY <1>1, <2>1, <2>2
  <2>4. CASE Len(calls) = 1
    BY <1>1, <1>2, <2>4 DEF FrameOK
  <2>5. CASE Len(calls) = 2
    BY <1>1, <1>2, <2>5 DEF FrameOK
  <2> QED
    BY <2>3, <2>4, <2>5
<1> QED
  BY <1>2

(* And the other way round.                                                *)
LEMMA FrameOfNone ==
  ASSUME NEW running, NEW listed, NEW offered
  PROVE  FrameOK(<<>>, running, listed, offered)
BY DEF FrameOK

(* One call.                                                               *)
LEMMA FrameOfOne ==
  ASSUME NEW running, NEW listed, NEW offered,
         NEW call, CallOK(call, running, listed), call.stage # "wait"
  PROVE  FrameOK(<<call>>, running, listed, offered)
<1>1. <<call>> \in Seq(Calls) /\ Len(<<call>>) = 1 /\ <<call>>[1] = call /\ DOMAIN <<call>> = {1}
  BY DEF CallOK
<1> QED
  BY <1>1 DEF FrameOK

(* A call that waits, and the one that it waits for.                       *)
LEMMA FrameOfTwo ==
  ASSUME NEW running, NEW listed, NEW offered,
         NEW first, CallOK(first, running, listed), NEW second, CallOK(second, running, listed),
         Forwarded(first, second, offered), second.stage # "wait"
  PROVE  FrameOK(<<first, second>>, running, listed, offered)
<1>1. /\ <<first, second>> \in Seq(Calls) /\ Len(<<first, second>>) = 2
      /\ <<first, second>>[1] = first /\ <<first, second>>[2] = second
      /\ DOMAIN <<first, second>> = {1, 2}
  BY DEF CallOK
<1> QED
  BY <1>1 DEF FrameOK

(* The last of the calls of a client is the one that goes on.              *)
LEMMA TopType ==
  ASSUME FramesOK, NEW c \in Clients, frames[c] # <<>>
  PROVE  /\ FrameOK(frames[c], Running, ListedCorpora, Offered)
         /\ frames[c] \in Seq(Calls) /\ Len(frames[c]) \in {1, 2}
         /\ Top(c) = frames[c][Len(frames[c])]
         /\ CallOK(Top(c), Running, ListedCorpora) /\ Top(c).stage # "wait"
         /\ Top(c).site = Proxy => Len(frames[c]) = 1
<1>1. FrameOK(frames[c], Running, ListedCorpora, Offered)
  BY DEF FramesOK
<1>2. frames[c] \in Seq(Calls)
  BY <1>1 DEF FrameOK
<1>3. Top(c) = frames[c][Len(frames[c])]
  BY DEF Top, Last
<1>4. CASE Len(frames[c]) = 1
  BY <1>1, <1>2, <1>3, <1>4, FrameShape
<1>5. CASE Len(frames[c]) = 2
  <2>1. /\ CallOK(frames[c][2], Running, ListedCorpora) /\ frames[c][2].stage # "wait"
        /\ Forwarded(frames[c][1], frames[c][2], Offered)
    BY <1>1, <1>5, FrameShape
  <2>2. frames[c][2].site # Proxy
    BY <2>1, ServiceAssumption DEF Forwarded
  <2> QED
    BY <1>1, <1>2, <1>3, <1>5, <2>1, <2>2
<1> QED
  BY <1>1, <1>4, <1>5, FrameShape

(* Running is what instances and the proxy say.                            *)
LEMMA WhatRuns ==
  /\ \A s \in Servers : s \in Running <=> instances[s] # None
  /\ Proxy \in Running <=> Serves
  /\ Running \in SUBSET Sites
BY ServiceAssumption DEF Running, Runs, Sites

(* A step that leaves the proxy as it is leaves what it offers.            *)
LEMMA SameOffer ==
  ASSUME UNCHANGED proxy
  PROVE  Serves' = Serves /\ ListedCorpora' = ListedCorpora /\ Offered' = Offered
<1>1. \A key : StubsFor(key)' = StubsFor(key)
  <2> TAKE key
  <2> DEFINE at == {i \in DOMAIN proxy.stubs : proxy.stubs[i].corpus["corpus.key"] = key}
  <2>1. at' = at
    OBVIOUS
  <2>2. StubsFor(key) = ElementsAt(proxy.stubs, at) /\ StubsFor(key)' = ElementsAt(proxy'.stubs, at')
    BY DEF StubsFor
  <2> HIDE DEF at
  <2> QED
    BY <2>1, <2>2
<1>2. ListedCorpora' = ListedCorpora
  BY <1>1 DEF ListedCorpora
<1> QED
  BY <1>2 DEF Serves, Offered

(* If nothing starts or stops, the same sites run and offer the same.      *)
LEMMA SameSites ==
  ASSUME UNCHANGED <<instances, proxy>>
  PROVE  Running' = Running /\ ListedCorpora' = ListedCorpora /\ Offered' = Offered
BY SameOffer DEF Running, Runs

-----------------------------------------------------------------------------
(* A step that changes the calls of one client *)

(* A step that changes the calls of one client.                            *)
LEMMA OneClient ==
  ASSUME ServiceInv, NEW c \in Clients, NEW calls, FrameOK(calls, Running, ListedCorpora, Offered),
         frames' = [frames EXCEPT ![c] = calls], UNCHANGED <<instances, proxy>>, CounterOK'
  PROVE  ServiceInv'
<1>1. ServersOK' /\ ProxyOK'
  BY DEF ServiceInv, ServersOK, ProxyOK, Compatible
<1>2. DOMAIN frames' = Clients /\ \A d \in Clients : frames'[d] = IF d = c THEN calls ELSE frames[d]
  BY DEF ServiceInv, FramesOK
<1>3. FramesOK'
  BY <1>2, SameSites DEF ServiceInv, FramesOK
<1> QED
  BY <1>1, <1>3 DEF ServiceInv

(* A step that changes the last call of a client.                          *)
LEMMA TopReplaced ==
  ASSUME ServiceInv, NEW c \in Clients, frames[c] # <<>>,
         NEW call \in Calls, call.site = Top(c).site, call.request = Top(c).request,
         call.stage # "wait", IsResult(call.answer) => AnswerOK(call, ListedCorpora),
         WithTop(c, call), UNCHANGED <<instances, proxy>>, CounterOK'
  PROVE  ServiceInv'
<1> DEFINE n == Len(frames[c])
           calls == [frames[c] EXCEPT ![n] = call]
<1>1. frames' = [frames EXCEPT ![c] = calls]
  BY DEF WithTop
<1>2. /\ frames[c] \in Seq(Calls) /\ n \in {1, 2} /\ Top(c) = frames[c][n]
      /\ FrameOK(frames[c], Running, ListedCorpora, Offered)
  BY TopType DEF ServiceInv
<1>3. CallOK(call, Running, ListedCorpora)
  BY TopType DEF ServiceInv, CallOK
<1>4. CASE n = 1
  <2>1. calls = <<call>>
    BY <1>2, <1>4
  <2> QED
    BY <1>1, <1>3, <2>1, FrameOfOne, OneClient
<1>5. CASE n = 2
  <2>1. calls = <<frames[c][1], call>>
    BY <1>2, <1>5
  <2>2. CallOK(frames[c][1], Running, ListedCorpora) /\ Forwarded(frames[c][1], Top(c), Offered)
    BY <1>2, <1>5, FrameShape
  <2>3. Forwarded(frames[c][1], call, Offered)
    BY <2>2 DEF Forwarded
  <2> HIDE DEF calls
  <2>4. FrameOK(calls, Running, ListedCorpora, Offered)
    BY <1>3, <2>1, <2>2, <2>3, FrameOfTwo
  <2> QED
    BY <1>1, <2>4, OneClient
<1> QED
  BY <1>2, <1>4, <1>5

(* A step that answers the last call of a client.                          *)
LEMMA TopAnswered ==
  ASSUME ServiceInv, NEW c \in Clients, frames[c] # <<>>, NEW answer \in Answers,
         IsResult(answer) => AnswerOK([Top(c) EXCEPT !.answer = answer], ListedCorpora),
         WithTop(c, Answered(Top(c), answer)), UNCHANGED <<instances, proxy, counter>>
  PROVE  ServiceInv'
<1> DEFINE call == Answered(Top(c), answer)
<1>1. Top(c) \in Calls
  BY TopType DEF ServiceInv, CallOK
<1>2. /\ call \in Calls /\ call.site = Top(c).site /\ call.request = Top(c).request
      /\ call.answer = answer /\ call.stage # "wait"
  BY <1>1, AnsweredType
<1>3. IsResult(answer) => AnswerOK(call, ListedCorpora)
  BY <1>1, <1>2 DEF AnswerOK, Calls
<1>4. CounterOK'
  BY DEF ServiceInv, CounterOK
<1> HIDE DEF call
<1> QED
  BY <1>2, <1>3, <1>4, TopReplaced DEF call

-----------------------------------------------------------------------------
(* The steps of servers and of the proxy *)

(* A step that leaves the calls as they are.                               *)
LEMMA SameCalls ==
  ASSUME ServiceInv, UNCHANGED frames, ServersOK', ProxyOK', CounterOK', Running \subseteq Running',
         UNCHANGED proxy \/ Proxy \notin Running
  PROVE  ServiceInv'
<1>1. \A call : CallOK(call, Running, ListedCorpora) => CallOK(call, Running', ListedCorpora')
  BY SameOffer DEF CallOK, AnswerOK
<1>2. \A c \in Clients : FrameOK(frames[c], Running', ListedCorpora', Offered')
  <2> TAKE c \in Clients
  <2>1. FrameOK(frames[c], Running, ListedCorpora, Offered)
    BY DEF ServiceInv, FramesOK
  <2>2. Len(frames[c]) = 2 /\ Forwarded(frames[c][1], frames[c][2], Offered) =>
          Forwarded(frames[c][1], frames[c][2], Offered')
    BY <2>1, FrameShape, SameOffer DEF Forwarded, CallOK
  <2> QED
    BY <1>1, <2>1, <2>2 DEF FrameOK
<1> QED
  BY <1>2 DEF ServiceInv, FramesOK

(* Starting a server leaves the calls: there are none at it.               *)
LEMMA StartServerKeeps ==
  ASSUME ServiceInv, NEW s \in Servers, StartServer(s)
  PROVE  ServiceInv'
<1>1. /\ instances[s] = None /\ s \in CanStart /\ UNCHANGED <<proxy, frames>>
      /\ instances' = [instances EXCEPT ![s] = EntriesOf[s]]
      /\ counter' = [counter EXCEPT ![s] = 0]
  BY DEF StartServer
<1>2. ServersOK'
  BY <1>1 DEF ServiceInv, ServersOK
<1>3. ProxyOK' /\ CounterOK'
  BY <1>1 DEF ServiceInv, ProxyOK, Compatible, CounterOK
<1>4. \A r \in Servers : instances[r] # None => instances'[r] # None
  BY <1>1 DEF ServiceInv, ServersOK
<1>5. Running \subseteq Running'
  BY <1>1, <1>4 DEF Running, Runs, Sites, Serves
<1> QED
  BY <1>1, <1>2, <1>3, <1>5, SameCalls

(* Stopping a server takes its calls away, and answers those that wait.    *)
LEMMA StopServerKeeps ==
  ASSUME ServiceInv, NEW s \in Servers, StopServer(s)
  PROVE  ServiceInv'
<1>1. /\ instances' = [instances EXCEPT ![s] = None]
      /\ frames' = [c \in Clients |-> Dropped(frames[c], s)]
      /\ UNCHANGED <<proxy, counter>>
  BY DEF StopServer, logger
<1>2. ServersOK' /\ ProxyOK' /\ CounterOK'
  BY <1>1 DEF ServiceInv, ServersOK, ProxyOK, Compatible, CounterOK
<1>3. ListedCorpora' = ListedCorpora /\ Offered' = Offered /\ Running \ {s} \subseteq Running'
  BY <1>1, SameOffer DEF ServiceInv, ServersOK, Running, Runs, Sites
<1>4. \A call : CallOK(call, Running, ListedCorpora) /\ call.site # s => CallOK(call, Running', ListedCorpora')
  BY <1>3 DEF CallOK
<1>5. \A c \in Clients : FrameOK(Dropped(frames[c], s), Running', ListedCorpora', Offered')
  <2> TAKE c \in Clients
  <2> DEFINE calls == frames[c]
  <2>1. FrameOK(calls, Running, ListedCorpora, Offered)
    BY DEF ServiceInv, FramesOK
  <2>2. CASE calls = <<>>
    BY <2>2, FrameOfNone DEF Dropped
  <2>3. CASE Len(calls) = 1 /\ calls = <<calls[1]>> /\ calls[1].site = s
    <3>1. Dropped(calls, s) = <<>>
      BY <2>3 DEF Dropped, Answering, Last
    <3> QED
      BY <3>1, FrameOfNone
  <2>4. CASE Len(calls) = 1 /\ calls = <<calls[1]>> /\ calls[1].site # s
    <3>1. Dropped(calls, s) = <<calls[1]>>
      BY <2>4 DEF Dropped, Last
    <3>2. CallOK(calls[1], Running', ListedCorpora') /\ calls[1].stage # "wait"
      BY <1>4, <2>1, <2>4, FrameShape
    <3> QED
      BY <3>1, <3>2, FrameOfOne
  <2>5. CASE /\ Len(calls) = 2 /\ calls = <<calls[1], calls[2]>>
             /\ CallOK(calls[1], Running, ListedCorpora) /\ CallOK(calls[2], Running, ListedCorpora)
             /\ calls[2].stage # "wait" /\ Forwarded(calls[1], calls[2], Offered)
    <3>1. CallOK(calls[1], Running', ListedCorpora')
      BY <1>4, <2>5, ServiceAssumption DEF Forwarded
    <3>2. CASE calls[2].site = s
      <4> DEFINE call == Answered(calls[1], Unavailable)
      <4>1. Dropped(calls, s) = <<call>>
        BY <2>5, <3>2 DEF Dropped, Answering, Last
      <4>2. call \in Calls /\ call.site = calls[1].site /\ call.answer = Unavailable /\ call.stage # "wait"
        BY <2>5, AnsweredType DEF Answers, CallOK
      <4>3. CallOK(call, Running', ListedCorpora')
        BY <3>1, <4>2 DEF CallOK, IsResult, Unavailable
      <4> QED
        BY <4>1, <4>2, <4>3, FrameOfOne
    <3>3. CASE calls[2].site # s
      <4>1. Dropped(calls, s) = <<calls[1], calls[2]>>
        BY <2>5, <3>3 DEF Dropped, Last
      <4>2. CallOK(calls[2], Running', ListedCorpora')
        BY <1>4, <2>5, <3>3
      <4> QED
        BY <1>3, <2>5, <3>1, <4>1, <4>2, FrameOfTwo
    <3> QED
      BY <3>2, <3>3
  <2> QED
    BY <2>1, <2>2, <2>3, <2>4, <2>5, FrameShape
<1>6. DOMAIN frames' = Clients /\ \A c \in Clients : frames'[c] = Dropped(frames[c], s)
  BY <1>1
<1> QED
  BY <1>2, <1>5, <1>6 DEF ServiceInv, FramesOK

(* The proxy starts without stubs.                                         *)
LEMMA StartProxyKeeps ==
  ASSUME ServiceInv, StartProxy
  PROVE  ServiceInv'
<1>1. /\ proxy = None /\ UNCHANGED <<instances, frames, counter>>
      /\ \E sources \in SourceLists : proxy' = [sources |-> sources, asked |-> 0, stubs |-> <<>>]
  BY DEF StartProxy, logger
<1>2. PICK sources \in Seq(Servers) : proxy' = [sources |-> sources, asked |-> 0, stubs |-> <<>>]
  BY <1>1, ServiceAssumption
<1>3. ProxyOK'
  BY <1>2 DEF ProxyOK, Compatible
<1>4. ServersOK' /\ CounterOK'
  BY <1>1 DEF ServiceInv, ServersOK, CounterOK
<1>5. Proxy \notin Running
  BY <1>1, WhatRuns DEF Serves
<1>6. Running \subseteq Running'
  BY <1>1, <1>5 DEF Running, Runs
<1> QED
  BY <1>1, <1>3, <1>4, <1>5, <1>6, SameCalls

(* The stubs of one server are compatible: it has one entry for a key.     *)
LEMMA StubsCompatible ==
  ASSUME NEW s \in CanStart, NEW x \in StubsOf(s), NEW y \in StubsOf(s)
  PROVE  AreCompatible(x.corpus, y.corpus)
<1>1. PICK i \in DOMAIN EntriesOf[s] : x.corpus = EntriesOf[s][i].corpus
  BY DEF StubsOf
<1>2. PICK j \in DOMAIN EntriesOf[s] : y.corpus = EntriesOf[s][j].corpus
  BY DEF StubsOf
<1>3. x.corpus["corpus.key"] = y.corpus["corpus.key"] => i = j
  BY <1>1, <1>2, OneEntry DEF KeyOf
<1> QED
  BY <1>1, <1>2, <1>3 DEF AreCompatible

(* The stubs of one more source are compatible with those before.          *)
LEMMA AskSourceKeeps ==
  ASSUME ServiceInv, AskSource
  PROVE  ServiceInv'
<1> DEFINE s == proxy.sources[proxy.asked + 1]
           stubs == [i \in DOMAIN instances[s] |-> [corpus |-> Corpora(s)[i], server |-> s]]
<1>1. /\ proxy # None /\ ~ Serves /\ UNCHANGED <<instances, frames>>
      /\ \/ proxy' = None
         \/ /\ instances[s] # None
            /\ proxy' = [proxy EXCEPT !.asked = @ + 1, !.stubs = @ \o stubs]
            /\ \A x \in ToSet(proxy.stubs), y \in ToSet(stubs) : AreCompatible(x.corpus, y.corpus)
      /\ counter' = counter \/ \E r : counter' = [counter EXCEPT ![r] = @ + 1]
  BY DEF AskSource, logger
<1>2. ServersOK' /\ CounterOK'
  BY <1>1 DEF ServiceInv, ServersOK, CounterOK
<1>3. /\ proxy.sources \in Seq(Servers) /\ proxy.asked \in Nat /\ proxy.stubs \in Seq(AllStubs)
      /\ proxy \in [sources : Seq(Servers), asked : Nat, stubs : Seq(AllStubs)]
      /\ proxy.asked < Len(proxy.sources) /\ Compatible(proxy.stubs)
  BY <1>1 DEF ServiceInv, ProxyOK, Serves
<1>4. s \in Servers
  BY <1>3
<1> HIDE DEF s
<1>5. ASSUME proxy' = None PROVE ProxyOK'
  BY <1>5 DEF ProxyOK
<1>6. ASSUME instances[s] # None,
             proxy' = [proxy EXCEPT !.asked = @ + 1, !.stubs = @ \o stubs],
             \A x \in ToSet(proxy.stubs), y \in ToSet(stubs) : AreCompatible(x.corpus, y.corpus)
      PROVE  ProxyOK'
  <2>1. s \in CanStart /\ instances[s] = EntriesOf[s]
    BY <1>4, <1>6 DEF ServiceInv, ServersOK
  <2>2. DOMAIN EntriesOf[s] = 1 .. Len(ConfigFiles[s]) /\ Len(ConfigFiles[s]) \in Nat
    BY <1>4, EntriesOfType
  <2>3. \A i \in DOMAIN EntriesOf[s] : stubs[i] \in StubsOf(s)
    BY <2>1 DEF StubsOf, Corpora
  <2>4. DOMAIN stubs = 1 .. Len(ConfigFiles[s])
    BY <2>1, <2>2
  <2>5. \A i \in DOMAIN EntriesOf[s] : stubs[i] \in AllStubs
    BY <2>1, <2>3 DEF AllStubs
  <2>6. stubs \in Seq(AllStubs)
    <3> DEFINE n == Len(ConfigFiles[s])
    <3>1. stubs = [i \in 1 .. n |-> stubs[i]]
      BY <2>4
    <3>2. \A i \in 1 .. n : stubs[i] \in AllStubs
      BY <2>2, <2>5
    <3> HIDE DEF stubs, n
    <3>3. [i \in 1 .. n |-> stubs[i]] \in Seq(AllStubs)
      BY <2>2, <3>2 DEF n
    <3> QED
      BY <3>1, <3>3
  <2> HIDE DEF stubs
  <2> DEFINE both == proxy.stubs \o stubs
  <2>7. both \in Seq(AllStubs)
    BY <1>3, <2>6
  <2>8. \A i \in DOMAIN both : \/ i \in DOMAIN proxy.stubs /\ both[i] = proxy.stubs[i]
                              \/ \E j \in DOMAIN stubs : both[i] = stubs[j]
    BY <1>3, <2>6
  <2> HIDE DEF both
  <2>9. \A i \in DOMAIN proxy.stubs, j \in DOMAIN stubs :
          AreCompatible(proxy.stubs[i].corpus, stubs[j].corpus) /\ AreCompatible(stubs[j].corpus, proxy.stubs[i].corpus)
    BY <1>6 DEF AreCompatible, ToSet
  <2>10. \A i, j \in DOMAIN stubs : AreCompatible(stubs[i].corpus, stubs[j].corpus)
    BY <2>1, <2>2, <2>3, <2>4, StubsCompatible
  <2>11. Compatible(both)
    BY <1>3, <2>8, <2>9, <2>10 DEF Compatible
  <2>12. proxy' = [sources |-> proxy.sources, asked |-> proxy.asked + 1, stubs |-> both]
    BY <1>3, <1>6 DEF both
  <2> QED
    BY <1>3, <2>7, <2>11, <2>12 DEF ProxyOK, Compatible
<1>7. ProxyOK'
  BY <1>1, <1>5, <1>6 DEF s
<1>8. Proxy \notin Running
  BY <1>1, WhatRuns
<1>9. Running \subseteq Running'
  BY <1>1, <1>8 DEF Running, Runs
<1> QED
  BY <1>1, <1>2, <1>7, <1>8, <1>9, SameCalls

-----------------------------------------------------------------------------
(* The steps of clients *)

(* A call that arrives has no answer yet.                                  *)
LEMMA NewCallKeeps ==
  ASSUME ServiceInv, NEW c \in Clients, NEW site \in Running, NEW request \in KnownRequests,
         NEW id, GetTrackingId(id) \in Users,
         frames' = [frames EXCEPT ![c] = <<Call(site, request, id)>>],
         UNCHANGED <<instances, proxy, counter>>
  PROVE  ServiceInv'
<1> DEFINE call == Call(site, request, id)
<1>1. call \in Calls /\ call.site = site /\ call.answer = None /\ call.stage # "wait"
  BY CallType, WhatRuns
<1>2. CallOK(call, Running, ListedCorpora)
  BY <1>1 DEF CallOK, IsResult
<1>3. CounterOK'
  BY DEF ServiceInv, CounterOK
<1> QED
  BY <1>1, <1>2, <1>3, FrameOfOne, OneClient

(* A step that changes neither sites nor calls.                            *)
LEMMA SameRequests ==
  ASSUME ServiceInv, UNCHANGED <<instances, proxy, frames, counter>>
  PROVE  ServiceInv'
<1>1. ServersOK' /\ ProxyOK' /\ CounterOK'
  BY DEF ServiceInv, ServersOK, ProxyOK, Compatible, CounterOK
<1> QED
  BY <1>1, SameSites, SameCalls

(* A worker asks for a corpus that the proxy lists.                        *)
LEMMA WorkerAsksKeeps ==
  ASSUME ServiceInv, NEW c \in Workers, WorkerAsks(c)
  PROVE  ServiceInv'
<1>1. Serves /\ UNCHANGED <<instances, proxy, counter>>
  BY DEF WorkerAsks, logger
<1>2. CASE More
  <2>1. PICK corpus \in ListedCorpora, query \in Queries :
          frames' = [frames EXCEPT ![c] =
            <<Call(Proxy, Search(corpus["corpus.key"], query), SetTrackingId(TrackingIdOf[c]))>>]
    BY <1>2 DEF WorkerAsks
  <2>2. PICK e \in Entries : corpus = e.corpus
    BY <1>1, ListedType DEF ServiceInv, Serves
  <2>3. Search(corpus["corpus.key"], query) \in KnownRequests
    BY <2>2 DEF KnownRequests, KeyOf
  <2>4. c \in Clients /\ GetTrackingId(SetTrackingId(TrackingIdOf[c])) \in Users
    BY DEF Users, Clients
  <2>5. Proxy \in Running
    BY <1>1, WhatRuns
  <2> QED
    BY <1>1, <2>1, <2>3, <2>4, <2>5, NewCallKeeps
<1>3. CASE ~ More
  BY <1>1, <1>3, SameRequests DEF WorkerAsks
<1> QED
  BY <1>2, <1>3

(* A visitor asks anybody who runs.                                        *)
LEMMA VisitorAsksKeeps ==
  ASSUME ServiceInv, NEW c \in Visitors, VisitorAsks(c)
  PROVE  ServiceInv'
<1>1. PICK site \in Running, request \in Requests :
        frames' = [frames EXCEPT ![c] = <<Call(site, request, TrackingIdOf[c])>>]
  BY DEF VisitorAsks, Running
<1>2. request \in KnownRequests /\ c \in Clients /\ GetTrackingId(TrackingIdOf[c]) \in Users
  BY DEF KnownRequests, Clients, Users
<1>3. UNCHANGED <<instances, proxy, counter>>
  BY DEF VisitorAsks, logger
<1> QED
  BY <1>1, <1>2, <1>3, NewCallKeeps

-----------------------------------------------------------------------------
(* The steps of threads *)

(* A call gets its number.                                                 *)
LEMMA ReceiveKeeps ==
  ASSUME ServiceInv, NEW c \in Clients, Receive(c)
  PROVE  ServiceInv'
<1> DEFINE call == [Top(c) EXCEPT !.id = counter[Top(c).site], !.stage = "log"]
<1>1. /\ frames[c] # <<>> /\ WithTop(c, call) /\ UNCHANGED <<instances, proxy>>
      /\ counter' = [counter EXCEPT ![Top(c).site] = @ + 1]
  BY DEF Receive, AtStage
<1>2. CallOK(Top(c), Running, ListedCorpora) /\ Top(c) \in Calls
  BY <1>1, TopType DEF ServiceInv, CallOK
<1>3. Top(c).site \in Sites /\ counter[Top(c).site] \in Nat /\ CounterOK'
  BY <1>1, <1>2 DEF Calls, ServiceInv, CounterOK
<1>4. /\ call \in Calls /\ call.site = Top(c).site /\ call.request = Top(c).request
      /\ call.stage # "wait" /\ call.answer = Top(c).answer
  BY <1>2, <1>3 DEF Calls, Stages
<1>5. IsResult(call.answer) => AnswerOK(call, ListedCorpora)
  BY <1>2, <1>4 DEF CallOK, AnswerOK
<1> HIDE DEF call
<1> QED
  BY <1>1, <1>3, <1>4, <1>5, TopReplaced

(* A step that changes only the stage of a call.                           *)
LEMMA StageKeeps ==
  ASSUME ServiceInv, NEW c \in Clients, frames[c] # <<>>, NEW stage \in Stages \ {"wait"},
         WithTop(c, [Top(c) EXCEPT !.stage = stage]), UNCHANGED <<instances, proxy, counter>>
  PROVE  ServiceInv'
<1> DEFINE call == [Top(c) EXCEPT !.stage = stage]
<1>1. CallOK(Top(c), Running, ListedCorpora) /\ Top(c) \in Calls
  BY TopType DEF ServiceInv, CallOK
<1>2. /\ call \in Calls /\ call.site = Top(c).site /\ call.request = Top(c).request
      /\ call.stage # "wait" /\ call.answer = Top(c).answer
  BY <1>1 DEF Calls
<1>3. IsResult(call.answer) => AnswerOK(call, ListedCorpora)
  BY <1>1, <1>2 DEF CallOK, AnswerOK
<1>4. CounterOK'
  BY DEF ServiceInv, CounterOK
<1>5. WithTop(c, call)
  OBVIOUS
<1> HIDE DEF call
<1> QED
  BY <1>2, <1>3, <1>4, <1>5, TopReplaced

(* What an index answers.                                                  *)
LEMMA AnswersOfIndex ==
  ASSUME ServiceInv, NEW call, CallOK(call, Running, ListedCorpora), call.site # Proxy,
         NEW answer \in AnswersOf(call)
  PROVE  /\ answer \in Answers
         /\ IsResult(answer) => AnswerOK([call EXCEPT !.answer = answer], ListedCorpora)
<1> DEFINE s == call.site
<1>1. call \in Calls /\ s \in Servers /\ s \in CanStart /\ instances[s] = EntriesOf[s]
  BY WhatRuns DEF CallOK, Calls, Sites, ServiceInv, ServersOK
<1>2. CASE answer = List(ToSet(Corpora(s)))
  <2>1. \A i \in DOMAIN EntriesOf[s] : EntriesOf[s][i] \in Entries
    BY <1>1 DEF Entries
  <2>2. ToSet(Corpora(s)) \subseteq {e.corpus : e \in Entries}
    BY <1>1, <2>1 DEF Corpora, ToSet
  <2>3. answer \in Answers
    BY <1>2, <2>2 DEF Answers
  <2>4. ~ IsResult(answer)
    BY <1>2 DEF IsResult, List
  <2> QED
    BY <2>3, <2>4
<1>3. CASE answer \in {Error("INVALID_CORPUS"), Error("INTERNAL_ERROR")}
  BY <1>3 DEF Answers, IsResult, Error
<1>4. ASSUME NEW e \in EntriesFor(s, call.request.corpus), answer = Result(e)
      PROVE  /\ answer \in Answers
             /\ AnswerOK([call EXCEPT !.answer = answer], ListedCorpora)
  <2>1. PICK i \in DOMAIN EntriesOf[s] : e = EntriesOf[s][i] /\ KeyOf(e) = call.request.corpus
    BY <1>1 DEF EntriesFor, ToSet
  <2>2. e \in Entries
    BY <1>1, <2>1 DEF Entries
  <2>3. answer \in Answers /\ answer.entry = e
    BY <1>4, <2>2 DEF Answers, Result
  <2> DEFINE answered == [call EXCEPT !.answer = answer]
  <2>4. answered.site = s /\ answered.request = call.request /\ answered.answer = answer
    BY <1>1 DEF Calls
  <2> HIDE DEF answered
  <2>5. AnswerOK(answered, ListedCorpora)
    BY <1>1, <2>1, <2>3, <2>4, ServiceAssumption DEF AnswerOK
  <2> QED
    BY <2>3, <2>5 DEF answered
<1> QED
  BY <1>2, <1>3, <1>4 DEF AnswersOf

(* A server answers with one of its own entries.                           *)
LEMMA ServeCallKeeps ==
  ASSUME ServiceInv, NEW c \in Clients, ServeCall(c)
  PROVE  ServiceInv'
<1>1. PICK answer \in AnswersOf(Top(c)) : WithTop(c, Answered(Top(c), answer))
  BY DEF ServeCall
<1>2. frames[c] # <<>> /\ Top(c).site # Proxy /\ UNCHANGED <<instances, proxy, counter>>
  BY DEF ServeCall, AtStage, logger
<1>3. CallOK(Top(c), Running, ListedCorpora)
  BY <1>2, TopType DEF ServiceInv
<1> QED
  BY <1>1, <1>2, <1>3, AnswersOfIndex, TopAnswered

(* The proxy answers by itself, without a result.                          *)
LEMMA AnswerAtProxyKeeps ==
  ASSUME ServiceInv, NEW c \in Clients, AnswerAtProxy(c)
  PROVE  ServiceInv'
<1>1. frames[c] # <<>> /\ Top(c).site = Proxy /\ UNCHANGED <<instances, proxy, counter>>
  BY DEF AnswerAtProxy, AtStage, logger
<1>2. proxy # None
  BY <1>1, TopType, WhatRuns DEF ServiceInv, CallOK, Serves
<1>3. PICK answer \in {List(ListedCorpora), Error("INVALID_CORPUS")} : WithTop(c, Answered(Top(c), answer))
  BY DEF AnswerAtProxy
<1>4. answer \in Answers
  BY <1>2, ListedType DEF ServiceInv, Answers
<1>5. ~ IsResult(answer)
  BY DEF IsResult, List, Error
<1> QED
  BY <1>1, <1>3, <1>4, <1>5, TopAnswered

(* The proxy chooses a server by a stub that has the key.                  *)
LEMMA ForwardKeeps ==
  ASSUME ServiceInv, NEW c \in Clients, Forward(c)
  PROVE  ServiceInv'
<1> DEFINE request == Top(c).request
           stubs == StubsFor(request.corpus)
           s == ServiceFor(request.corpus, request.query)
           n == (Hash[request.query] % Len(stubs)) + 1
<1>1. /\ frames[c] # <<>> /\ Top(c).site = Proxy /\ request.method = "Search" /\ stubs # <<>>
      /\ Forwarding(c, s) /\ UNCHANGED <<instances, proxy, counter>>
  BY DEF Forward, AtStage, logger
<1>2. CallOK(Top(c), Running, ListedCorpora) /\ Top(c) \in Calls /\ Len(frames[c]) = 1
  BY <1>1, TopType DEF ServiceInv, CallOK
<1>3. proxy # None /\ ProxyOK
  BY <1>1, <1>2, WhatRuns DEF CallOK, Serves, ServiceInv
<1>4. request \in KnownRequests
  BY <1>2 DEF Calls
<1>5. Hash[request.query] \in Nat
  BY <1>1, <1>4, ServiceAssumption DEF KnownRequests, GetCorpora, Search
<1>6. stubs \in Seq(AllStubs) /\ Len(stubs) \in Nat \ {0}
  <2>1. stubs \in Seq(AllStubs)
    BY <1>3, StubsForSeq
  <2> HIDE DEF stubs
  <2> QED
    BY <1>1, <2>1, EmptySeq DEF stubs
<1>7. n \in DOMAIN stubs /\ s = stubs[n].server
  <2>1. n \in 1 .. Len(stubs)
    BY <1>5, <1>6
  <2>2. DOMAIN stubs = 1 .. Len(stubs)
    BY <1>6
  <2> QED
    BY <2>1, <2>2 DEF ServiceFor
<1>8. s \in Servers /\ <<s, request.corpus>> \in Offered
  <2>1. /\ stubs[n] \in AllStubs /\ stubs[n].corpus["corpus.key"] = request.corpus
        /\ \E k \in DOMAIN proxy.stubs : proxy.stubs[k] = stubs[n]
    BY <1>3, <1>7, StubsForType
  <2>2. stubs[n] \in ToSet(proxy.stubs)
    BY <2>1 DEF ToSet
  <2>3. stubs[n].server \in CanStart
    BY <2>1, StubCorpus
  <2> HIDE DEF n, stubs, s
  <2> QED
    BY <1>7, <2>1, <2>2, <2>3 DEF Offered, CanStart
<1> HIDE DEF s, stubs, n
<1>9. CASE Runs(s)
  <2> DEFINE first == [Top(c) EXCEPT !.stage = "wait"]
             second == Call(s, request, NoUser)
  <2>1. frames' = [frames EXCEPT ![c] = <<first, second>>]
    BY <1>1, <1>9 DEF Forwarding
  <2>2. /\ first \in Calls /\ first.site = Proxy /\ first.stage = "wait"
        /\ first.request = request /\ first.answer = Top(c).answer
    BY <1>1, <1>2 DEF Calls, Stages
  <2>3. GetTrackingId(NoUser) \in Users
    BY DEF Users
  <2>4. /\ second \in Calls /\ second.site = s /\ second.request = request
        /\ second.answer = None /\ second.stage # "wait"
    BY <1>4, <1>8, <2>3, CallType DEF Sites
  <2> HIDE DEF first, second
  <2>5. CallOK(first, Running, ListedCorpora)
    BY <1>1, <1>2, <2>2 DEF CallOK, AnswerOK
  <2>6. CallOK(second, Running, ListedCorpora)
    BY <1>8, <1>9, <2>4 DEF CallOK, Running, Sites, IsResult
  <2>7. Forwarded(first, second, Offered)
    BY <1>8, <2>2, <2>4 DEF Forwarded
  <2>8. CounterOK'
    BY <1>1 DEF ServiceInv, CounterOK
  <2> QED
    BY <1>1, <2>1, <2>4, <2>5, <2>6, <2>7, <2>8, FrameOfTwo, OneClient
<1>10. CASE ~ Runs(s)
  <2>1. WithTop(c, Answered(Top(c), Unavailable))
    BY <1>1, <1>10 DEF Forwarding
  <2>2. Unavailable \in Answers /\ ~ IsResult(Unavailable)
    BY DEF Answers, IsResult, Unavailable
  <2> QED
    BY <1>1, <2>1, <2>2, TopAnswered
<1> QED
  BY <1>9, <1>10

(* What a server answers to a forwarded call is of a corpus that the proxy *)
(* lists: the stubs with one key have one corpus.                          *)
LEMMA ReturnKeeps ==
  ASSUME ServiceInv, NEW c \in Clients, Return(c)
  PROVE  ServiceInv'
<1> DEFINE answer == Top(c).answer
<1>1. /\ frames[c] # <<>> /\ UNCHANGED <<instances, proxy, counter>>
      /\ frames' = [frames EXCEPT ![c] = Answering(frames[c], answer)]
  BY DEF Return, AtStage, logger, ServiceInv, FramesOK
<1>2. FrameOK(frames[c], Running, ListedCorpora, Offered) /\ Top(c) = frames[c][Len(frames[c])]
  BY <1>1, TopType DEF ServiceInv
<1>3. CounterOK'
  BY <1>1 DEF ServiceInv, CounterOK
<1>4. CASE Len(frames[c]) = 1
  <2>1. Answering(frames[c], answer) = <<>>
    BY <1>4 DEF Answering
  <2> QED
    BY <1>1, <1>3, <2>1, FrameOfNone, OneClient
<1>5. CASE Len(frames[c]) = 2
  <2> DEFINE first == frames[c][1]
             second == frames[c][2]
             call == Answered(first, answer)
  <2>1. /\ CallOK(first, Running, ListedCorpora) /\ CallOK(second, Running, ListedCorpora)
        /\ Forwarded(first, second, Offered) /\ answer = second.answer
    BY <1>2, <1>5, FrameShape
  <2>2. first \in Calls /\ answer \in Answers /\ first.site = Proxy /\ second.site \in Servers
    BY <2>1 DEF CallOK, Calls, Forwarded
  <2>3. /\ call \in Calls /\ call.site = Proxy /\ call.request = second.request
        /\ call.answer = answer /\ call.stage # "wait"
    BY <2>1, <2>2, AnsweredType DEF Forwarded
  <2> HIDE DEF call, first, second, answer
  <2>4. IsResult(answer) => AnswerOK(call, ListedCorpora)
    <3> SUFFICES ASSUME IsResult(answer) PROVE AnswerOK(call, ListedCorpora)
      OBVIOUS
    <3> DEFINE s == second.site
    <3>1. PICK i \in DOMAIN EntriesOf[s] :
            answer.entry = EntriesOf[s][i] /\ KeyOf(answer.entry) = second.request.corpus
      BY <2>1, <2>2, ServiceAssumption DEF CallOK, AnswerOK
    <3>2. s \in CanStart
      BY <2>1, <2>2, WhatRuns DEF CallOK, ServiceInv, ServersOK
    <3>3. <<s, KeyOf(EntriesOf[s][i])>> \in Offered
      BY <2>1, <3>1 DEF Forwarded
    <3>4. proxy # None
      BY <2>1, <2>2, WhatRuns DEF CallOK, Serves
    <3>5. answer.entry.corpus \in ListedCorpora
      BY <3>1, <3>2, <3>3, <3>4, ForwardedIsListed DEF ServiceInv
    <3> QED
      BY <2>3, <3>1, <3>5 DEF AnswerOK, KeyOf
  <2>5. CallOK(call, Running, ListedCorpora)
    BY <2>1, <2>2, <2>3, <2>4 DEF CallOK
  <2>6. Answering(frames[c], answer) = <<call>>
    BY <1>5 DEF Answering, call, first
  <2> QED
    BY <1>1, <1>3, <2>3, <2>5, <2>6, FrameOfOne, OneClient DEF answer
<1> QED
  BY <1>1, <1>4, <1>5, TopType DEF ServiceInv

-----------------------------------------------------------------------------

(* In the beginning there are no calls and no stubs.                       *)
LEMMA InitKeeps ==
  ASSUME Init
  PROVE  ServiceInv
<1>1. ServersOK /\ CounterOK
  BY DEF Init, ServersOK, CounterOK
<1>2. ProxyOK
  BY DEF Init, ProxyOK
<1>3. FramesOK
  BY FrameOfNone DEF Init, FramesOK
<1> QED
  BY <1>1, <1>2, <1>3 DEF ServiceInv

(* Every step keeps the invariant.                                         *)
LEMMA NextKeeps ==
  ASSUME ServiceInv, [Next]_vars
  PROVE  ServiceInv'
<1>1. ASSUME NEW s \in Servers, StartServer(s) PROVE ServiceInv'
  BY <1>1, StartServerKeeps
<1>2. ASSUME NEW s \in Servers, StopServer(s) PROVE ServiceInv'
  BY <1>2, StopServerKeeps
<1>3. CASE StartProxy
  BY <1>3, StartProxyKeeps
<1>4. CASE AskSource
  BY <1>4, AskSourceKeeps
<1>5. ASSUME NEW c \in Workers, WorkerAsks(c) PROVE ServiceInv'
  BY <1>5, WorkerAsksKeeps
<1>6. ASSUME NEW c \in Visitors, VisitorAsks(c) PROVE ServiceInv'
  BY <1>6, VisitorAsksKeeps
<1>7. ASSUME NEW c \in Clients, Handle(c) PROVE ServiceInv'
  <2>1. CASE Receive(c)
    BY <2>1, ReceiveKeeps
  <2>2. CASE LogRequest(c)
    BY <2>2, StageKeeps DEF LogRequest, AtStage, Stages
  <2>3. CASE ServeCall(c)
    BY <2>3, ServeCallKeeps
  <2>4. CASE AnswerAtProxy(c)
    BY <2>4, AnswerAtProxyKeeps
  <2>5. CASE Forward(c)
    BY <2>5, ForwardKeeps
  <2>6. CASE LogError(c)
    BY <2>6, StageKeeps DEF LogError, AtStage, Stages
  <2>7. CASE Return(c)
    BY <2>7, ReturnKeeps
  <2> QED
    BY <1>7, <2>1, <2>2, <2>3, <2>4, <2>5, <2>6, <2>7 DEF Handle
<1>8. CASE UNCHANGED vars
  BY <1>8, SameRequests DEF vars, logger
<1> QED
  BY <1>1, <1>2, <1>3, <1>4, <1>5, <1>6, <1>7, <1>8 DEF Next

(* Whatever starts and stops, however calls interleave: every result is of *)
(* an index of the corpus that was asked for, at the proxy of a corpus     *)
(* that it lists by the same name and language.                            *)
THEOREM AnswersComeFromCorpus == Spec => []AnswersFromCorpus
<1>1. Init => ServiceInv
  BY InitKeeps
<1>2. ServiceInv /\ [Next]_vars => ServiceInv'
  BY NextKeeps
<1>3. ServiceInv => AnswersFromCorpus
  <2> SUFFICES ASSUME ServiceInv, NEW c \in Clients, NEW i \in DOMAIN frames[c], IsResult(frames[c][i].answer)
               PROVE  /\ frames[c][i].answer.entry.corpus["corpus.key"] = frames[c][i].request.corpus
                      /\ frames[c][i].site = Proxy => frames[c][i].answer.entry.corpus \in ListedCorpora
    BY DEF AnswersFromCorpus, IsResult
  <2>1. CallOK(frames[c][i], Running, ListedCorpora)
    BY DEF ServiceInv, FramesOK, FrameOK
  <2> QED
    BY <2>1 DEF CallOK, AnswerOK, KeyOf
<1> QED
  BY <1>1, <1>2, <1>3, PTL DEF Spec

-----------------------------------------------------------------------------
(* What the logger of one site keeps: of its counter, its files, the calls *)
(* that it has answered, and those that are pending, as pairs of a client  *)
(* and a call.                                                             *)

FileNames == RequestFiles \cup ErrorFiles
LineSet == [id : Nat \cup {None}, user : Users, request : KnownRequests]
LinesIn(files, names) == {line \in LineSet : \E f \in names : \E n \in DOMAIN files[f] : files[f][n] = line}
Requested(files) == LinesIn(files, RequestFiles)
Erroneous(files) == LinesIn(files, ErrorFiles)

(* Ids of requests are below the counter, and unique; an error is logged   *)
(* once, and after its request.                                            *)
FilesOK(count, files) ==
  /\ count \in Nat /\ files \in [FileNames -> Seq(LineSet)]
  /\ \A line \in Requested(files) : line.id \in Nat /\ line.id < count
  /\ \A f, g \in RequestFiles : \A m \in DOMAIN files[f], n \in DOMAIN files[g] :
       files[f][m].id = files[g][n].id => f = g /\ m = n
  /\ \A f, g \in ErrorFiles : \A m \in DOMAIN files[f], n \in DOMAIN files[g] :
       files[f][m] = files[g][n] => f = g /\ m = n
  /\ Erroneous(files) \subseteq Requested(files)

DoneOK(files, done) ==
  \A h \in done : h.line \in Requested(files) /\ (h.line \in Erroneous(files) <=> h.failed)

(* A call that is pending has its number from "log" on, its request line   *)
(* after that, and its error line at the end if it fails.                  *)
PendingCallOK(count, files, done, call) ==
  /\ call \in Calls
  /\ call.stage # "receive" => call.id \in Nat /\ call.id < count
  /\ call.stage = "log" => \A line \in Requested(files) : line.id # call.id
  /\ call.stage \notin {"receive", "log"} =>
       /\ Line(call) \in Requested(files)
       /\ \A h \in done : h.line.id # call.id
       /\ Line(call) \in Erroneous(files) <=> call.stage = "return" /\ Fails(call)
  /\ call.stage = "error" => Fails(call)

Numbered(call) == call.stage # "receive"
PendingOK(count, files, done, pending) ==
  /\ \A x \in pending : PendingCallOK(count, files, done, x[2])
  /\ \A x, y \in pending : x[1] # y[1] /\ Numbered(x[2]) /\ Numbered(y[2]) => x[2].id # y[2].id

SiteOK(count, files, done, pending) ==
  FilesOK(count, files) /\ DoneOK(files, done) /\ PendingOK(count, files, done, pending)

WithLine(files, f, line) == [files EXCEPT ![f] = Append(@, line)]
Others(pending, c) == {x \in pending : x[1] # c}

(* There are two files for each method.                                    *)
LEMMA MethodsAreFiles ==
  ASSUME NEW request \in KnownRequests
  PROVE  request.method \in RequestFiles /\ ErrorFile[request.method] \in ErrorFiles
BY ServiceAssumption DEF KnownRequests, GetCorpora, Search, RequestFiles, ErrorFiles, ErrorFile

(* What the logger writes of a call.                                       *)
LEMMA LineType ==
  ASSUME NEW call \in Calls
  PROVE  Line(call) \in LineSet /\ Line(call).id = call.id
BY DEF Line, LineSet, Calls

(* What a line more does to the lines of files.                            *)
LEMMA LineAdded ==
  ASSUME NEW files \in [FileNames -> Seq(LineSet)], NEW f \in FileNames, NEW line \in LineSet
  PROVE  /\ WithLine(files, f, line) \in [FileNames -> Seq(LineSet)]
         /\ f \in RequestFiles =>
              /\ Requested(WithLine(files, f, line)) = Requested(files) \cup {line}
              /\ Erroneous(WithLine(files, f, line)) = Erroneous(files)
         /\ f \in ErrorFiles =>
              /\ Requested(WithLine(files, f, line)) = Requested(files)
              /\ Erroneous(WithLine(files, f, line)) = Erroneous(files) \cup {line}
         /\ \A g \in FileNames : g # f => WithLine(files, f, line)[g] = files[g]
         /\ \A m \in DOMAIN WithLine(files, f, line)[f] :
              IF m \in DOMAIN files[f] THEN WithLine(files, f, line)[f][m] = files[f][m]
              ELSE m = Len(files[f]) + 1 /\ WithLine(files, f, line)[f][m] = line
<1> DEFINE after == WithLine(files, f, line)
<1>1. files[f] \in Seq(LineSet)
  OBVIOUS
<1>2. /\ Append(files[f], line) \in Seq(LineSet)
      /\ DOMAIN Append(files[f], line) = 1 .. Len(files[f]) + 1
      /\ DOMAIN files[f] = 1 .. Len(files[f]) /\ Len(files[f]) \in Nat
      /\ \A m \in 1 .. Len(files[f]) : Append(files[f], line)[m] = files[f][m]
      /\ Append(files[f], line)[Len(files[f]) + 1] = line
  BY <1>1
<1>3. after \in [FileNames -> Seq(LineSet)] /\ after[f] = Append(files[f], line)
  BY <1>2 DEF WithLine
<1>4. \A g \in FileNames : g # f => after[g] = files[g]
  BY DEF WithLine
<1> HIDE DEF after
<1>5. \A m \in DOMAIN after[f] :
        IF m \in DOMAIN files[f] THEN after[f][m] = files[f][m]
        ELSE m = Len(files[f]) + 1 /\ after[f][m] = line
  BY <1>2, <1>3
<1>6. ASSUME NEW names \in SUBSET FileNames
      PROVE  LinesIn(after, names) = LinesIn(files, names) \cup (IF f \in names THEN {line} ELSE {})
  <2>1. ASSUME NEW x \in LineSet, NEW g \in names
        PROVE  (\E n \in DOMAIN after[g] : after[g][n] = x) <=>
                 (\E n \in DOMAIN files[g] : files[g][n] = x) \/ (g = f /\ x = line)
    <3>1. CASE g = f
      <4>1. DOMAIN after[f] = DOMAIN files[f] \cup {Len(files[f]) + 1}
        BY <1>2, <1>3
      <4>2. \A n \in DOMAIN files[f] : after[f][n] = files[f][n]
        BY <1>2, <1>3
      <4>3. after[f][Len(files[f]) + 1] = line
        BY <1>2, <1>3
      <4> QED
        BY <3>1, <4>1, <4>2, <4>3
    <3>2. CASE g # f
      BY <1>4, <3>2
    <3> QED
      BY <3>1, <3>2
  <2> QED
    BY <2>1 DEF LinesIn
<1>7. RequestFiles \in SUBSET FileNames /\ ErrorFiles \in SUBSET FileNames
  BY DEF FileNames
<1>8. Requested(after) = Requested(files) \cup (IF f \in RequestFiles THEN {line} ELSE {})
  BY <1>6, <1>7 DEF Requested
<1>9. Erroneous(after) = Erroneous(files) \cup (IF f \in ErrorFiles THEN {line} ELSE {})
  BY <1>6, <1>7 DEF Erroneous
<1>10. ~ (f \in RequestFiles /\ f \in ErrorFiles)
  BY DEF RequestFiles, ErrorFiles
<1>11. /\ f \in RequestFiles =>
            Requested(after) = Requested(files) \cup {line} /\ Erroneous(after) = Erroneous(files)
       /\ f \in ErrorFiles =>
            Requested(after) = Requested(files) /\ Erroneous(after) = Erroneous(files) \cup {line}
  BY <1>8, <1>9, <1>10
<1> QED
  BY <1>3, <1>4, <1>5, <1>11 DEF after

(* Calls arrive, wait for another one, or get their answers.               *)
Moves(x, y) ==
  /\ y[1] = x[1] /\ y[2] \in Calls /\ Line(y[2]) = Line(x[2]) /\ y[2].id = x[2].id
  /\ x[2].stage \in {"serve", "wait"}
  /\ \/ y[2].stage = "wait"
     \/ y[2].stage = "error" /\ Fails(y[2])
     \/ y[2].stage = "return" /\ ~ Fails(y[2])
Arrives(y) == y[2] \in Calls /\ y[2].stage = "receive"

(* Such calls keep the invariant of a log that does not change.            *)
LEMMA CallsMove ==
  ASSUME NEW count, NEW files, NEW done, NEW pending, SiteOK(count, files, done, pending),
         NEW after, \A y \in after : y \in pending \/ Arrives(y) \/ \E x \in pending : Moves(x, y)
  PROVE  SiteOK(count, files, done, after)
<1>1. ASSUME NEW y \in after
      PROVE  PendingCallOK(count, files, done, y[2])
  <2>1. CASE y \in pending
    BY <2>1 DEF SiteOK, PendingOK
  <2>2. CASE Arrives(y)
    BY <2>2 DEF Arrives, PendingCallOK
  <2>3. ASSUME NEW x \in pending, Moves(x, y)
        PROVE  PendingCallOK(count, files, done, y[2])
    <3>1. PendingCallOK(count, files, done, x[2])
      BY DEF SiteOK, PendingOK
    <3> QED
      BY <2>3, <3>1 DEF Moves, PendingCallOK
  <2> QED
    BY <2>1, <2>2, <2>3
<1>2. ASSUME NEW y \in after, Numbered(y[2])
      PROVE  \E x \in pending : x[1] = y[1] /\ x[2].id = y[2].id /\ Numbered(x[2])
  BY <1>2 DEF Moves, Arrives, Numbered
<1>3. \A x, y \in after : x[1] # y[1] /\ Numbered(x[2]) /\ Numbered(y[2]) => x[2].id # y[2].id
  <2> SUFFICES ASSUME NEW x \in after, NEW y \in after, x[1] # y[1], Numbered(x[2]), Numbered(y[2])
               PROVE  x[2].id # y[2].id
    OBVIOUS
  <2>1. PICK v \in pending : v[1] = x[1] /\ v[2].id = x[2].id /\ Numbered(v[2])
    BY <1>2
  <2>2. PICK w \in pending : w[1] = y[1] /\ w[2].id = y[2].id /\ Numbered(w[2])
    BY <1>2
  <2> QED
    BY <2>1, <2>2 DEF SiteOK, PendingOK
<1> QED
  BY <1>1, <1>3 DEF SiteOK, PendingOK

(* A call gets its number.                                                 *)
LEMMA CallReceived ==
  ASSUME NEW count, NEW files, NEW done, NEW pending, SiteOK(count, files, done, pending),
         NEW c, NEW call \in Calls, call.id = count, call.stage = "log",
         NEW after \in SUBSET (Others(pending, c) \cup {<<c, call>>})
  PROVE  SiteOK(count + 1, files, done, after)
<1>1. count \in Nat /\ \A line \in Requested(files) : line.id \in Nat /\ line.id < count
  BY DEF SiteOK, FilesOK
<1>2. FilesOK(count + 1, files)
  <2>1. \A line \in Requested(files) : line.id \in Nat /\ line.id < count + 1
    BY <1>1
  <2> QED
    BY <1>1, <2>1 DEF SiteOK, FilesOK
<1>3. ASSUME NEW x \in pending
      PROVE  PendingCallOK(count + 1, files, done, x[2])
  <2>1. PendingCallOK(count, files, done, x[2])
    BY DEF SiteOK, PendingOK
  <2> QED
    BY <1>1, <2>1 DEF PendingCallOK
<1>4. PendingCallOK(count + 1, files, done, call)
  BY <1>1 DEF PendingCallOK
<1>5. \A x \in pending : Numbered(x[2]) => x[2].id # count
  BY <1>1 DEF SiteOK, PendingOK, PendingCallOK, Numbered
<1>6. \A y \in after : (y \in pending /\ y[1] # c) \/ (y[1] = c /\ y[2] = call)
  BY DEF Others
<1>7. PendingOK(count + 1, files, done, after)
  BY <1>3, <1>4, <1>5, <1>6 DEF SiteOK, PendingOK
<1> QED
  BY <1>2, <1>7 DEF SiteOK

(* A request line with a new id.                                           *)
LEMMA RequestLine ==
  ASSUME NEW count, NEW files, FilesOK(count, files), NEW f \in RequestFiles,
         NEW line \in LineSet, line.id \in Nat, \A l \in Requested(files) : l.id # line.id,
         NEW limit \in Nat, count <= limit, line.id < limit
  PROVE  FilesOK(limit, WithLine(files, f, line))
<1> DEFINE new == WithLine(files, f, line)
<1>1. files \in [FileNames -> Seq(LineSet)] /\ f \in FileNames
  BY DEF FilesOK, FileNames
<1>2. /\ new \in [FileNames -> Seq(LineSet)]
      /\ Requested(new) = Requested(files) \cup {line} /\ Erroneous(new) = Erroneous(files)
      /\ \A g \in FileNames : g # f => new[g] = files[g]
      /\ \A m \in DOMAIN new[f] :
           IF m \in DOMAIN files[f] THEN new[f][m] = files[f][m]
           ELSE m = Len(files[f]) + 1 /\ new[f][m] = line
  BY <1>1, LineAdded
<1> HIDE DEF new
<1>3. \A k \in RequestFiles : \A l \in DOMAIN files[k] : files[k][l] \in Requested(files)
  <2> SUFFICES ASSUME NEW k \in RequestFiles, NEW l \in DOMAIN files[k] PROVE files[k][l] \in LineSet
    BY DEF Requested, LinesIn
  <2>1. files[k] \in Seq(LineSet)
    BY <1>1 DEF FileNames
  <2> QED
    BY <2>1
<1>4. \A k \in RequestFiles : \A l \in DOMAIN new[k] :
        \/ l \in DOMAIN files[k] /\ new[k][l] = files[k][l] /\ new[k][l].id # line.id
        \/ k = f /\ l = Len(files[f]) + 1 /\ new[k][l].id = line.id
  BY <1>2, <1>3 DEF FileNames
<1>5. ASSUME NEW g \in RequestFiles, NEW h \in RequestFiles, NEW m \in DOMAIN new[g], NEW n \in DOMAIN new[h],
             new[g][m].id = new[h][n].id
      PROVE  g = h /\ m = n
  BY <1>4, <1>5 DEF FilesOK
<1>6. \A g \in ErrorFiles : new[g] = files[g]
  BY <1>2 DEF FileNames, RequestFiles, ErrorFiles
<1>7. \A l \in Requested(new) : l.id \in Nat /\ l.id < limit
  <2>1. \A l \in Requested(files) : l.id \in Nat /\ l.id < count
    BY DEF FilesOK
  <2>2. count \in Nat
    BY DEF FilesOK
  <2> QED
    BY <1>2, <2>1, <2>2
<1>8. FilesOK(limit, new)
  BY <1>2, <1>5, <1>6, <1>7 DEF FilesOK
<1> QED
  BY <1>8 DEF new

(* A request is logged.                                                    *)
LEMMA RequestLogged ==
  ASSUME NEW count, NEW files, NEW done, NEW pending, SiteOK(count, files, done, pending),
         NEW c, NEW call \in Calls, call.stage = "log", <<c, call>> \in pending,
         NEW f \in RequestFiles,
         NEW after \in SUBSET (Others(pending, c) \cup {<<c, [call EXCEPT !.stage = "serve"]>>})
  PROVE  SiteOK(count, WithLine(files, f, Line(call)), done, after)
<1> DEFINE new == WithLine(files, f, Line(call))
           next == [call EXCEPT !.stage = "serve"]
<1>1. /\ PendingCallOK(count, files, done, call) /\ FilesOK(count, files) /\ DoneOK(files, done)
      /\ PendingOK(count, files, done, pending)
  BY DEF SiteOK, PendingOK
<1>2. call.id \in Nat /\ call.id < count /\ \A line \in Requested(files) : line.id # call.id
  BY <1>1 DEF PendingCallOK
<1>3. Line(call) \in LineSet /\ Line(call).id = call.id
  BY LineType
<1>4. FilesOK(count, new)
  BY <1>1, <1>2, <1>3, RequestLine DEF FilesOK
<1>5. Requested(new) = Requested(files) \cup {Line(call)} /\ Erroneous(new) = Erroneous(files)
  <2>1. files \in [FileNames -> Seq(LineSet)] /\ f \in FileNames
    BY <1>1 DEF FilesOK, FileNames
  <2> QED
    BY <1>3, <2>1, LineAdded
<1>6. DoneOK(new, done)
  BY <1>1, <1>5 DEF DoneOK
<1> HIDE DEF new
<1>7. ASSUME NEW x \in Others(pending, c)
      PROVE  PendingCallOK(count, new, done, x[2])
  <2>1. PendingCallOK(count, files, done, x[2]) /\ (Numbered(x[2]) => x[2].id # call.id)
    BY <1>1 DEF Others, PendingOK, Numbered
  <2> QED
    BY <1>3, <1>5, <2>1 DEF PendingCallOK, Numbered
<1>8. next \in Calls /\ next.id = call.id /\ next.stage = "serve" /\ Line(next) = Line(call)
  BY DEF Calls, Stages, Line
<1> HIDE DEF next
<1>9. Line(call) \notin Erroneous(files)
  BY <1>1, <1>2, <1>3 DEF FilesOK
<1>10. \A h \in done : h.line.id # call.id
  BY <1>1, <1>2 DEF DoneOK
<1>11. PendingCallOK(count, new, done, next)
  BY <1>2, <1>5, <1>8, <1>9, <1>10 DEF PendingCallOK
<1>12. \A y \in after : (y \in Others(pending, c) /\ y \in pending /\ y[1] # c) \/ (y[1] = c /\ y[2] = next)
  BY DEF Others, next
<1>13. \A x \in pending : x[1] # c /\ Numbered(x[2]) => x[2].id # call.id
  BY <1>1 DEF PendingOK, Numbered
<1>14. PendingOK(count, new, done, after)
  BY <1>1, <1>7, <1>8, <1>11, <1>12, <1>13 DEF PendingOK
<1> QED
  BY <1>4, <1>6, <1>14 DEF SiteOK, new

(* An error is logged: its line is new, as its call has got no answer yet. *)
LEMMA ErrorLogged ==
  ASSUME NEW count, NEW files, NEW done, NEW pending, SiteOK(count, files, done, pending),
         NEW c, NEW call \in Calls, call.stage = "error", <<c, call>> \in pending,
         NEW f \in ErrorFiles,
         NEW after \in SUBSET (Others(pending, c) \cup {<<c, [call EXCEPT !.stage = "return"]>>})
  PROVE  SiteOK(count, WithLine(files, f, Line(call)), done, after)
<1> DEFINE new == WithLine(files, f, Line(call))
           next == [call EXCEPT !.stage = "return"]
<1>1. /\ PendingCallOK(count, files, done, call) /\ FilesOK(count, files) /\ DoneOK(files, done)
      /\ PendingOK(count, files, done, pending)
  BY DEF SiteOK, PendingOK
<1>2. /\ call.id \in Nat /\ call.id < count /\ Line(call) \in Requested(files) /\ Fails(call)
      /\ Line(call) \notin Erroneous(files) /\ \A h \in done : h.line.id # call.id
  BY <1>1 DEF PendingCallOK
<1>3. Line(call) \in LineSet /\ Line(call).id = call.id
  BY LineType
<1>4. files \in [FileNames -> Seq(LineSet)] /\ f \in FileNames /\ f \notin RequestFiles
  BY <1>1 DEF FilesOK, FileNames, RequestFiles, ErrorFiles
<1>5. /\ new \in [FileNames -> Seq(LineSet)]
      /\ Requested(new) = Requested(files) /\ Erroneous(new) = Erroneous(files) \cup {Line(call)}
      /\ \A g \in FileNames : g # f => new[g] = files[g]
      /\ \A m \in DOMAIN new[f] :
           IF m \in DOMAIN files[f] THEN new[f][m] = files[f][m]
           ELSE m = Len(files[f]) + 1 /\ new[f][m] = Line(call)
  BY <1>3, <1>4, LineAdded
<1> HIDE DEF new
<1>6. FilesOK(count, new)
  <2>1. \A k \in ErrorFiles : \A l \in DOMAIN files[k] : files[k][l] \in Erroneous(files)
    <3> SUFFICES ASSUME NEW k \in ErrorFiles, NEW l \in DOMAIN files[k] PROVE files[k][l] \in LineSet
      BY DEF Erroneous, LinesIn
    <3>1. files[k] \in Seq(LineSet)
      BY <1>4 DEF FileNames
    <3> QED
      BY <3>1
  <2>2. \A k \in ErrorFiles : \A l \in DOMAIN new[k] :
          \/ l \in DOMAIN files[k] /\ new[k][l] = files[k][l] /\ new[k][l] # Line(call)
          \/ k = f /\ l = Len(files[f]) + 1 /\ new[k][l] = Line(call)
    BY <1>2, <1>5, <2>1 DEF FileNames
  <2>3. ASSUME NEW g \in ErrorFiles, NEW h \in ErrorFiles, NEW m \in DOMAIN new[g], NEW n \in DOMAIN new[h],
               new[g][m] = new[h][n]
        PROVE  g = h /\ m = n
    BY <1>1, <2>2, <2>3 DEF FilesOK
  <2>4. \A g \in RequestFiles : new[g] = files[g]
    BY <1>4, <1>5 DEF FileNames
  <2> QED
    BY <1>1, <1>2, <1>5, <2>3, <2>4 DEF FilesOK
<1>7. DoneOK(new, done)
  BY <1>1, <1>2, <1>3, <1>5 DEF DoneOK
<1>8. ASSUME NEW x \in Others(pending, c)
      PROVE  PendingCallOK(count, new, done, x[2])
  <2>1. PendingCallOK(count, files, done, x[2]) /\ (Numbered(x[2]) => x[2].id # call.id)
    BY <1>1, <1>2 DEF Others, PendingOK, Numbered
  <2>2. x[2] \in Calls => Line(x[2]).id = x[2].id
    BY LineType
  <2> QED
    BY <1>3, <1>5, <2>1, <2>2 DEF PendingCallOK, Numbered
<1>9. /\ next \in Calls /\ next.id = call.id /\ next.stage = "return" /\ Line(next) = Line(call)
      /\ Fails(next) <=> Fails(call)
  BY DEF Calls, Stages, Line, Fails
<1> HIDE DEF next
<1>10. PendingCallOK(count, new, done, next)
  BY <1>2, <1>5, <1>9 DEF PendingCallOK
<1>11. \A y \in after : (y \in Others(pending, c) /\ y \in pending /\ y[1] # c) \/ (y[1] = c /\ y[2] = next)
  BY DEF Others, next
<1>12. \A x \in pending : x[1] # c /\ Numbered(x[2]) => x[2].id # call.id
  BY <1>1 DEF PendingOK, Numbered
<1>13. PendingOK(count, new, done, after)
  BY <1>1, <1>8, <1>9, <1>10, <1>11, <1>12 DEF PendingOK
<1> QED
  BY <1>6, <1>7, <1>13 DEF SiteOK, new

(* A call is answered.                                                     *)
LEMMA CallReturned ==
  ASSUME NEW count, NEW files, NEW done, NEW pending, SiteOK(count, files, done, pending),
         NEW c, NEW call \in Calls, call.stage = "return", <<c, call>> \in pending,
         NEW after \in SUBSET Others(pending, c)
  PROVE  SiteOK(count, files, done \cup {Outcome(call)}, after)
<1> DEFINE now == done \cup {Outcome(call)}
<1>1. /\ PendingCallOK(count, files, done, call) /\ FilesOK(count, files) /\ DoneOK(files, done)
      /\ PendingOK(count, files, done, pending)
  BY DEF SiteOK, PendingOK
<1>2. Line(call) \in Requested(files) /\ (Line(call) \in Erroneous(files) <=> Fails(call))
  BY <1>1 DEF PendingCallOK
<1>3. Outcome(call).line = Line(call) /\ Outcome(call).failed = Fails(call) /\ Line(call).id = call.id
  BY LineType DEF Outcome
<1>4. DoneOK(files, now)
  BY <1>1, <1>2, <1>3 DEF DoneOK
<1>5. ASSUME NEW x \in after
      PROVE  PendingCallOK(count, files, now, x[2])
  <2>1. PendingCallOK(count, files, done, x[2]) /\ (Numbered(x[2]) => x[2].id # call.id)
    BY <1>1 DEF Others, PendingOK, Numbered
  <2> QED
    BY <1>3, <2>1 DEF PendingCallOK, Numbered
<1>6. PendingOK(count, files, now, after)
  BY <1>1, <1>5 DEF PendingOK, Others
<1> QED
  BY <1>1, <1>4, <1>6 DEF SiteOK

(* The proxy asks for the corpora of a server.                             *)
LEMMA ListingAnswered ==
  ASSUME NEW count, NEW files, NEW done, NEW pending, SiteOK(count, files, done, pending),
         NEW line \in LineSet, line.id = count, NEW f \in RequestFiles
  PROVE  SiteOK(count + 1, WithLine(files, f, line), done \cup {[line |-> line, failed |-> FALSE]}, pending)
<1> DEFINE new == WithLine(files, f, line)
           now == done \cup {[line |-> line, failed |-> FALSE]}
<1>1. /\ FilesOK(count, files) /\ DoneOK(files, done) /\ PendingOK(count, files, done, pending)
      /\ count \in Nat /\ count + 1 \in Nat /\ count <= count + 1 /\ count < count + 1
  BY DEF SiteOK, FilesOK
<1>2. \A l \in Requested(files) : l.id # line.id
  BY <1>1 DEF FilesOK
<1>3. FilesOK(count + 1, new)
  BY <1>1, <1>2, RequestLine
<1>4. Requested(new) = Requested(files) \cup {line} /\ Erroneous(new) = Erroneous(files)
  <2>1. files \in [FileNames -> Seq(LineSet)] /\ f \in FileNames
    BY <1>1 DEF FilesOK, FileNames
  <2> QED
    BY <2>1, LineAdded
<1> HIDE DEF new
<1>5. line \notin Erroneous(files)
  BY <1>1, <1>2 DEF FilesOK
<1>6. DoneOK(new, now)
  BY <1>1, <1>4, <1>5 DEF DoneOK
<1>7. ASSUME NEW x \in pending
      PROVE  PendingCallOK(count + 1, new, now, x[2])
  <2>1. PendingCallOK(count, files, done, x[2])
    BY <1>1 DEF PendingOK
  <2>2. x[2] \in Calls /\ (Numbered(x[2]) => x[2].id \in Nat /\ x[2].id < count)
    BY <2>1 DEF PendingCallOK, Numbered
  <2>3. Numbered(x[2]) => x[2].id # line.id /\ x[2].id < count + 1
    BY <1>1, <2>2
  <2> QED
    BY <1>4, <2>1, <2>2, <2>3 DEF PendingCallOK, Numbered
<1>8. PendingOK(count + 1, new, now, pending)
  BY <1>1, <1>7 DEF PendingOK
<1> QED
  BY <1>3, <1>6, <1>8 DEF SiteOK, new

-----------------------------------------------------------------------------
(* The logs of all sites *)

PendingAt(calls, s) ==
  {x \in Clients \X Calls : \E i \in DOMAIN calls[x[1]] : calls[x[1]][i] = x[2] /\ x[2].site = s}
LogsOK ==
  /\ DOMAIN log = Sites /\ DOMAIN handled = Sites
  /\ \A s \in Logged : SiteOK(counter[s], log[s], handled[s], PendingAt(frames, s))

Kept(before, after) == \A y \in after : y \in before \/ Arrives(y) \/ \E x \in before : Moves(x, y)

(* A step that changes the log of at most one site r.                      *)
LEMMA OneLog ==
  ASSUME LogsOK, NEW r, DOMAIN log' = Sites, DOMAIN handled' = Sites,
         \A s \in Logged :
           s # r => /\ counter'[s] = counter[s] /\ log'[s] = log[s] /\ handled'[s] = handled[s]
                    /\ Kept(PendingAt(frames, s), PendingAt(frames', s)),
         r \in Logged => SiteOK(counter'[r], log'[r], handled'[r], PendingAt(frames', r))
  PROVE  LogsOK'
<1>1. ASSUME NEW s \in Logged
      PROVE  SiteOK(counter'[s], log'[s], handled'[s], PendingAt(frames', s))
  <2>1. CASE s = r
    BY <2>1
  <2>2. CASE s # r
    <3>1. SiteOK(counter[s], log[s], handled[s], PendingAt(frames, s))
      BY DEF LogsOK
    <3>2. Kept(PendingAt(frames, s), PendingAt(frames', s))
      BY <2>2
    <3>3. SiteOK(counter[s], log[s], handled[s], PendingAt(frames', s))
      BY <3>1, <3>2, CallsMove DEF Kept
    <3> QED
      BY <2>2, <3>3
  <2> QED
    BY <2>1, <2>2
<1> QED
  BY <1>1 DEF LogsOK

(* A step that changes no log.                                             *)
LEMMA NoLogChanged ==
  ASSUME LogsOK, UNCHANGED <<counter, log, handled>>,
         \A s \in Logged : Kept(PendingAt(frames, s), PendingAt(frames', s))
  PROVE  LogsOK'
<1>1. ASSUME NEW s \in Logged
      PROVE  SiteOK(counter[s], log[s], handled[s], PendingAt(frames', s))
  <2>1. SiteOK(counter[s], log[s], handled[s], PendingAt(frames, s))
    BY DEF LogsOK
  <2> QED
    BY <2>1, CallsMove DEF Kept
<1> QED
  BY <1>1 DEF LogsOK

(* The last call of a client is pending at its site.                       *)
LEMMA TopPending ==
  ASSUME ServiceInv, NEW c \in Clients, frames[c] # <<>>
  PROVE  Top(c) \in Calls /\ Top(c).site \in Sites /\ <<c, Top(c)>> \in PendingAt(frames, Top(c).site)
<1>1. /\ frames[c] \in Seq(Calls) /\ Len(frames[c]) \in {1, 2}
      /\ Top(c) = frames[c][Len(frames[c])] /\ Top(c) \in Calls
  BY TopType DEF ServiceInv, CallOK
<1>2. Len(frames[c]) \in DOMAIN frames[c]
  BY <1>1
<1> QED
  BY <1>1, <1>2 DEF PendingAt, Calls

(* A step that replaces the last call of a client.                         *)
LEMMA TopChanges ==
  ASSUME ServiceInv, NEW c \in Clients, frames[c] # <<>>,
         NEW call \in Calls, call.site = Top(c).site, WithTop(c, call)
  PROVE  /\ PendingAt(frames', Top(c).site) \subseteq Others(PendingAt(frames, Top(c).site), c) \cup {<<c, call>>}
         /\ \A s \in Sites : s # Top(c).site => PendingAt(frames', s) \subseteq PendingAt(frames, s)
<1> DEFINE n == Len(frames[c])
           calls == [frames[c] EXCEPT ![n] = call]
<1>1. frames' = [frames EXCEPT ![c] = calls] /\ DOMAIN frames = Clients
  BY DEF WithTop, ServiceInv, FramesOK
<1>2. /\ frames[c] \in Seq(Calls) /\ n \in {1, 2} /\ Top(c) = frames[c][n]
      /\ FrameOK(frames[c], Running, ListedCorpora, Offered)
  BY TopType DEF ServiceInv
<1>3. \A i \in DOMAIN calls :
        \/ calls[i] = call
        \/ calls[i] = frames[c][i] /\ i \in DOMAIN frames[c] /\ calls[i].site # Top(c).site
  <2>1. CASE n = 1
    BY <1>2, <2>1
  <2>2. CASE n = 2
    <3>1. Forwarded(frames[c][1], frames[c][2], Offered)
      BY <1>2, <2>2, FrameShape
    <3>2. frames[c][1].site # frames[c][2].site
      BY <3>1, ServiceAssumption DEF Forwarded
    <3> QED
      BY <1>2, <2>2, <3>2
  <2> QED
    BY <1>2, <2>1, <2>2
<1> HIDE DEF calls, n
<1>4. ASSUME NEW s, NEW y \in PendingAt(frames', s), y \notin Others(PendingAt(frames, s), c)
      PROVE  (y = <<c, call>> /\ s = Top(c).site) \/ (y \in PendingAt(frames, s) /\ s # Top(c).site)
  <2>1. y = <<c, y[2]>> /\ y[2] \in Calls
    BY <1>1, <1>4 DEF PendingAt, Others
  <2>2. PICK i \in DOMAIN calls : calls[i] = y[2] /\ y[2].site = s
    BY <1>1, <2>1 DEF PendingAt
  <2>3. CASE calls[i] = call
    BY <2>1, <2>2, <2>3
  <2>4. CASE calls[i] = frames[c][i] /\ i \in DOMAIN frames[c] /\ calls[i].site # Top(c).site
    BY <2>1, <2>2, <2>4 DEF PendingAt
  <2> QED
    BY <1>3, <2>3, <2>4
<1> QED
  BY <1>4 DEF Others

(* A call that gets an answer.                                             *)
LEMMA AnsweredMoves ==
  ASSUME NEW c, NEW call \in Calls, call.stage \in {"serve", "wait"}, call.site \in Logged, NEW answer \in Answers
  PROVE  Moves(<<c, call>>, <<c, Answered(call, answer)>>)
<1> DEFINE answered == [call EXCEPT !.answer = answer]
           next == Answered(call, answer)
<1>1. /\ next \in Calls /\ next.request = call.request
      /\ next.user = call.user /\ next.id = call.id /\ next.answer = answer
  BY AnsweredType
<1>2. answered \in Calls /\ answered.request = call.request /\ answered.answer = answer /\ answered.site = call.site
  BY DEF Calls
<1>3. Fails(next) <=> Fails(answered)
  BY <1>1, <1>2 DEF Fails
<1>4. next.stage = IF Fails(answered) THEN "error" ELSE "return"
  BY <1>2 DEF Answered, Calls
<1> HIDE DEF next, answered
<1>5. Line(next) = Line(call)
  BY <1>1 DEF Line
<1> QED
  BY <1>1, <1>3, <1>4, <1>5 DEF Moves, next

(* A log without lines.                                                    *)
LEMMA NewLog == SiteOK(0, NoLog, {}, {})
<1>1. NoLog \in [FileNames -> Seq(LineSet)] /\ \A f \in FileNames : DOMAIN NoLog[f] = {}
  BY DEF NoLog, FileNames, RequestFiles, ErrorFiles
<1>2. Requested(NoLog) = {} /\ Erroneous(NoLog) = {}
  BY <1>1 DEF Requested, Erroneous, LinesIn, FileNames
<1>3. FilesOK(0, NoLog)
  BY <1>1, <1>2 DEF FilesOK, FileNames
<1> QED
  BY <1>3 DEF SiteOK, DoneOK, PendingOK

-----------------------------------------------------------------------------
(* The steps and the logs *)

(* A server that starts has a new log and no calls.                        *)
LEMMA StartServerLogs ==
  ASSUME ServiceInv, LogsOK, NEW r \in Servers, StartServer(r)
  PROVE  LogsOK'
<1>1. /\ instances[r] = None /\ UNCHANGED frames
      /\ counter' = [counter EXCEPT ![r] = 0] /\ log' = [log EXCEPT ![r] = NoLog]
      /\ handled' = [handled EXCEPT ![r] = {}] /\ r \in Sites
  BY DEF StartServer, Sites
<1>2. DOMAIN log' = Sites /\ DOMAIN handled' = Sites
  BY <1>1 DEF LogsOK
<1>3. \A s \in Logged : s # r => /\ counter'[s] = counter[s] /\ log'[s] = log[s] /\ handled'[s] = handled[s]
                                 /\ Kept(PendingAt(frames, s), PendingAt(frames', s))
  BY <1>1, ServiceAssumption DEF ServiceInv, CounterOK, LogsOK, Kept, Sites
<1>4. counter'[r] = 0 /\ log'[r] = NoLog /\ handled'[r] = {}
  BY <1>1 DEF ServiceInv, CounterOK, LogsOK
<1>5. PendingAt(frames', r) = {}
  <2> SUFFICES ASSUME NEW y \in PendingAt(frames, r) PROVE FALSE
    BY <1>1
  <2>1. PICK i \in DOMAIN frames[y[1]] : frames[y[1]][i] = y[2] /\ y[2].site = r /\ y[1] \in Clients
    BY DEF PendingAt
  <2>2. CallOK(y[2], Running, ListedCorpora)
    BY <2>1 DEF ServiceInv, FramesOK, FrameOK
  <2> QED
    BY <1>1, <2>1, <2>2, WhatRuns DEF CallOK
<1> QED
  BY <1>2, <1>3, <1>4, <1>5, NewLog, OneLog

(* A server that stops leaves its log, and calls that fail.                *)
LEMMA StopServerLogs ==
  ASSUME ServiceInv, LogsOK, NEW r \in Servers, StopServer(r)
  PROVE  LogsOK'
<1>1. frames' = [c \in Clients |-> Dropped(frames[c], r)] /\ UNCHANGED <<counter, log, handled>>
  BY DEF StopServer, logger
<1>2. ASSUME NEW s \in Logged, NEW y \in PendingAt(frames', s)
      PROVE  y \in PendingAt(frames, s) \/ \E x \in PendingAt(frames, s) : Moves(x, y)
  <2> DEFINE c == y[1]
             calls == frames[c]
  <2>1. /\ c \in Clients /\ y[2] \in Calls /\ y = <<c, y[2]>>
        /\ y[2].site = s /\ \E i \in DOMAIN Dropped(calls, r) : Dropped(calls, r)[i] = y[2]
    BY <1>1 DEF PendingAt
  <2>2. FrameOK(calls, Running, ListedCorpora, Offered)
    BY <2>1 DEF ServiceInv, FramesOK
  <2>3. CASE Dropped(calls, r) = calls
    BY <2>1, <2>3 DEF PendingAt
  <2>4. CASE Dropped(calls, r) = <<>>
    BY <2>1, <2>4
  <2>5. CASE /\ Dropped(calls, r) = <<Answered(calls[1], Unavailable)>> /\ Len(calls) = 2
             /\ calls = <<calls[1], calls[2]>>
    <3>1. calls[1] \in Calls /\ calls[1].stage = "wait" /\ 1 \in DOMAIN calls
      <4>1. CallOK(calls[1], Running, ListedCorpora) /\ Forwarded(calls[1], calls[2], Offered)
        BY <2>2, <2>5, FrameShape
      <4>2. 1 \in DOMAIN calls
        BY <2>2, <2>5 DEF FrameOK
      <4> QED
        BY <4>1, <4>2 DEF Forwarded, CallOK
    <3>2. y[2] = Answered(calls[1], Unavailable)
      BY <2>1, <2>5
    <3>3. Unavailable \in Answers
      BY DEF Answers
    <3>4. calls[1].site = s
      BY <2>1, <3>1, <3>2, <3>3, AnsweredType
    <3>5. <<c, calls[1]>> \in PendingAt(frames, s)
      BY <2>1, <3>1, <3>4 DEF PendingAt
    <3>6. Moves(<<c, calls[1]>>, y)
      BY <2>1, <3>1, <3>2, <3>3, <3>4, AnsweredMoves
    <3> QED
      BY <3>5, <3>6
  <2>6. \/ Dropped(calls, r) = calls \/ Dropped(calls, r) = <<>>
        \/ /\ Dropped(calls, r) = <<Answered(calls[1], Unavailable)>> /\ Len(calls) = 2
           /\ calls = <<calls[1], calls[2]>>
    BY <2>2, FrameShape DEF Dropped, Answering
  <2> QED
    BY <2>3, <2>4, <2>5, <2>6
<1> QED
  BY <1>1, <1>2, NoLogChanged DEF Kept

(* A source that logs has one request more.                                *)
LEMMA AskSourceLogs ==
  ASSUME ServiceInv, LogsOK, AskSource
  PROVE  LogsOK'
<1> DEFINE r == proxy.sources[proxy.asked + 1]
           line == ListingOf(r)
<1>1. /\ UNCHANGED frames
      /\ \/ UNCHANGED <<counter, log, handled>>
         \/ /\ r \in Logged
            /\ counter' = [counter EXCEPT ![r] = @ + 1]
            /\ log' = [log EXCEPT ![r]["GetCorpora"] = Append(@, line)]
            /\ handled' = [handled EXCEPT ![r] = @ \cup {[line |-> line, failed |-> FALSE]}]
  BY DEF AskSource, logger, Write
<1>2. \A s \in Logged : Kept(PendingAt(frames, s), PendingAt(frames', s))
  BY <1>1 DEF Kept
<1>3. CASE UNCHANGED <<counter, log, handled>>
  BY <1>2, <1>3, NoLogChanged
<1>4. CASE /\ r \in Logged
           /\ counter' = [counter EXCEPT ![r] = @ + 1]
           /\ log' = [log EXCEPT ![r]["GetCorpora"] = Append(@, line)]
           /\ handled' = [handled EXCEPT ![r] = @ \cup {[line |-> line, failed |-> FALSE]}]
  <2>1. r \in Sites /\ Logged \subseteq Sites
    BY <1>4, ServiceAssumption DEF Sites
  <2> HIDE DEF r
  <2>2. line \in LineSet /\ line.id = counter[r]
    BY <2>1 DEF ListingOf, LineSet, Users, GetTrackingId, KnownRequests, ServiceInv, CounterOK, NoUser
  <2> HIDE DEF line
  <2>3. /\ counter'[r] = counter[r] + 1
        /\ log'[r] = WithLine(log[r], "GetCorpora", line)
        /\ handled'[r] = handled[r] \cup {[line |-> line, failed |-> FALSE]}
    BY <1>4, <2>1 DEF ServiceInv, CounterOK, LogsOK, WithLine
  <2>4. DOMAIN log' = Sites /\ DOMAIN handled' = Sites
    BY <1>4 DEF LogsOK
  <2>5. \A s \in Logged : s # r => /\ counter'[s] = counter[s] /\ log'[s] = log[s] /\ handled'[s] = handled[s]
    BY <1>4, <2>1 DEF ServiceInv, CounterOK, LogsOK
  <2>6. SiteOK(counter[r], log[r], handled[r], PendingAt(frames, r))
    BY <1>4 DEF LogsOK
  <2>7. "GetCorpora" \in RequestFiles
    BY DEF RequestFiles
  <2>8. SiteOK(counter'[r], log'[r], handled'[r], PendingAt(frames', r))
    BY <1>1, <2>2, <2>3, <2>6, <2>7, ListingAnswered
  <2> QED
    BY <1>2, <2>4, <2>5, <2>8, OneLog
<1> QED
  BY <1>1, <1>3, <1>4

(* A call that arrives.                                                    *)
LEMMA NewCallLogs ==
  ASSUME ServiceInv, LogsOK, NEW c \in Clients, NEW site \in Sites, NEW request \in KnownRequests,
         NEW id, GetTrackingId(id) \in Users,
         frames' = [frames EXCEPT ![c] = <<Call(site, request, id)>>],
         UNCHANGED <<counter, log, handled>>
  PROVE  LogsOK'
<1> DEFINE call == Call(site, request, id)
<1>1. call \in Calls /\ call.site = site
  BY CallType
<1>2. call.site \in Logged => call.stage = "receive"
  BY DEF Call
<1> HIDE DEF call
<1>3. ASSUME NEW s \in Logged, NEW y \in PendingAt(frames', s)
      PROVE  y \in PendingAt(frames, s) \/ Arrives(y)
  <2>1. DOMAIN frames = Clients /\ frames' = [frames EXCEPT ![c] = <<call>>]
    BY DEF ServiceInv, FramesOK, call
  <2>2. \/ y \in Others(PendingAt(frames, s), c)
        \/ y = <<c, y[2]>> /\ \E i \in DOMAIN <<call>> : <<call>>[i] = y[2] /\ y[2].site = s
    BY <2>1 DEF PendingAt, Others
  <2> QED
    BY <1>1, <1>2, <2>2 DEF Others, Arrives
<1> QED
  BY <1>3, NoLogChanged DEF Kept

(* A call gets a number that no other has.                                 *)
LEMMA ReceiveLogs ==
  ASSUME ServiceInv, LogsOK, NEW c \in Clients, Receive(c)
  PROVE  LogsOK'
<1> DEFINE r == Top(c).site
           call == [Top(c) EXCEPT !.id = counter[r], !.stage = "log"]
<1>1. /\ frames[c] # <<>> /\ WithTop(c, call) /\ UNCHANGED <<log, handled>>
      /\ counter' = [counter EXCEPT ![r] = @ + 1]
  BY DEF Receive, AtStage
<1>2. Top(c) \in Calls /\ r \in Sites
  BY <1>1, TopPending
<1>3. counter[r] \in Nat /\ counter'[r] = counter[r] + 1 /\ \A s \in Sites : s # r => counter'[s] = counter[s]
  BY <1>1, <1>2 DEF ServiceInv, CounterOK
<1>4. call \in Calls /\ call.site = r /\ call.id = counter[r] /\ call.stage = "log"
  BY <1>2, <1>3 DEF Calls, Stages
<1> HIDE DEF call
<1>5. /\ PendingAt(frames', r) \subseteq Others(PendingAt(frames, r), c) \cup {<<c, call>>}
      /\ \A s \in Sites : s # r => PendingAt(frames', s) \subseteq PendingAt(frames, s)
  BY <1>1, <1>4, TopChanges
<1> HIDE DEF r
<1>6. r \in Logged => SiteOK(counter'[r], log'[r], handled'[r], PendingAt(frames', r))
  <2>1. r \in Logged => SiteOK(counter[r], log[r], handled[r], PendingAt(frames, r))
    BY DEF LogsOK
  <2>2. r \in Logged => SiteOK(counter[r] + 1, log[r], handled[r], PendingAt(frames', r))
    BY <1>4, <1>5, <2>1, CallReceived
  <2> QED
    BY <1>1, <1>3, <2>2
<1>7. DOMAIN log' = Sites /\ DOMAIN handled' = Sites
  BY <1>1 DEF LogsOK
<1>8. \A s \in Logged : s # r => /\ counter'[s] = counter[s] /\ log'[s] = log[s] /\ handled'[s] = handled[s]
                                 /\ Kept(PendingAt(frames, s), PendingAt(frames', s))
  BY <1>1, <1>3, <1>5, ServiceAssumption DEF Kept, Sites
<1> QED
  BY <1>6, <1>7, <1>8, OneLog

(* A line more in the log of a site.                                       *)
LEMMA WriteKeeps ==
  ASSUME LogsOK, NEW r \in Sites, NEW file, NEW line, Write(r, file, line)
  PROVE  /\ DOMAIN log' = Sites /\ log'[r] = WithLine(log[r], file, line)
         /\ \A s \in Sites : s # r => log'[s] = log[s]
BY DEF LogsOK, Write, WithLine

(* A request line is written.                                              *)
LEMMA LogRequestLogs ==
  ASSUME ServiceInv, LogsOK, NEW c \in Clients, LogRequest(c)
  PROVE  LogsOK'
<1> DEFINE old == Top(c)
           r == old.site
           file == old.request.method
           call == [old EXCEPT !.stage = "serve"]
<1>1. /\ frames[c] # <<>> /\ old.stage = "log" /\ WithTop(c, call) /\ UNCHANGED <<counter, handled>>
      /\ Write(r, file, Line(old))
  BY DEF LogRequest, AtStage
<1>2. old \in Calls /\ r \in Sites /\ <<c, old>> \in PendingAt(frames, r)
  BY <1>1, TopPending
<1>3. call \in Calls /\ call.site = r /\ file \in RequestFiles
  BY <1>2, MethodsAreFiles DEF Calls, Stages
<1>4. /\ PendingAt(frames', r) \subseteq Others(PendingAt(frames, r), c) \cup {<<c, call>>}
      /\ \A s \in Sites : s # r => PendingAt(frames', s) \subseteq PendingAt(frames, s)
  BY <1>1, <1>3, TopChanges
<1> HIDE DEF old, r, file
<1>5. /\ DOMAIN log' = Sites /\ log'[r] = WithLine(log[r], file, Line(old))
      /\ \A s \in Sites : s # r => log'[s] = log[s]
  BY <1>1, <1>2, WriteKeeps
<1>6. r \in Logged => SiteOK(counter[r], log[r], handled[r], PendingAt(frames, r))
  BY DEF LogsOK
<1>7. r \in Logged => SiteOK(counter[r], WithLine(log[r], file, Line(old)), handled[r], PendingAt(frames', r))
  BY <1>1, <1>2, <1>3, <1>4, <1>6, RequestLogged
<1>8. r \in Logged => SiteOK(counter'[r], log'[r], handled'[r], PendingAt(frames', r))
  BY <1>1, <1>5, <1>7
<1>9. DOMAIN handled' = Sites
  BY <1>1 DEF LogsOK
<1>10. \A s \in Logged : s # r => /\ counter'[s] = counter[s] /\ log'[s] = log[s] /\ handled'[s] = handled[s]
                                  /\ Kept(PendingAt(frames, s), PendingAt(frames', s))
  BY <1>1, <1>4, <1>5, ServiceAssumption DEF Kept, Sites
<1> QED
  BY <1>5, <1>8, <1>9, <1>10, OneLog

(* An error line is written.                                               *)
LEMMA LogErrorLogs ==
  ASSUME ServiceInv, LogsOK, NEW c \in Clients, LogError(c)
  PROVE  LogsOK'
<1> DEFINE old == Top(c)
           r == old.site
           file == ErrorFile[old.request.method]
           call == [old EXCEPT !.stage = "return"]
<1>1. /\ frames[c] # <<>> /\ old.stage = "error" /\ WithTop(c, call) /\ UNCHANGED <<counter, handled>>
      /\ Write(r, file, Line(old))
  BY DEF LogError, AtStage
<1>2. old \in Calls /\ r \in Sites /\ <<c, old>> \in PendingAt(frames, r)
  BY <1>1, TopPending
<1>3. call \in Calls /\ call.site = r /\ file \in ErrorFiles
  BY <1>2, MethodsAreFiles DEF Calls, Stages
<1>4. /\ PendingAt(frames', r) \subseteq Others(PendingAt(frames, r), c) \cup {<<c, call>>}
      /\ \A s \in Sites : s # r => PendingAt(frames', s) \subseteq PendingAt(frames, s)
  BY <1>1, <1>3, TopChanges
<1> HIDE DEF old, r, file
<1>5. /\ DOMAIN log' = Sites /\ log'[r] = WithLine(log[r], file, Line(old))
      /\ \A s \in Sites : s # r => log'[s] = log[s]
  BY <1>1, <1>2, WriteKeeps
<1>6. r \in Logged => SiteOK(counter[r], log[r], handled[r], PendingAt(frames, r))
  BY DEF LogsOK
<1>7. r \in Logged => SiteOK(counter[r], WithLine(log[r], file, Line(old)), handled[r], PendingAt(frames', r))
  BY <1>1, <1>2, <1>3, <1>4, <1>6, ErrorLogged
<1>8. r \in Logged => SiteOK(counter'[r], log'[r], handled'[r], PendingAt(frames', r))
  BY <1>1, <1>5, <1>7
<1>9. DOMAIN handled' = Sites
  BY <1>1 DEF LogsOK
<1>10. \A s \in Logged : s # r => /\ counter'[s] = counter[s] /\ log'[s] = log[s] /\ handled'[s] = handled[s]
                                  /\ Kept(PendingAt(frames, s), PendingAt(frames', s))
  BY <1>1, <1>4, <1>5, ServiceAssumption DEF Kept, Sites
<1> QED
  BY <1>5, <1>8, <1>9, <1>10, OneLog

(* The last call of a client gets an answer.                               *)
LEMMA AnsweredLogs ==
  ASSUME ServiceInv, LogsOK, NEW c \in Clients, frames[c] # <<>>, Top(c).stage = "serve",
         NEW answer \in Answers, WithTop(c, Answered(Top(c), answer)), UNCHANGED <<counter, log, handled>>
  PROVE  LogsOK'
<1> DEFINE r == Top(c).site
           call == Answered(Top(c), answer)
<1>1. Top(c) \in Calls /\ r \in Sites /\ <<c, Top(c)>> \in PendingAt(frames, r)
  BY TopPending
<1>2. call \in Calls /\ call.site = r
  BY <1>1, AnsweredType
<1>3. r \in Logged => Moves(<<c, Top(c)>>, <<c, call>>)
  BY <1>1, AnsweredMoves
<1> HIDE DEF call
<1>4. /\ PendingAt(frames', r) \subseteq Others(PendingAt(frames, r), c) \cup {<<c, call>>}
      /\ \A s \in Sites : s # r => PendingAt(frames', s) \subseteq PendingAt(frames, s)
  BY <1>2, TopChanges DEF call
<1> HIDE DEF r
<1>5. \A s \in Logged : Kept(PendingAt(frames, s), PendingAt(frames', s))
  BY <1>1, <1>3, <1>4, ServiceAssumption DEF Kept, Sites, Others
<1> QED
  BY <1>5, NoLogChanged

(* An answer of an index.                                                  *)
LEMMA ServeCallLogs ==
  ASSUME ServiceInv, LogsOK, NEW c \in Clients, ServeCall(c)
  PROVE  LogsOK'
<1>1. PICK answer \in AnswersOf(Top(c)) : WithTop(c, Answered(Top(c), answer))
  BY DEF ServeCall
<1>2. /\ frames[c] # <<>> /\ Top(c).stage = "serve" /\ Top(c).site # Proxy
      /\ UNCHANGED <<counter, log, handled>>
  BY DEF ServeCall, AtStage, logger
<1>3. CallOK(Top(c), Running, ListedCorpora)
  BY <1>2, TopType DEF ServiceInv
<1>4. answer \in Answers
  BY <1>2, <1>3, AnswersOfIndex
<1> QED
  BY <1>1, <1>2, <1>4, AnsweredLogs

(* An answer of the proxy.                                                 *)
LEMMA AnswerAtProxyLogs ==
  ASSUME ServiceInv, LogsOK, NEW c \in Clients, AnswerAtProxy(c)
  PROVE  LogsOK'
<1>1. frames[c] # <<>> /\ Top(c).stage = "serve" /\ Top(c).site = Proxy /\ UNCHANGED <<counter, log, handled>>
  BY DEF AnswerAtProxy, AtStage, logger
<1>2. proxy # None
  BY <1>1, TopType, WhatRuns DEF ServiceInv, CallOK, Serves
<1>3. PICK answer \in {List(ListedCorpora), Error("INVALID_CORPUS")} : WithTop(c, Answered(Top(c), answer))
  BY DEF AnswerAtProxy
<1>4. answer \in Answers
  BY <1>2, ListedType DEF ServiceInv, Answers
<1> QED
  BY <1>1, <1>3, <1>4, AnsweredLogs

(* An answer is noted.                                                     *)
LEMMA ReturnedLogs ==
  ASSUME LogsOK, NEW c, NEW call \in Calls, call.site \in Sites, call.stage = "return",
         <<c, call>> \in PendingAt(frames, call.site), UNCHANGED <<counter, log>>,
         handled' = [handled EXCEPT ![call.site] = @ \cup {Outcome(call)}],
         PendingAt(frames', call.site) \subseteq Others(PendingAt(frames, call.site), c),
         \A s \in Logged : s # call.site => Kept(PendingAt(frames, s), PendingAt(frames', s))
  PROVE  LogsOK'
<1> DEFINE r == call.site
<1>1. handled'[r] = handled[r] \cup {Outcome(call)} /\ \A s \in Sites : s # r => handled'[s] = handled[s]
  BY DEF LogsOK
<1>2. r \in Logged => SiteOK(counter[r], log[r], handled[r], PendingAt(frames, r))
  BY DEF LogsOK
<1>3. r \in Logged => SiteOK(counter[r], log[r], handled[r] \cup {Outcome(call)}, PendingAt(frames', r))
  BY <1>2, CallReturned
<1>4. r \in Logged => SiteOK(counter'[r], log'[r], handled'[r], PendingAt(frames', r))
  BY <1>1, <1>3
<1>5. DOMAIN log' = Sites /\ DOMAIN handled' = Sites
  BY DEF LogsOK
<1>6. \A s \in Logged : s # r => /\ counter'[s] = counter[s] /\ log'[s] = log[s] /\ handled'[s] = handled[s]
                                 /\ Kept(PendingAt(frames, s), PendingAt(frames', s))
  BY <1>1, ServiceAssumption DEF Sites
<1> QED
  BY <1>4, <1>5, <1>6, OneLog

(* A call waits for another one, or fails.                                 *)
LEMMA ForwardLogs ==
  ASSUME ServiceInv, LogsOK, NEW c \in Clients, Forward(c)
  PROVE  LogsOK'
<1> DEFINE request == Top(c).request
           s == ServiceFor(request.corpus, request.query)
<1>1. /\ frames[c] # <<>> /\ Top(c).stage = "serve" /\ Top(c).site = Proxy
      /\ Forwarding(c, s) /\ UNCHANGED <<counter, log, handled>>
  BY DEF Forward, AtStage, logger
<1>2. Top(c) \in Calls /\ <<c, Top(c)>> \in PendingAt(frames, Proxy)
  BY <1>1, TopPending
<1> HIDE DEF s
<1>3. CASE Runs(s)
  <2> DEFINE first == [Top(c) EXCEPT !.stage = "wait"]
             second == Call(s, request, NoUser)
  <2>1. DOMAIN frames = Clients /\ frames' = [frames EXCEPT ![c] = <<first, second>>]
    BY <1>1, <1>3 DEF Forwarding, ServiceInv, FramesOK
  <2>2. Moves(<<c, Top(c)>>, <<c, first>>) /\ first.site = Proxy
    BY <1>1, <1>2 DEF Moves, Calls, Stages, Line
  <2>3. second.site = s /\ (s \in Logged => second.stage = "receive")
    BY DEF Call
  <2> HIDE DEF first, second
  <2>4. ASSUME NEW r \in Logged, NEW y \in PendingAt(frames', r)
        PROVE  y \in PendingAt(frames, r) \/ Arrives(y) \/ \E x \in PendingAt(frames, r) : Moves(x, y)
    <3>1. \/ y \in PendingAt(frames, r)
          \/ /\ y = <<c, y[2]>> /\ y[2] \in Calls /\ y[2].site = r
             /\ \E i \in DOMAIN <<first, second>> : <<first, second>>[i] = y[2]
      BY <2>1 DEF PendingAt
    <3>2. CASE y = <<c, first>> /\ r = Proxy
      BY <1>2, <2>2, <3>2
    <3>3. CASE y[2] = second /\ y[2] \in Calls /\ r = s
      BY <2>3, <3>3 DEF Arrives
    <3> QED
      BY <2>2, <2>3, <3>1, <3>2, <3>3
  <2> QED
    BY <1>1, <2>4, NoLogChanged DEF Kept
<1>4. CASE ~ Runs(s)
  <2>1. WithTop(c, Answered(Top(c), Unavailable))
    BY <1>1, <1>4 DEF Forwarding
  <2>2. Unavailable \in Answers
    BY DEF Answers
  <2> QED
    BY <1>1, <2>1, <2>2, AnsweredLogs
<1> QED
  BY <1>3, <1>4

(* A call ends, and that which waits for it gets its answer.               *)
LEMMA ReturnLogs ==
  ASSUME ServiceInv, LogsOK, NEW c \in Clients, Return(c)
  PROVE  LogsOK'
<1> DEFINE call == Top(c)
           r == call.site
           calls == Answering(frames[c], call.answer)
<1>1. /\ frames[c] # <<>> /\ call.stage = "return" /\ UNCHANGED <<counter, log>>
      /\ handled' = [handled EXCEPT ![r] = @ \cup {Outcome(call)}]
      /\ frames' = [frames EXCEPT ![c] = calls] /\ DOMAIN frames = Clients
  BY DEF Return, AtStage, logger, ServiceInv, FramesOK
<1>2. call \in Calls /\ r \in Sites /\ <<c, call>> \in PendingAt(frames, r)
  BY <1>1, TopPending
<1>3. /\ FrameOK(frames[c], Running, ListedCorpora, Offered) /\ Len(frames[c]) \in {1, 2}
      /\ call = frames[c][Len(frames[c])]
  BY <1>1, TopType DEF ServiceInv
<1> HIDE DEF call
<1>4. CASE calls = <<>>
  <2>1. \A s : PendingAt(frames', s) \subseteq Others(PendingAt(frames, s), c)
    BY <1>1, <1>4 DEF PendingAt, Others
  <2> QED
    BY <1>1, <1>2, <2>1, ReturnedLogs DEF Others, Kept
<1>5. CASE Len(frames[c]) = 2
  <2> DEFINE first == frames[c][1]
             next == Answered(first, call.answer)
  <2>1. /\ CallOK(first, Running, ListedCorpora) /\ Forwarded(first, call, Offered)
        /\ frames[c] = <<first, call>>
    BY <1>3, <1>5, FrameShape
  <2>2. /\ first \in Calls /\ first.site = Proxy /\ first.stage = "wait" /\ r # Proxy /\ call.answer \in Answers
        /\ frames[c][1] = first /\ 1 \in DOMAIN frames[c]
    BY <1>2, <2>1, ServiceAssumption DEF CallOK, Forwarded, Calls
  <2>3. calls = <<next>>
    BY <1>5 DEF Answering
  <2>4. <<c, first>> \in PendingAt(frames, Proxy)
    BY <2>2 DEF PendingAt
  <2>5. Proxy \in Logged => Moves(<<c, first>>, <<c, next>>)
    BY <2>2, AnsweredMoves
  <2>6. next \in Calls /\ next.site = Proxy
    BY <2>2, AnsweredType
  <2> HIDE DEF next, first, calls
  <2>7. ASSUME NEW s, NEW y \in PendingAt(frames', s)
        PROVE  y \in Others(PendingAt(frames, s), c) \/ (y = <<c, next>> /\ s = Proxy)
    BY <1>1, <2>3, <2>6 DEF PendingAt, Others
  <2>8. PendingAt(frames', r) \subseteq Others(PendingAt(frames, r), c)
    BY <2>2, <2>7
  <2>9. \A s \in Logged : Kept(PendingAt(frames, s), PendingAt(frames', s))
    BY <2>4, <2>5, <2>7 DEF Kept, Others
  <2> QED
    BY <1>1, <1>2, <2>8, <2>9, ReturnedLogs
<1> QED
  BY <1>3, <1>4, <1>5 DEF Answering

-----------------------------------------------------------------------------

(* In the beginning there are no lines.                                    *)
LEMMA InitLogs ==
  ASSUME Init
  PROVE  LogsOK
<1>1. \A s \in Sites : PendingAt(frames, s) = {}
  BY DEF Init, PendingAt
<1>2. Logged \subseteq Sites
  BY ServiceAssumption DEF Sites
<1>3. \A s \in Sites : counter[s] = 0 /\ log[s] = NoLog /\ handled[s] = {}
  BY DEF Init
<1>4. DOMAIN log = Sites /\ DOMAIN handled = Sites
  BY DEF Init
<1> QED
  BY <1>1, <1>2, <1>3, <1>4, NewLog DEF LogsOK

(* Every step keeps the invariant of the logs.                             *)
LEMMA NextLogs ==
  ASSUME ServiceInv, LogsOK, [Next]_vars
  PROVE  LogsOK'
<1>1. ASSUME NEW s \in Servers, StartServer(s) PROVE LogsOK'
  BY <1>1, StartServerLogs
<1>2. ASSUME NEW s \in Servers, StopServer(s) PROVE LogsOK'
  BY <1>2, StopServerLogs
<1>3. ASSUME UNCHANGED <<frames, counter, log, handled>> PROVE LogsOK'
  BY <1>3, NoLogChanged DEF Kept
<1>4. CASE StartProxy
  BY <1>3, <1>4 DEF StartProxy, logger
<1>5. CASE AskSource
  BY <1>5, AskSourceLogs
<1>6. ASSUME NEW c \in Workers, WorkerAsks(c) PROVE LogsOK'
  <2>1. Serves /\ UNCHANGED <<counter, log, handled>>
    BY <1>6 DEF WorkerAsks, logger
  <2>2. CASE More
    <3>1. PICK corpus \in ListedCorpora, query \in Queries :
            frames' = [frames EXCEPT ![c] =
              <<Call(Proxy, Search(corpus["corpus.key"], query), SetTrackingId(TrackingIdOf[c]))>>]
      BY <1>6, <2>2 DEF WorkerAsks
    <3>2. PICK e \in Entries : corpus = e.corpus
      BY <2>1, ListedType DEF ServiceInv, Serves
    <3>3. Search(corpus["corpus.key"], query) \in KnownRequests
      BY <3>2 DEF KnownRequests, KeyOf
    <3>4. c \in Clients /\ GetTrackingId(SetTrackingId(TrackingIdOf[c])) \in Users /\ Proxy \in Sites
      BY DEF Users, Clients, Sites
    <3> QED
      BY <2>1, <3>1, <3>3, <3>4, NewCallLogs
  <2>3. CASE ~ More
    BY <1>3, <1>6, <2>1, <2>3 DEF WorkerAsks
  <2> QED
    BY <2>2, <2>3
<1>7. ASSUME NEW c \in Visitors, VisitorAsks(c) PROVE LogsOK'
  <2>1. PICK site \in Sites, request \in Requests :
          frames' = [frames EXCEPT ![c] = <<Call(site, request, TrackingIdOf[c])>>]
    BY <1>7 DEF VisitorAsks
  <2>2. request \in KnownRequests /\ c \in Clients /\ GetTrackingId(TrackingIdOf[c]) \in Users
    BY DEF KnownRequests, Clients, Users
  <2>3. UNCHANGED <<counter, log, handled>>
    BY <1>7 DEF VisitorAsks, logger
  <2> QED
    BY <2>1, <2>2, <2>3, NewCallLogs
<1>8. ASSUME NEW c \in Clients, Handle(c) PROVE LogsOK'
  BY <1>8, ReceiveLogs, LogRequestLogs, ServeCallLogs, AnswerAtProxyLogs, ForwardLogs, LogErrorLogs, ReturnLogs
  DEF Handle
<1>9. CASE UNCHANGED vars
  BY <1>3, <1>9 DEF vars, logger
<1> QED
  BY <1>1, <1>2, <1>4, <1>5, <1>6, <1>7, <1>8, <1>9 DEF Next

(* However calls interleave and servers and the proxy start and stop: the  *)
(* request ids in a log are unique, an error has its request logged, and a *)
(* call that was answered has an error line if and only if it failed.      *)
THEOREM LogsTellAnswers == Spec => []LogTellsAnswers
<1>1. Init => ServiceInv /\ LogsOK
  BY InitKeeps, InitLogs
<1>2. ServiceInv /\ LogsOK /\ [Next]_vars => ServiceInv' /\ LogsOK'
  BY NextKeeps, NextLogs
<1>3. LogsOK => LogTellsAnswers
  <2> SUFFICES ASSUME LogsOK, NEW s \in Logged
               PROVE  /\ \A p, q \in Positions(s, RequestFiles) : LineAt(s, p).id = LineAt(s, q).id => p = q
                      /\ \A p, q \in Positions(s, ErrorFiles) : LineAt(s, p) = LineAt(s, q) => p = q
                      /\ Lines(s, ErrorFiles) \subseteq Lines(s, RequestFiles)
                      /\ \A h \in handled[s] :
                           h.line \in Lines(s, RequestFiles) /\ (h.line \in Lines(s, ErrorFiles) <=> h.failed)
    BY DEF LogTellsAnswers
  <2>1. FilesOK(counter[s], log[s]) /\ DoneOK(log[s], handled[s])
    BY DEF LogsOK, SiteOK
  <2>2. ASSUME NEW names \in SUBSET FileNames
        PROVE  /\ \A p \in Positions(s, names) :
                    p = <<p[1], p[2]>> /\ p[1] \in names /\ p[2] \in DOMAIN log[s][p[1]]
               /\ Lines(s, names) = LinesIn(log[s], names)
    <3>1. \A p : p \in Positions(s, names) <=> \E f \in names : \E n \in DOMAIN log[s][f] : p = <<f, n>>
      BY DEF Positions
    <3>2. \A f \in names : \A n \in DOMAIN log[s][f] : log[s][f][n] \in LineSet
      <4> TAKE f \in names
      <4> TAKE n \in DOMAIN log[s][f]
      <4>1. log[s][f] \in Seq(LineSet)
        BY <2>1 DEF FilesOK
      <4> QED
        BY <4>1
    <3>3. Lines(s, names) = LinesIn(log[s], names)
      <4>1. \A f \in names : \A n \in DOMAIN log[s][f] :
              <<f, n>> \in Positions(s, names) /\ LineAt(s, <<f, n>>) = log[s][f][n]
        BY <3>1 DEF LineAt
      <4>2. \A p \in Positions(s, names) : \E f \in names : \E n \in DOMAIN log[s][f] : LineAt(s, p) = log[s][f][n]
        BY <3>1 DEF LineAt
      <4>3. \A x : x \in Lines(s, names) <=> \E p \in Positions(s, names) : x = LineAt(s, p)
        BY DEF Lines
      <4>4. \A x : x \in LinesIn(log[s], names) <=>
              x \in LineSet /\ \E f \in names : \E n \in DOMAIN log[s][f] : log[s][f][n] = x
        BY DEF LinesIn
      <4>5. \A x \in Lines(s, names) : x \in LinesIn(log[s], names)
        BY <3>2, <4>2, <4>3, <4>4
      <4>6. \A x \in LinesIn(log[s], names) : x \in Lines(s, names)
        BY <4>1, <4>3, <4>4
      <4> QED
        BY <4>5, <4>6
    <3> QED
      BY <3>1, <3>3
  <2>3. RequestFiles \in SUBSET FileNames /\ ErrorFiles \in SUBSET FileNames
    BY DEF FileNames
  <2>4. Lines(s, RequestFiles) = Requested(log[s]) /\ Lines(s, ErrorFiles) = Erroneous(log[s])
    BY <2>2, <2>3 DEF Requested, Erroneous
  <2>5. \A p, q \in Positions(s, RequestFiles) : LineAt(s, p).id = LineAt(s, q).id => p = q
    BY <2>1, <2>2, <2>3 DEF FilesOK, LineAt
  <2>6. \A p, q \in Positions(s, ErrorFiles) : LineAt(s, p) = LineAt(s, q) => p = q
    BY <2>1, <2>2, <2>3 DEF FilesOK, LineAt
  <2> QED
    BY <2>1, <2>4, <2>5, <2>6 DEF FilesOK, DoneOK
<1> QED
  BY <1>1, <1>2, <1>3, PTL DEF Spec

-----------------------------------------------------------------------------
(* Paths of configurations *)

(* The elements of a sequence, and all but the last one.                   *)
LEMMA FrontType ==
  ASSUME NEW S, NEW s \in Seq(S)
  PROVE  /\ s \in Seq(ToSet(s)) /\ ToSet(s) \subseteq S
         /\ Front(s) \in Seq(S) /\ \A i \in DOMAIN Front(s) : i \in DOMAIN s /\ Front(s)[i] = s[i]
<1>1. Len(s) \in Nat /\ s \in [1 .. Len(s) -> S]
  OBVIOUS
<1>2. s \in [1 .. Len(s) -> ToSet(s)] /\ ToSet(s) \subseteq S
  BY <1>1 DEF ToSet
<1>3. s \in Seq(ToSet(s))
  BY <1>1, <1>2
<1>4. CASE s = <<>>
  <2>1. Front(s) = <<>>
    BY <1>4 DEF Front
  <2> QED
    BY <1>2, <1>3, <2>1
<1>5. CASE s # <<>>
  <2>1. Len(s) - 1 \in Nat /\ Len(s) - 1 <= Len(s)
    BY <1>1, <1>5
  <2>2. Front(s) = [i \in 1 .. Len(s) - 1 |-> s[i]]
    BY <1>1, <2>1 DEF Front
  <2>3. \A i \in 1 .. Len(s) - 1 : s[i] \in S /\ i \in DOMAIN s
    BY <1>1, <2>1
  <2> QED
    BY <1>2, <1>3, <2>1, <2>2, <2>3
<1> QED
  BY <1>4, <1>5

(* A canonical path is made name by name.                                  *)
CanonicalStep(names, name) == IF name = ".." THEN Front(names) ELSE Append(names, name)
MakesCanonical(g, names) ==
  g[0] = <<>> /\ \A n \in 1 .. Len(names) : g[n] = CanonicalStep(g[n - 1], names[n])

(* A path is made canonical by these steps.                                *)
LEMMA CanonicalSteps ==
  ASSUME NEW S, NEW path, path.names \in Seq(S)
  PROVE  \E g \in [0 .. Len(path.names) -> Seq(S)] :
           MakesCanonical(g, path.names) /\ Canonical(path) = Path(g[Len(path.names)])
<1> DEFINE names == path.names
           N == Len(names)
           f == [n \in 1 .. N |-> [q \in Seq(S) |-> CanonicalStep(q, names[n])]]
           R == Seq(S)
<1>1. N \in Nat /\ (\A n \in 1 .. N : names[n] \in S) /\ <<>> \in R
  OBVIOUS
<1>2. ASSUME NEW n \in 1 .. N, NEW q \in R PROVE CanonicalStep(q, names[n]) \in R
  BY <1>1, FrontType DEF CanonicalStep
<1> HIDE DEF R
<1>3. f \in [1 .. N -> [R -> R]] /\ \A n \in 1 .. N, q \in R : f[n][q] = CanonicalStep(q, names[n])
  BY <1>2 DEF R
<1> HIDE DEF f
<1>4. PICK g \in [0 .. N -> R] : g[0] = <<>> /\ \A n \in 1 .. N : g[n] = f[n][g[n - 1]]
  <2> HIDE DEF N
  <2>1. Iterable(N, R, <<>>, f)
    BY <1>1, <1>3 DEF Iterable
  <2>2. PICK g \in [0 .. N -> R] : Iterates(g, N, <<>>, f)
    BY <2>1, IterationExists
  <2> QED
    BY <2>2 DEF Iterates
<1>5. \A n \in 1 .. N : g[n] = CanonicalStep(g[n - 1], names[n])
  <2> HIDE DEF N
  <2> TAKE n \in 1 .. N
  <2>1. n - 1 \in 0 .. N
    BY <1>1
  <2>2. g[n - 1] \in R
    BY <1>4, <2>1
  <2> QED
    BY <1>3, <1>4, <2>2
<1> DEFINE body(n, h) == IF n = 0 THEN <<>>
                         ELSE IF names[n] = ".." THEN Front(h[n - 1]) ELSE Append(h[n - 1], names[n])
           made == CHOOSE h : h = [n \in 0 .. N |-> body(n, h)]
<1>6. g = [n \in 0 .. N |-> body(n, g)]
  <2> HIDE DEF N
  <2>1. \A n \in 0 .. N : n = 0 \/ n \in 1 .. N
    BY <1>1
  <2>2. \A n \in 0 .. N : g[n] = body(n, g)
    BY <1>1, <1>4, <1>5, <2>1 DEF CanonicalStep
  <2> HIDE DEF body
  <2> QED
    BY <1>4, <2>2
<1>7. made = [n \in 0 .. N |-> body(n, made)]
  <2> HIDE DEF body, N
  <2> QED
    BY <1>6
<1>8. Canonical(path) = Path(made[N])
  BY DEF Canonical
<1> HIDE DEF made
<1> DEFINE T == {n \in 0 .. N : made[n] = g[n]}
<1>9. 0 \in T /\ \A n \in 1 .. N : n - 1 \in T => n \in T
  <2> HIDE DEF N
  <2>1. made[0] = <<>> /\ g[0] = <<>> /\ 0 \in 0 .. N
    BY <1>1, <1>4, <1>7
  <2>2. ASSUME NEW n \in 1 .. N, n - 1 \in T PROVE n \in T
    <3>1. n \in 0 .. N /\ n # 0
      BY <1>1
    <3>2. made[n] = body(n, made) /\ g[n] = body(n, g)
      <4> HIDE DEF body
      <4> QED
        BY <1>6, <1>7, <3>1
    <3>3. made[n - 1] = g[n - 1]
      BY <2>2
    <3> QED
      BY <3>1, <3>2, <3>3
  <2> QED
    BY <2>1, <2>2
<1>10. made[N] = g[N]
  <2> HIDE DEF T, N
  <2>1. \A n \in 0 .. N : n \in T
    BY <1>1, <1>9, UpTo
  <2> QED
    BY <1>1, <2>1 DEF T
<1> QED
  BY <1>4, <1>5, <1>8, <1>10 DEF MakesCanonical, R

(* A canonical path goes down only, and such a path is left as it is.      *)
LEMMA CanonicalTwice ==
  ASSUME NEW S, NEW path, path.names \in Seq(S)
  PROVE  /\ Canonical(path).absolute = TRUE /\ Canonical(path).names \in Seq(S)
         /\ Canonical(Canonical(path)) = Canonical(path)
<1>1. ASSUME NEW p, p.names \in Seq(S)
      PROVE  /\ Canonical(p) = Path(Canonical(p).names) /\ Canonical(p).names \in Seq(S)
             /\ \A i \in DOMAIN Canonical(p).names : Canonical(p).names[i] # ".."
  <2> DEFINE names == p.names
             N == Len(names)
  <2>1. N \in Nat
    BY <1>1
  <2>2. PICK g \in [0 .. N -> Seq(S)] : MakesCanonical(g, names) /\ Canonical(p) = Path(g[N])
    BY <1>1, CanonicalSteps
  <2> HIDE DEF names
  <2> DEFINE T == {n \in 0 .. N : \A i \in DOMAIN g[n] : g[n][i] # ".."}
  <2>3. 0 \in T
    BY <2>1, <2>2 DEF MakesCanonical
  <2>4. ASSUME NEW n \in 1 .. N, n - 1 \in T PROVE n \in T
    <3>1. g[n] = CanonicalStep(g[n - 1], names[n]) /\ n \in 0 .. N
      BY <2>1, <2>2 DEF MakesCanonical
    <3>2. n - 1 \in 0 .. N /\ \A i \in DOMAIN g[n - 1] : g[n - 1][i] # ".."
      BY <2>4
    <3>3. g[n - 1] \in Seq(S)
      BY <2>2, <3>2
    <3> DEFINE q == g[n - 1]
    <3> HIDE DEF q
    <3>4. CASE names[n] = ".."
      <4>1. g[n] = Front(q)
        BY <3>1, <3>4 DEF CanonicalStep, q
      <4>2. \A i \in DOMAIN Front(q) : i \in DOMAIN q /\ Front(q)[i] = q[i]
        BY <3>3, FrontType DEF q
      <4> QED
        BY <3>1, <3>2, <4>1, <4>2 DEF q
    <3>5. CASE names[n] # ".."
      <4>1. g[n] = Append(q, names[n])
        BY <3>1, <3>5 DEF CanonicalStep, q
      <4>2. \A i \in DOMAIN Append(q, names[n]) :
              (i \in DOMAIN q /\ Append(q, names[n])[i] = q[i]) \/ Append(q, names[n])[i] = names[n]
        BY <3>3 DEF q
      <4> QED
        BY <3>1, <3>2, <3>5, <4>1, <4>2 DEF q
    <3> QED
      BY <3>4, <3>5
  <2>5. N \in T
    <3> HIDE DEF T, N
    <3>1. \A n \in 0 .. N : n \in T
      BY <2>1, <2>3, <2>4, UpTo
    <3> QED
      BY <2>1, <3>1
  <2> QED
    BY <2>1, <2>2, <2>5 DEF Path
<1> DEFINE p == Canonical(path)
           names == p.names
           N == Len(names)
<1>2. p = Path(names) /\ names \in Seq(S) /\ \A i \in DOMAIN names : names[i] # ".."
  BY <1>1
<1>3. N \in Nat /\ DOMAIN names = 1 .. N
  BY <1>2
<1>4. PICK g \in [0 .. N -> Seq(S)] : MakesCanonical(g, names) /\ Canonical(p) = Path(g[N])
  BY <1>2, CanonicalSteps
<1> HIDE DEF p, names
<1> DEFINE T == {n \in 0 .. N : g[n] = SubSeq(names, 1, n)}
<1>5. 0 \in T
  BY <1>2, <1>3, <1>4 DEF MakesCanonical
<1>6. ASSUME NEW n \in 1 .. N, n - 1 \in T PROVE n \in T
  <2>6. names[n] # ".." /\ n \in 0 .. N
    BY ONLY <1>2, <1>3
  <2>7. g[n] = CanonicalStep(g[n - 1], names[n])
    BY ONLY <1>4 DEF MakesCanonical
  <2>1. g[n] = Append(g[n - 1], names[n]) /\ n \in 0 .. N
    BY ONLY <2>6, <2>7 DEF CanonicalStep
  <2>2. g[n - 1] = SubSeq(names, 1, n - 1)
    BY <1>6
  <2>3. Append(SubSeq(names, 1, n - 1), names[n]) = SubSeq(names, 1, n)
    BY <1>2, <1>3
  <2> QED
    BY <2>1, <2>2, <2>3
<1>7. N \in T
  <2> HIDE DEF T, N
  <2>1. \A n \in 0 .. N : n \in T
    BY <1>3, <1>5, <1>6, UpTo
  <2> QED
    BY <1>3, <2>1
<1>8. g[N] = names
  BY <1>2, <1>3, <1>7
<1>9. p.absolute = TRUE
  BY <1>2 DEF Path
<1> QED
  BY <1>2, <1>4, <1>8, <1>9 DEF p, names

(* A relative path in a directory, or the working directory.               *)
NamesFrom(dir) == (IF dir = None THEN WorkDir ELSE dir).names
IsDir(dir) == NamesFrom(dir) \in Seq(ToSet(NamesFrom(dir)))

(* The names of an absolute path, and of one in it, are a sequence.        *)
LEMMA AbsolutePath ==
  ASSUME NEW path, IsPath(path), NEW dir, IsDir(dir), NEW c
  PROVE  \E S : Absolute(path, dir).names \in Seq(S) /\ Child(Absolute(path, dir), c).names \in Seq(S)
<1> DEFINE d == (IF dir = None THEN WorkDir ELSE dir).names
           S == ToSet(path.names) \cup ToSet(d) \cup {c}
           names == Absolute(path, dir).names
<1>1. path.names \in Seq(S) /\ d \in Seq(S)
  <2> HIDE DEF d
  <2>1. path.names \in Seq(ToSet(path.names)) /\ d \in Seq(ToSet(d))
    BY DEF IsPath, IsDir, NamesFrom, d
  <2> QED
    BY <2>1
<1>2. names = path.names \/ names = d \o path.names
  BY DEF Absolute, Path
<1>3. names \in Seq(S)
  <2> HIDE DEF names, d, S
  <2>1. \A s, t \in Seq(S) : s \o t \in Seq(S)
    OBVIOUS
  <2> QED
    BY ONLY <1>1, <1>2, <2>1
<1>4. Child(Absolute(path, dir), c).names = Append(names, c) /\ c \in S
  BY DEF Child, Path
<1> HIDE DEF names, S
<1> QED
  BY <1>3, <1>4 DEF names

(* A path that was made canonical is the same from everywhere.             *)
LEMMA CanonicalStays ==
  ASSUME NEW S, NEW path, path.names \in Seq(S), NEW dir
  PROVE  /\ IsPath(Canonical(path)) /\ Canonical(path).absolute /\ Canonical(path) # NoPath
         /\ RelativeTo(Canonical(path), dir) = Canonical(path)
<1> DEFINE p == Canonical(path)
<1>1. p.absolute = TRUE /\ p.names \in Seq(S) /\ Canonical(p) = p
  BY CanonicalTwice
<1> HIDE DEF p
<1>2. p.names \in Seq(ToSet(p.names))
  BY <1>1, FrontType
<1>3. p # NoPath
  BY <1>1 DEF NoPath, Relative
<1>4. RelativeTo(p, dir) = p
  BY <1>1 DEF RelativeTo, Absolute
<1> QED
  BY <1>1, <1>2, <1>3, <1>4 DEF p, IsPath

-----------------------------------------------------------------------------
(* Layers *)

(* The paths that lines give are no empty ones.                            *)
GivesPaths(lines) == \A i \in DOMAIN lines : lines[i][1] \in Paths => lines[i][2] # NoPath
HasPaths(values) == \A k \in Paths \cap DOMAIN values : IsPath(values[k]) /\ values[k] # NoPath

(* What is read from such lines has paths at the keys of paths, the same   *)
(* ones first and last where a key is set once.                            *)
LEMMA ReadValues ==
  ASSUME NEW lines, AreLines(lines), GivesPaths(lines)
  PROVE  /\ HasPaths(ReadProperties(lines)) /\ HasPaths(Given(lines))
         /\ DOMAIN ReadProperties(lines) = DOMAIN Given(lines)
         /\ \A k \in Paths \cap DOMAIN Given(lines) :
              k \notin SetTwice(lines) => ReadProperties(lines)[k] = Given(lines)[k]
<1> DEFINE keys == {lines[i][1] : i \in DOMAIN lines}
           first(k) == {i \in DOMAIN lines : lines[i][1] = k /\ \A j \in 1 .. i - 1 : lines[j][1] # k}
           at(k) == {i \in DOMAIN lines : lines[i][1] = k}
<1>1. Len(lines) \in Nat /\ DOMAIN lines = 1 .. Len(lines)
  BY DEF AreLines
<1>2. ASSUME NEW k \in keys PROVE at(k) \in SUBSET Nat /\ IsFiniteSet(at(k)) /\ at(k) # {}
  <2>1. IsFiniteSet(DOMAIN lines) /\ DOMAIN lines \in SUBSET Nat
    BY <1>1, FS_Interval
  <2> QED
    BY <2>1, FS_Subset
<1>3. ASSUME NEW k \in keys PROVE \E i \in first(k) : TRUE
  <2>1. PICK i \in at(k) : \A x \in at(k) : i <= x
    <3> HIDE DEF at
    <3> QED
      BY <1>2, LeastMember
  <2>2. \A j \in 1 .. i - 1 : j \in DOMAIN lines /\ ~ i <= j
    BY <1>1, <2>1
  <2>3. i \in first(k)
    BY <2>1, <2>2
  <2> QED
    BY <2>3
<1>4. ASSUME NEW k \in keys PROVE Max(at(k)) \in at(k)
  <2> DEFINE back == {Len(lines) - i : i \in at(k)}
  <2>1. at(k) \in SUBSET (1 .. Len(lines)) /\ \E i \in at(k) : TRUE
    BY <1>1
  <2> HIDE DEF at
  <2>2. back \in SUBSET (0 .. Len(lines)) /\ back # {}
    BY <1>1, <2>1
  <2>3. back \in SUBSET Nat /\ IsFiniteSet(back)
    <3> HIDE DEF back
    <3>1. IsFiniteSet(0 .. Len(lines)) /\ 0 .. Len(lines) \in SUBSET Nat
      BY <1>1, FS_Interval
    <3> QED
      BY <2>2, <3>1, FS_Subset
  <2>4. PICK m \in back : \A x \in back : m <= x
    <3> HIDE DEF back
    <3> QED
      BY <2>2, <2>3, LeastMember
  <2>5. PICK i \in at(k) : m = Len(lines) - i
    BY <2>4
  <2>6. ASSUME NEW j \in at(k) PROVE i >= j
    <3>1. Len(lines) - i <= Len(lines) - j
      BY <2>4, <2>5
    <3> QED
      BY <1>1, <2>1, <3>1
  <2> QED
    BY <2>6 DEF Max
<1> HIDE DEF first, at
<1>5. ASSUME NEW k \in Paths \cap keys
      PROVE  \E i, j \in DOMAIN lines :
               /\ lines[i][1] = k /\ ReadProperties(lines)[k] = lines[i][2]
               /\ lines[j][1] = k /\ Given(lines)[k] = lines[j][2]
  <2>1. ReadProperties(lines)[k] = lines[CHOOSE i \in DOMAIN lines :
                                           lines[i][1] = k /\ \A j \in 1 .. i - 1 : lines[j][1] # k][2]
    BY DEF ReadProperties
  <2>2. PICK i \in DOMAIN lines : lines[i][1] = k /\ ReadProperties(lines)[k] = lines[i][2]
    BY <1>3, <2>1 DEF first
  <2>3. Given(lines)[k] = lines[Max(at(k))][2]
    BY DEF Given, at
  <2>4. Max(at(k)) \in DOMAIN lines /\ lines[Max(at(k))][1] = k
    BY <1>4 DEF at
  <2> QED
    BY <2>2, <2>3, <2>4
<1>6. DOMAIN ReadProperties(lines) = keys /\ DOMAIN Given(lines) = keys
  BY DEF ReadProperties, Given
<1> HIDE DEF keys
<1>7. ASSUME NEW k \in Paths \cap keys
      PROVE  /\ IsPath(ReadProperties(lines)[k]) /\ ReadProperties(lines)[k] # NoPath
             /\ IsPath(Given(lines)[k]) /\ Given(lines)[k] # NoPath
  BY <1>5 DEF AreLines, GivesPaths
<1>8. ASSUME NEW k \in Paths \cap keys, k \notin SetTwice(lines)
      PROVE  ReadProperties(lines)[k] = Given(lines)[k]
  <2>1. PICK i, j \in DOMAIN lines : /\ lines[i][1] = k /\ ReadProperties(lines)[k] = lines[i][2]
                                    /\ lines[j][1] = k /\ Given(lines)[k] = lines[j][2]
    BY <1>5
  <2>2. ASSUME NEW m \in DOMAIN lines, NEW n \in 1 .. m - 1, lines[m][1] = k, lines[n][1] = k PROVE FALSE
    BY <1>8, <2>2 DEF SetTwice
  <2>3. i = j \/ i \in 1 .. j - 1 \/ j \in 1 .. i - 1
    BY <1>1
  <2>4. i = j
    BY <2>1, <2>2, <2>3
  <2> QED
    BY <2>1, <2>4
<1> QED
  BY <1>6, <1>7, <1>8 DEF HasPaths

(* Where a layer has a component of which it says where it is.             *)
PathIn(layer, c) ==
  IF HasPath(layer.values, c) THEN RelativeTo(layer.values[c], layer.dir)
  ELSE Canonical(Child(Absolute(layer.values["home"], layer.dir), c))
IsLayer(layer) == HasPaths(layer.values) /\ IsDir(layer.dir)

(* With home replaced, a layer has the components that it says where they  *)
(* are, and from its own directory they are there.                         *)
LEMMA SaidByLayer ==
  ASSUME NEW layer, IsLayer(layer), NEW c \in Components, NEW dir, IsDir(dir)
  PROVE  LET values == Layer(layer.values, layer.dir).values IN
         /\ c \in DOMAIN values <=> SaysWhere(layer, c)
         /\ SaysWhere(layer, c) =>
              /\ IsPath(values[c])
              /\ \/ dir = layer.dir
                 \/ HasPath(layer.values, c) => layer.values[c].absolute
                 => RelativeTo(values[c], dir) = PathIn(layer, c)
<1> DEFINE old == layer.values
           values == Layer(layer.values, layer.dir).values
           new(k) == Canonical(Child(Absolute(old["home"], layer.dir), k))
<1>1. /\ values = IF ~ HasPath(old, "home") THEN old ELSE Over(old, [k \in Components |-> new(k)])
      /\ HasPaths(old) /\ c \in Paths /\ "home" \in Paths
  BY DEF Layer, Desugared, IsLayer, Paths
<1> HIDE DEF new, old, values
<1>2. /\ HasPath(old, c) <=> c \in DOMAIN old
      /\ HasPath(old, "home") <=> "home" \in DOMAIN old
  BY <1>1 DEF HasPath, HasPaths
<1>3. DOMAIN Over(old, [k \in Components |-> new(k)]) = DOMAIN old \cup Components
  BY DEF Over
<1>4. c \in DOMAIN values <=> SaysWhere(layer, c)
  BY <1>1, <1>2, <1>3 DEF SaysWhere, old
<1>5. CASE HasPath(old, c)
  <2>1. values[c] = old[c] /\ IsPath(old[c])
    BY <1>1, <1>2, <1>5 DEF Over, HasPaths
  <2>2. PathIn(layer, c) = RelativeTo(old[c], layer.dir)
    BY <1>5 DEF PathIn, old
  <2>3. old[c].absolute => RelativeTo(old[c], dir) = RelativeTo(old[c], layer.dir)
    BY DEF RelativeTo, Absolute
  <2> QED
    BY <1>4, <1>5, <2>1, <2>2, <2>3 DEF old, values
<1>6. CASE ~ HasPath(old, c) /\ SaysWhere(layer, c)
  <2>1. HasPath(old, "home")
    BY <1>6 DEF SaysWhere, old
  <2>2. values[c] = new(c) /\ IsPath(old["home"])
    BY <1>1, <1>2, <1>3, <1>6, <2>1 DEF Over, HasPaths
  <2>3. PICK S : Child(Absolute(old["home"], layer.dir), c).names \in Seq(S)
    BY <2>2, AbsolutePath DEF IsLayer
  <2>4. IsPath(new(c)) /\ RelativeTo(new(c), dir) = new(c)
    BY <2>3, CanonicalStays DEF new
  <2>5. PathIn(layer, c) = new(c)
    BY <1>6 DEF PathIn, old, new
  <2> QED
    BY <1>4, <2>2, <2>4, <2>5 DEF values
<1> QED
  BY <1>4, <1>5, <1>6 DEF values

(* The first layer that says where a component is.                         *)
IsFirst(layers, m, c) == SaysWhere(layers[m], c) /\ \A j \in 1 .. m - 1 : ~ SaysWhere(layers[j], c)
ComesFrom(config, layers, m, c) ==
  /\ IsFirst(layers, m, c)
  /\ FirstToSay(layers, c) = layers[m]
  /\ Get(config, c) = Layer(layers[m].values, layers[m].dir).values[c]

(* What a configuration has for a component comes from the first layer     *)
(* that says where it is.                                                  *)
LEMMA LayersSay ==
  ASSUME NEW N \in Nat, NEW layers, DOMAIN layers = 1 .. N, \A i \in 1 .. N : IsLayer(layers[i]),
         NEW config, config = [i \in 1 .. N |-> Layer(layers[i].values, layers[i].dir)],
         NEW c \in Components
  PROVE  /\ c \in KeysOf(config) <=> \E i \in 1 .. N : SaysWhere(layers[i], c)
         /\ c \in KeysOf(config) => \E m \in 1 .. N : ComesFrom(config, layers, m, c)
<1> DEFINE saying == {i \in 1 .. N : SaysWhere(layers[i], c)}
<1>1. /\ DOMAIN config = 1 .. N
      /\ \A i \in 1 .. N : config[i] = Layer(layers[i].values, layers[i].dir)
  OBVIOUS
<1>2. ASSUME NEW i \in 1 .. N PROVE c \in DOMAIN config[i].values <=> i \in saying
  <2>1. IsLayer(layers[i]) /\ IsDir(layers[i].dir)
    BY DEF IsLayer
  <2>2. c \in DOMAIN Layer(layers[i].values, layers[i].dir).values <=> SaysWhere(layers[i], c)
    BY <2>1, SaidByLayer
  <2> QED
    BY <1>1, <2>2
<1>3. c # "extends"
  BY DEF Components
<1>4. c \in KeysOf(config) <=> saying # {}
  BY <1>1, <1>2, <1>3 DEF KeysOf
<1>5. ASSUME saying # {}
      PROVE  \E m \in 1 .. N : ComesFrom(config, layers, m, c)
  <2>1. saying \in SUBSET Nat /\ IsFiniteSet(saying)
    <3>1. saying \in SUBSET (1 .. N) /\ 1 .. N \in SUBSET Nat /\ IsFiniteSet(1 .. N)
      BY FS_Interval
    <3> HIDE DEF saying
    <3> QED
      BY <3>1, FS_Subset
  <2>2. PICK m \in saying : \A x \in saying : m <= x
    <3> HIDE DEF saying
    <3> QED
      BY <1>5, <2>1, LeastMember
  <2>3. m \in 1 .. N /\ \A j \in 1 .. m - 1 : j \in 1 .. N /\ ~ m <= j
    BY <2>2
  <2>4. \A j \in 1 .. m - 1 : j \notin saying
    BY <2>2, <2>3
  <2>5. ASSUME NEW i \in saying, \A j \in 1 .. i - 1 : j \notin saying PROVE i = m
    <3>1. i \in 1 .. N /\ m <= i
      BY <2>2
    <3>2. m < i => m \in 1 .. i - 1
      BY <2>3, <3>1
    <3> QED
      BY <2>2, <2>3, <2>5, <3>1, <3>2
  <2>6. FirstToSay(layers, c) = layers[m]
    <3> DEFINE P(i) == SaysWhere(layers[i], c) /\ \A j \in 1 .. i - 1 : ~ SaysWhere(layers[j], c)
    <3>1. P(m) /\ m \in DOMAIN layers
      BY <2>2, <2>3, <2>4
    <3>2. ASSUME NEW i \in DOMAIN layers, P(i) PROVE i = m
      BY <2>5, <3>2
    <3>3. (CHOOSE i \in DOMAIN layers : P(i)) = m
      <4> HIDE DEF P
      <4> QED
        BY <3>1, <3>2
    <3> QED
      BY <3>3 DEF FirstToSay
  <2>7. Get(config, c) = config[m].values[c]
    <3> DEFINE P(i) == c \in DOMAIN config[i].values /\ \A j \in 1 .. i - 1 : c \notin DOMAIN config[j].values
    <3>1. P(m) /\ m \in DOMAIN config
      BY <1>1, <1>2, <2>2, <2>3, <2>4
    <3>2. ASSUME NEW i \in DOMAIN config, P(i) PROVE i = m
      <4>1. i \in 1 .. N /\ i \in saying
        BY <1>1, <1>2, <3>2
      <4>2. \A j \in 1 .. i - 1 : j \in 1 .. N
        BY <4>1
      <4>3. \A j \in 1 .. i - 1 : j \notin saying
        BY <1>2, <3>2, <4>2
      <4> QED
        BY <2>5, <4>1, <4>3
    <3>3. (CHOOSE i \in DOMAIN config : P(i)) = m
      <4> HIDE DEF P
      <4> QED
        BY <3>1, <3>2
    <3> QED
      BY <3>3 DEF Get
  <2>8. IsFirst(layers, m, c)
    BY <2>2, <2>3, <2>4 DEF IsFirst
  <2> QED
    BY <1>1, <2>3, <2>6, <2>7, <2>8 DEF ComesFrom
<1> QED
  BY <1>1, <1>4, <1>5

(* Overrides are in front of the layers of the files.                      *)
LEMMA FirstOverridden ==
  ASSUME NEW N \in Nat, NEW layers, DOMAIN layers = 1 .. N, NEW all, DOMAIN all = 1 .. N + 1,
         \A i \in 1 .. N : all[i + 1] = layers[i], NEW c
  PROVE  /\ SaysWhere(all[1], c) => FirstToSay(all, c) = all[1]
         /\ \A m \in 1 .. N :
              ~ SaysWhere(all[1], c) /\ IsFirst(layers, m, c) => FirstToSay(all, c) = layers[m]
         /\ (\E i \in DOMAIN all : SaysWhere(all[i], c))
              <=> SaysWhere(all[1], c) \/ \E i \in 1 .. N : SaysWhere(layers[i], c)
<1> DEFINE P(i) == SaysWhere(all[i], c) /\ \A j \in 1 .. i - 1 : ~ SaysWhere(all[j], c)
<1>1. ASSUME NEW m \in DOMAIN all, P(m) PROVE FirstToSay(all, c) = all[m]
  <2>1. ASSUME NEW i \in DOMAIN all, P(i) PROVE i = m
    <3>1. i < m => i \in 1 .. m - 1
      OBVIOUS
    <3>2. m < i => m \in 1 .. i - 1
      OBVIOUS
    <3> QED
      BY <1>1, <2>1, <3>1, <3>2
  <2>2. (CHOOSE i \in DOMAIN all : P(i)) = m
    <3> HIDE DEF P
    <3> QED
      BY <1>1, <2>1
  <2> QED
    BY <2>2 DEF FirstToSay
<1>2. ASSUME SaysWhere(all[1], c) PROVE FirstToSay(all, c) = all[1]
  BY <1>1, <1>2
<1>3. ASSUME NEW m \in 1 .. N, ~ SaysWhere(all[1], c), IsFirst(layers, m, c)
      PROVE  FirstToSay(all, c) = layers[m]
  <2>1. m + 1 \in DOMAIN all /\ all[m + 1] = layers[m]
    OBVIOUS
  <2>2. ASSUME NEW j \in 1 .. m PROVE ~ SaysWhere(all[j], c)
    <3>1. j = 1 \/ (j - 1 \in 1 .. N /\ j - 1 \in 1 .. m - 1 /\ (j - 1) + 1 = j)
      OBVIOUS
    <3>2. j # 1 => all[j] = layers[j - 1]
      BY <3>1
    <3> QED
      BY <1>3, <3>1, <3>2 DEF IsFirst
  <2>3. (m + 1) - 1 = m
    OBVIOUS
  <2>4. P(m + 1)
    BY <1>3, <2>1, <2>2, <2>3 DEF IsFirst
  <2> QED
    BY <1>1, <2>1, <2>4
<1>4. ASSUME NEW i \in DOMAIN all PROVE i = 1 \/ \E j \in 1 .. N : all[i] = layers[j]
  <2>1. i = 1 \/ (i - 1 \in 1 .. N /\ (i - 1) + 1 = i)
    OBVIOUS
  <2> QED
    BY <2>1
<1>5. 1 \in DOMAIN all /\ \A j \in 1 .. N : j + 1 \in DOMAIN all
  OBVIOUS
<1>6. (\E i \in DOMAIN all : SaysWhere(all[i], c))
        <=> SaysWhere(all[1], c) \/ \E i \in 1 .. N : SaysWhere(layers[i], c)
  BY <1>4, <1>5
<1> QED
  BY <1>2, <1>3, <1>6

-----------------------------------------------------------------------------
(* Files *)

(* A file is the first of those that it is made of.                        *)
LEMMA ChainShape ==
  ASSUME NEW file \in DOMAIN Files
  PROVE  \E S : Chain[file] \in Seq(S) /\ Chain[file] # <<>> /\ Chain[file][1] = file
<1> DEFINE S == {file} \cup {ExtendedFile[x] : x \in DOMAIN Files}
           R == {q \in Seq(S) : q # <<>> /\ q[1] = file}
           N == Cardinality(DOMAIN Files)
           f == [n \in 1 .. N |-> [q \in R |-> Extending(q)]]
<1>1. N \in Nat
  BY FilesAssumption, FS_CardinalityType
<1>2. <<file>> \in R
  OBVIOUS
<1>3. ASSUME NEW q \in R PROVE Extending(q) \in R
  <2>1. ASSUME NEW x \in S PROVE Append(q, x) \in R
    <3> HIDE DEF S
    <3>1. q \in Seq(S) /\ Len(q) \in Nat /\ Len(q) > 0
      OBVIOUS
    <3>2. Append(q, x) \in Seq(S) /\ Append(q, x) # <<>> /\ Append(q, x)[1] = q[1]
      BY <3>1
    <3> QED
      BY <3>2
  <2>2. \A x \in DOMAIN Files : ExtendedFile[x] \in S
    OBVIOUS
  <2> HIDE DEF S, R
  <2> QED
    BY <2>1, <2>2 DEF Extending
<1> HIDE DEF R, N
<1>4. f \in [1 .. N -> [R -> R]] /\ \A n \in 1 .. N, q \in R : f[n][q] = Extending(q)
  BY <1>3
<1> HIDE DEF f
<1>5. PICK g \in [0 .. N -> R] : g[0] = <<file>> /\ \A n \in 1 .. N : g[n] = f[n][g[n - 1]]
  <2>1. Iterable(N, R, <<file>>, f)
    BY <1>1, <1>2, <1>4 DEF Iterable
  <2>2. PICK g \in [0 .. N -> R] : Iterates(g, N, <<file>>, f)
    BY <2>1, IterationExists
  <2> QED
    BY <2>2 DEF Iterates
<1> DEFINE body(n, h) == IF n = 0 THEN <<file>> ELSE Extending(h[n - 1])
           made == CHOOSE h : h = [n \in 0 .. N |-> body(n, h)]
           T == {n \in 0 .. N : made[n] \in R}
<1>6. g = [n \in 0 .. N |-> body(n, g)]
  <2>1. ASSUME NEW n \in 1 .. N PROVE g[n] = Extending(g[n - 1])
    <3>1. n - 1 \in 0 .. N
      BY <1>1
    <3>2. g[n - 1] \in R
      BY <1>5, <3>1
    <3> QED
      BY <1>4, <1>5, <3>2
  <2>2. \A n \in 0 .. N : n = 0 \/ n \in 1 .. N
    BY <1>1
  <2>3. \A n \in 0 .. N : g[n] = body(n, g)
    BY <1>1, <1>5, <2>1, <2>2
  <2> HIDE DEF body
  <2> QED
    BY <1>5, <2>3
<1>7. made = [n \in 0 .. N |-> body(n, made)]
  <2> HIDE DEF body
  <2> QED
    BY <1>6
<1>8. Chain[file] = made[N]
  BY DEF Chain, N
<1> HIDE DEF made
<1>9. made[0] = <<file>> /\ \A n \in 1 .. N : made[n] = Extending(made[n - 1])
  <2>1. \A n \in 1 .. N : n \in 0 .. N /\ n # 0
    BY <1>1
  <2>2. \A n \in 0 .. N : made[n] = body(n, made)
    <3> HIDE DEF body
    <3> QED
      BY <1>7
  <2> QED
    BY <1>1, <2>1, <2>2
<1>10. 0 \in T /\ \A n \in 1 .. N : n - 1 \in T => n \in T
  <2>1. \A n \in 1 .. N : n \in 0 .. N
    BY <1>1
  <2> QED
    BY <1>1, <1>2, <1>3, <1>9, <2>1
<1>11. N \in T
  <2> HIDE DEF T
  <2>1. \A n \in 0 .. N : n \in T
    BY <1>1, <1>10, UpTo
  <2> QED
    BY <1>1, <2>1
<1> QED
  BY <1>8, <1>11 DEF R

(* No directory is not a path, and no file has an empty path.              *)
NoneIsApart == None # [k \in DOMAIN None |-> None[k]]
FilesGivePaths == \A file \in DOMAIN Files : GivesPaths(Files[file])

(* The layers of a file that can be opened.                                *)
FileLayers(file) ==
  [i \in DOMAIN Chain[file] |->
     [values |-> ReadProperties(Files[Chain[file][i]]), dir |-> Parent(Chain[file][i])]]

(* They are layers, in directories, the first in that of the file.         *)
LEMMA LayersOfFile ==
  ASSUME NoneIsApart, FilesGivePaths, NEW file, CanOpen(file)
  PROVE  \E N \in Nat \ {0} :
           /\ DOMAIN FileLayers(file) = 1 .. N
           /\ \A i \in 1 .. N : IsLayer(FileLayers(file)[i]) /\ FileLayers(file)[i].dir # None
           /\ FileLayers(file)[1].dir = Parent(file)
<1> DEFINE chain == Chain[file]
           N == Len(chain)
           layers == FileLayers(file)
<1>1. file \in DOMAIN Files /\ ToSet(chain) \subseteq DOMAIN Files
  BY DEF CanOpen
<1>2. PICK S : chain \in Seq(S) /\ chain # <<>> /\ chain[1] = file
  BY <1>1, ChainShape
<1> HIDE DEF chain
<1>3. N \in Nat \ {0} /\ DOMAIN chain = 1 .. N
  BY <1>2
<1>4. DOMAIN layers = 1 .. N /\ layers[1].dir = Parent(file)
  BY <1>2, <1>3 DEF FileLayers, chain
<1>5. ASSUME NEW i \in 1 .. N PROVE IsLayer(layers[i]) /\ layers[i].dir # None
  <2> DEFINE f == chain[i]
  <2>1. f \in DOMAIN Files
    BY <1>1, <1>3 DEF ToSet
  <2>2. layers[i].values = ReadProperties(Files[f]) /\ layers[i].dir = Parent(f)
    BY <1>3 DEF FileLayers, chain
  <2> HIDE DEF f, layers
  <2>3. AreLines(Files[f]) /\ GivesPaths(Files[f]) /\ f.names \in Seq(ToSet(f.names))
    BY <2>1, FilesAssumption DEF FilesGivePaths
  <2>4. HasPaths(ReadProperties(Files[f]))
    BY <2>3, ReadValues
  <2>5. Front(f.names) \in Seq(ToSet(f.names))
    BY <2>3, FrontType
  <2>6. Front(f.names) \in Seq(ToSet(Front(f.names)))
    BY <2>5, FrontType
  <2>7. Parent(f) = [absolute |-> TRUE, names |-> Front(f.names)]
    BY DEF Parent, Path
  <2>8. Parent(f) # None
    <3>1. Parent(f) = [k \in DOMAIN Parent(f) |-> Parent(f)[k]]
      BY <2>7
    <3> QED
      BY <3>1 DEF NoneIsApart
  <2>9. IsDir(Parent(f))
    BY <2>6, <2>7, <2>8 DEF IsDir, NamesFrom
  <2> QED
    BY <2>2, <2>4, <2>8, <2>9 DEF IsLayer
<1> QED
  BY <1>3, <1>4, <1>5

(* A component that the files say where it is, by themselves.              *)
LEMMA OpenedPath ==
  ASSUME NoneIsApart, FilesGivePaths, NEW file, CanOpen(file), NEW c \in Components
  PROVE  /\ c \in KeysOf(Open(file)) <=> \E i \in DOMAIN FileLayers(file) : SaysWhere(FileLayers(file)[i], c)
         /\ c \in KeysOf(Open(file)) =>
              \E m \in DOMAIN FileLayers(file) :
                LET layer == FileLayers(file)[m] IN
                /\ IsFirst(FileLayers(file), m, c)
                /\ IsLayer(layer) /\ layer.dir # None
                /\ IsPath(Get(Open(file), c))
                /\ (HasPath(layer.values, c) => layer.values[c].absolute \/ layer.dir = Parent(file))
                     => GetPath(Open(file), c) = PathIn(layer, c)
<1> DEFINE layers == FileLayers(file)
<1>1. PICK N \in Nat \ {0} :
           /\ DOMAIN layers = 1 .. N
           /\ \A i \in 1 .. N : IsLayer(layers[i]) /\ layers[i].dir # None
           /\ layers[1].dir = Parent(file)
  BY LayersOfFile
<1>2. Open(file) = [i \in 1 .. N |-> Layer(layers[i].values, layers[i].dir)]
  BY <1>1 DEF Open, FileLayers
<1> HIDE DEF layers
<1>3. N \in Nat /\ 1 \in 1 .. N
  BY <1>1
<1>4. c \in KeysOf(Open(file)) <=> \E i \in 1 .. N : SaysWhere(layers[i], c)
  BY <1>1, <1>2, <1>3, LayersSay
<1>5. ASSUME c \in KeysOf(Open(file))
      PROVE  \E m \in 1 .. N :
                LET layer == layers[m] IN
                /\ IsFirst(layers, m, c)
                /\ IsLayer(layer) /\ layer.dir # None
                /\ IsPath(Get(Open(file), c))
                /\ (HasPath(layer.values, c) => layer.values[c].absolute \/ layer.dir = Parent(file))
                     => GetPath(Open(file), c) = PathIn(layer, c)
  <2>1. PICK m \in 1 .. N : ComesFrom(Open(file), layers, m, c)
    BY <1>1, <1>2, <1>3, <1>5, LayersSay
  <2>9. IsFirst(layers, m, c) /\ SaysWhere(layers[m], c)
    BY <2>1 DEF ComesFrom, IsFirst
  <2> DEFINE layer == layers[m]
             value == Layer(layer.values, layer.dir).values[c]
  <2>2. IsLayer(layer) /\ layer.dir # None
    BY <1>1
  <2>3. Open(file)[1].dir = Parent(file) /\ IsDir(Parent(file))
    BY <1>1, <1>2, <1>3 DEF Layer, IsLayer
  <2>4. GetPath(Open(file), c) = RelativeTo(value, Parent(file))
    BY <2>1, <2>3 DEF GetPath, ComesFrom
  <2> HIDE DEF layer
  <2>5. IsPath(value)
    BY <2>2, <2>3, <2>9, SaidByLayer DEF layer
  <2>6. (Parent(file) = layer.dir \/ (HasPath(layer.values, c) => layer.values[c].absolute))
          => RelativeTo(value, Parent(file)) = PathIn(layer, c)
    BY <2>2, <2>3, <2>9, SaidByLayer DEF layer
  <2> HIDE DEF value
  <2>7. IsPath(Get(Open(file), c))
    BY <2>1, <2>5 DEF value, layer, ComesFrom
  <2>8. (HasPath(layer.values, c) => layer.values[c].absolute \/ layer.dir = Parent(file))
          => GetPath(Open(file), c) = PathIn(layer, c)
    BY <2>4, <2>6
  <2> QED
    BY <2>2, <2>7, <2>8, <2>9 DEF layer
<1> QED
  BY <1>1, <1>4, <1>5 DEF layers

(* With a home, a layer has all components.                                *)
LEMMA HomeInLayer ==
  ASSUME NEW layer, IsLayer(layer), NEW c \in Components,
         "home" \in DOMAIN Layer(layer.values, layer.dir).values
  PROVE  SaysWhere(layer, c)
<1>1. "home" \in Paths /\ "home" \notin Components
  BY DEF Paths, Components
<1>2. "home" \in DOMAIN layer.values
  BY <1>1 DEF Layer, Desugared, Over
<1> QED
  BY <1>1, <1>2 DEF SaysWhere, HasPath, IsLayer, HasPaths

(* What is written, in front the overrides.                                *)
OwnLayer(lines) == [values |-> Given(lines), dir |-> None, twice |-> {}]

(* A layer as it is written and as it is read agree on a path.             *)
LayerAgrees(written, read, key) ==
  /\ written.dir = read.dir
  /\ HasPath(written.values, key) <=> HasPath(read.values, key)
  /\ HasPath(read.values, key) /\ key \notin written.twice => written.values[key] = read.values[key]

(* The layers of the files as they are read and as they are written say of *)
(* the same components where they are, and differ in what is set twice.    *)
LEMMA LayersAgree ==
  ASSUME FilesGivePaths, NEW file, CanOpen(file)
  PROVE  /\ DOMAIN WrittenLayers(file) = DOMAIN FileLayers(file)
         /\ \A i \in DOMAIN FileLayers(file) : \A k \in Paths :
              LayerAgrees(WrittenLayers(file)[i], FileLayers(file)[i], k)
<1>1. DOMAIN WrittenLayers(file) = DOMAIN FileLayers(file)
  BY DEF WrittenLayers, FileLayers
<1>2. ASSUME NEW i \in DOMAIN FileLayers(file)
      PROVE  \A k \in Paths : LayerAgrees(WrittenLayers(file)[i], FileLayers(file)[i], k)
  <2> DEFINE written == WrittenLayers(file)[i]
             read == FileLayers(file)[i]
             lines == Files[Chain[file][i]]
  <2>1. /\ written.values = Given(lines) /\ written.twice = SetTwice(lines)
        /\ read.values = ReadProperties(lines) /\ written.dir = read.dir
    BY DEF WrittenLayers, FileLayers
  <2>2. Chain[file][i] \in DOMAIN Files
    BY DEF CanOpen, FileLayers, ToSet
  <2>3. AreLines(lines) /\ GivesPaths(lines)
    BY <2>2, FilesAssumption DEF FilesGivePaths
  <2> HIDE DEF written, read, lines
  <2>4. /\ HasPaths(ReadProperties(lines)) /\ HasPaths(Given(lines))
        /\ DOMAIN ReadProperties(lines) = DOMAIN Given(lines)
        /\ \A k \in Paths \cap DOMAIN Given(lines) :
             k \notin SetTwice(lines) => ReadProperties(lines)[k] = Given(lines)[k]
    BY <2>3, ReadValues
  <2>5. ASSUME NEW k \in Paths PROVE LayerAgrees(written, read, k)
    BY <2>1, <2>4 DEF HasPath, HasPaths, LayerAgrees
  <2> QED
    BY <2>5 DEF written, read
<1> QED
  BY <1>1, <1>2

(* The overrides say where a component is, or the first file that does.    *)
LEMMA WrittenShape ==
  ASSUME NoneIsApart, FilesGivePaths, NEW file, CanOpen(file), NEW lines, NEW c \in Components
  PROVE  LET all == Written(file, lines)
             layers == WrittenLayers(file) IN
         /\ SaysWhere(OwnLayer(lines), c) => FirstToSay(all, c) = OwnLayer(lines)
         /\ \A m \in DOMAIN layers :
              ~ SaysWhere(OwnLayer(lines), c) /\ IsFirst(layers, m, c) => FirstToSay(all, c) = layers[m]
         /\ (\E i \in DOMAIN all : SaysWhere(all[i], c))
              <=> SaysWhere(OwnLayer(lines), c) \/ \E i \in DOMAIN layers : SaysWhere(layers[i], c)
<1> DEFINE all == Written(file, lines)
           layers == WrittenLayers(file)
           own == OwnLayer(lines)
<1>1. PICK N \in Nat \ {0} : DOMAIN layers = 1 .. N
  BY LayersOfFile, LayersAgree
<1>2. all = <<own>> \o layers
  BY DEF Written, OwnLayer
<1>3. layers = [i \in 1 .. N |-> layers[i]]
  BY <1>1 DEF WrittenLayers
<1> HIDE DEF all, layers, own
<1>4. layers \in Seq({layers[i] : i \in 1 .. N})
  BY <1>3
<1>5. Len(layers) = N
  BY <1>1, <1>4
<1>6. DOMAIN all = 1 .. N + 1 /\ all[1] = own /\ \A i \in 1 .. N : all[i + 1] = layers[i]
  <2> DEFINE S == {own} \cup {layers[i] : i \in 1 .. N}
  <2>1. <<own>> \in Seq(S) /\ layers \in Seq(S)
    BY <1>4
  <2>2. Len(all) = N + 1 /\ all \in Seq(S)
    BY <1>2, <1>5, <2>1
  <2>3. all[1] = own
    BY <1>2, <2>1
  <2>4. \A i \in 1 .. N : all[i + 1] = layers[i]
    BY <1>2, <1>5, <2>1
  <2> QED
    BY <2>2, <2>3, <2>4
<1>7. N \in Nat
  OBVIOUS
<1>8. /\ SaysWhere(all[1], c) => FirstToSay(all, c) = all[1]
      /\ \A m \in 1 .. N : ~ SaysWhere(all[1], c) /\ IsFirst(layers, m, c) => FirstToSay(all, c) = layers[m]
      /\ (\E i \in DOMAIN all : SaysWhere(all[i], c))
           <=> SaysWhere(all[1], c) \/ \E i \in 1 .. N : SaysWhere(layers[i], c)
  BY ONLY <1>1, <1>6, <1>7, FirstOverridden
<1>9. /\ SaysWhere(own, c) => FirstToSay(all, c) = own
      /\ \A m \in DOMAIN layers : ~ SaysWhere(own, c) /\ IsFirst(layers, m, c) => FirstToSay(all, c) = layers[m]
      /\ (\E i \in DOMAIN all : SaysWhere(all[i], c))
           <=> SaysWhere(own, c) \/ \E i \in DOMAIN layers : SaysWhere(layers[i], c)
  <2>1. all[1] = own /\ DOMAIN layers = 1 .. N
    BY <1>1, <1>6
  <2> QED
    BY ONLY <1>8, <2>1
<1> QED
  BY ONLY <1>9 DEF all, layers, own

(* The overrides alone.                                                    *)
LEMMA OverridesPath ==
  ASSUME NEW lines, AreLines(lines), GivesPaths(lines), NEW c \in Components
  PROVE  /\ c \in KeysOf(Overrides(lines)) <=> SaysWhere(OwnLayer(lines), c)
         /\ "home" \in KeysOf(Overrides(lines)) => SaysWhere(OwnLayer(lines), c)
         /\ c \in KeysOf(Overrides(lines)) =>
              /\ IsPath(Get(Overrides(lines), c)) /\ Overrides(lines)[1].dir = None
              /\ GetPath(Overrides(lines), c) = PathIn(OwnLayer(lines), c)
<1> DEFINE own == OwnLayer(lines)
           layers == [i \in 1 .. 1 |-> own]
           over == Overrides(lines)
<1>1. own.values = Given(lines) /\ own.dir = None
  BY DEF OwnLayer
<1>2. IsLayer(own)
  <2>1. HasPaths(Given(lines))
    BY ReadValues
  <2>2. IsDir(None)
    BY FilesAssumption DEF IsDir, NamesFrom
  <2> QED
    BY <1>1, <2>1, <2>2 DEF IsLayer
<1>3. over = [i \in 1 .. 1 |-> Layer(own.values, own.dir)]
  BY <1>1 DEF Overrides
<1>4. over = [i \in 1 .. 1 |-> Layer(layers[i].values, layers[i].dir)]
  BY <1>3
<1> HIDE DEF own
<1>5. DOMAIN layers = 1 .. 1 /\ \A i \in 1 .. 1 : IsLayer(layers[i]) /\ layers[i] = own
  BY <1>2
<1> HIDE DEF over, layers
<1>6. /\ c \in KeysOf(over) <=> \E i \in 1 .. 1 : SaysWhere(layers[i], c)
      /\ c \in KeysOf(over) => \E m \in 1 .. 1 : ComesFrom(over, layers, m, c)
  BY <1>4, <1>5, LayersSay
<1>7. c \in KeysOf(over) <=> SaysWhere(own, c)
  BY <1>5, <1>6
<1>8. ASSUME "home" \in KeysOf(over) PROVE SaysWhere(own, c)
  <2>1. "home" \in DOMAIN Layer(own.values, own.dir).values
    BY <1>3, <1>8 DEF KeysOf
  <2> QED
    BY <1>2, <2>1, HomeInLayer
<1>9. ASSUME c \in KeysOf(over)
      PROVE  IsPath(Get(over, c)) /\ over[1].dir = None /\ GetPath(over, c) = PathIn(own, c)
  <2>1. Get(over, c) = Layer(own.values, own.dir).values[c]
    BY <1>5, <1>6, <1>9 DEF ComesFrom
  <2>2. over[1].dir = own.dir
    BY <1>3 DEF Layer
  <2>3. SaysWhere(own, c) /\ IsDir(own.dir)
    BY <1>2, <1>7, <1>9 DEF IsLayer
  <2>4. /\ IsPath(Layer(own.values, own.dir).values[c])
        /\ RelativeTo(Layer(own.values, own.dir).values[c], own.dir) = PathIn(own, c)
    BY <1>2, <2>3, SaidByLayer
  <2>5. GetPath(over, c) = RelativeTo(Get(over, c), own.dir)
    BY <2>2 DEF GetPath
  <2> QED
    BY <1>1, <2>1, <2>2, <2>4, <2>5
<1> QED
  BY <1>7, <1>8, <1>9 DEF own, over

(* The path of a component as it is documented, or inherited, or set twice.*)
Excepted(file, all, c) == InheritedFromElsewhere(file, all, c) \/ FirstIsKept(all, c)
AsDocumented(config, file, all, c) ==
  /\ c \in KeysOf(config) <=> \E i \in DOMAIN all : SaysWhere(all[i], c)
  /\ c \in KeysOf(config) =>
       Excepted(file, all, c) \/ GetPath(config, c) = DocumentedPath(all, c)

(* Without overrides.                                                      *)
LEMMA FileAsDocumented ==
  ASSUME NoneIsApart, FilesGivePaths, NEW file, CanOpen(file), NEW lines, NEW c \in Components,
         ~ SaysWhere(OwnLayer(lines), c)
  PROVE  AsDocumented(Open(file), file, Written(file, lines), c)
<1> DEFINE all == Written(file, lines)
           layers == FileLayers(file)
<1> DEFINE written == WrittenLayers(file)
<1>0. /\ DOMAIN written = DOMAIN layers
      /\ \A i \in DOMAIN layers : LayerAgrees(written[i], layers[i], c) /\ LayerAgrees(written[i], layers[i], "home")
  <2>1. c \in Paths /\ "home" \in Paths
    BY DEF Paths
  <2> QED
    BY <2>1, LayersAgree
<1> HIDE DEF written, layers
<1>3. ASSUME NEW i \in DOMAIN layers PROVE SaysWhere(written[i], c) <=> SaysWhere(layers[i], c)
  <2>1. LayerAgrees(written[i], layers[i], c) /\ LayerAgrees(written[i], layers[i], "home")
    BY <1>0
  <2> QED
    BY <2>1, Zenon DEF SaysWhere, LayerAgrees
<1>1. c \in KeysOf(Open(file)) <=> \E i \in DOMAIN all : SaysWhere(all[i], c)
  <2>1. c \in KeysOf(Open(file)) <=> \E i \in DOMAIN layers : SaysWhere(layers[i], c)
    BY OpenedPath DEF layers
  <2>2. (\E i \in DOMAIN all : SaysWhere(all[i], c)) <=> \E i \in DOMAIN written : SaysWhere(written[i], c)
    BY WrittenShape DEF written
  <2> QED
    BY <1>0, <1>3, <2>1, <2>2
<1>2. ASSUME c \in KeysOf(Open(file)), ~ Excepted(file, all, c)
      PROVE  GetPath(Open(file), c) = DocumentedPath(all, c)
  <2>1. PICK m \in DOMAIN layers :
          /\ IsFirst(layers, m, c) /\ layers[m].dir # None
          /\ (HasPath(layers[m].values, c) => layers[m].values[c].absolute \/ layers[m].dir = Parent(file))
               => GetPath(Open(file), c) = PathIn(layers[m], c)
    BY <1>2, OpenedPath DEF layers
  <2>2. FirstToSay(all, c) = written[m]
    <3>1. DOMAIN layers = DOMAIN Chain[file]
      BY DEF layers, FileLayers
    <3>2. \E N \in Nat : DOMAIN layers = 1 .. N
      BY LayersOfFile DEF layers
    <3>3. m \in DOMAIN written /\ \A j \in 1 .. m - 1 : j \in DOMAIN layers
      BY <1>0, <2>1, <3>2
    <3>4. IsFirst(written, m, c)
      BY <1>3, <2>1, <3>3 DEF IsFirst
    <3> QED
      BY <3>3, <3>4, WrittenShape DEF written
  <2>3. (IF HasPath(written[m].values, c) THEN c ELSE "home") \notin written[m].twice
    BY <1>2, <2>2 DEF Excepted, FirstIsKept
  <2>4. /\ HasPath(layers[m].values, c) <=> HasPath(written[m].values, c)
        /\ HasPath(layers[m].values, c) => written[m].values[c] = layers[m].values[c]
        /\ ~ HasPath(layers[m].values, c) => written[m].values["home"] = layers[m].values["home"]
        /\ written[m].dir = layers[m].dir
    <3>1. ~ HasPath(layers[m].values, c) => HasPath(layers[m].values, "home")
      BY <2>1 DEF IsFirst, SaysWhere
    <3>2. LayerAgrees(written[m], layers[m], c) /\ LayerAgrees(written[m], layers[m], "home")
      BY <1>0
    <3> QED
      BY <2>3, <3>1, <3>2, Zenon DEF LayerAgrees
  <2>5. DocumentedPath(all, c) = PathIn(written[m], c)
    BY <2>2 DEF DocumentedPath, PathIn
  <2>6. PathIn(written[m], c) = PathIn(layers[m], c)
    BY <2>4 DEF PathIn
  <2>7. HasPath(layers[m].values, c) => layers[m].values[c].absolute \/ layers[m].dir = Parent(file)
    BY <1>2, <2>1, <2>2, <2>4 DEF Excepted, InheritedFromElsewhere
  <2> QED
    BY <2>1, <2>5, <2>6, <2>7
<1> QED
  BY <1>1, <1>2 DEF AsDocumented

(* With overrides: their layer gets all paths in full.                     *)
LEMMA ExtendedAsDocumented ==
  ASSUME NoneIsApart, FilesGivePaths, NEW file, CanOpen(file),
         NEW lines, AreLines(lines), GivesPaths(lines), NEW c \in Components
  PROVE  AsDocumented(Extend(Overrides(lines), Open(file)), file, Written(file, lines), c)
<1> DEFINE all == Written(file, lines)
           layers == FileLayers(file)
           own == OwnLayer(lines)
           over == Overrides(lines)
           base == Open(file)
           full == Over(FullConfig(over), FullConfig(base))
           config == Extend(over, base)
<1>1. /\ config = <<Layer(full, None)>> /\ c \in Paths /\ c # "extends" /\ c # "home"
      /\ DOMAIN full = KeysOf(over) \cup KeysOf(base)
  BY DEF Extend, Over, FullConfig, Paths, Components
<1>2. c \in DOMAIN full => full[c] = IF c \in KeysOf(over) THEN GetPath(over, c) ELSE GetPath(base, c)
  BY <1>1 DEF Over, FullConfig
<1> HIDE DEF all, layers, own, over, base, full, config
<1>3. /\ c \in KeysOf(over) <=> SaysWhere(own, c)
      /\ "home" \in KeysOf(over) => SaysWhere(own, c)
      /\ c \in KeysOf(over) =>
           IsPath(Get(over, c)) /\ over[1].dir = None /\ GetPath(over, c) = PathIn(own, c)
  BY OverridesPath DEF over, own
<1>4. "home" \in KeysOf(base) => c \in KeysOf(base)
  <2>1. PICK N \in Nat \ {0} : DOMAIN layers = 1 .. N /\ \A i \in 1 .. N : IsLayer(layers[i])
    BY LayersOfFile DEF layers
  <2>2. DOMAIN base = 1 .. N /\ \A i \in 1 .. N : base[i] = Layer(layers[i].values, layers[i].dir)
    <3>1. DOMAIN Chain[file] = 1 .. N
      BY <2>1 DEF layers, FileLayers
    <3> QED
      BY <3>1 DEF base, layers, Open, FileLayers
  <2>3. ASSUME NEW i \in 1 .. N, "home" \in DOMAIN base[i].values PROVE SaysWhere(layers[i], c)
    BY <2>1, <2>2, <2>3, HomeInLayer
  <2>4. c \in KeysOf(base) <=> \E i \in DOMAIN layers : SaysWhere(layers[i], c)
    BY OpenedPath DEF base, layers
  <2> QED
    BY <2>1, <2>2, <2>3, <2>4 DEF KeysOf
<1>5. "home" \in DOMAIN full => c \in DOMAIN full
  BY <1>1, <1>3, <1>4
<1>6. /\ c \in DOMAIN Desugared(full, None) <=> c \in DOMAIN full
      /\ c \in DOMAIN full => Desugared(full, None)[c] = full[c]
  BY <1>5 DEF Desugared, Over, HasPath
<1>7. /\ DOMAIN config = {1} /\ config[1].values = Desugared(full, None) /\ config[1].dir = None
  BY <1>1 DEF Layer
<1>8. c \in KeysOf(config) <=> c \in KeysOf(over) \/ c \in KeysOf(base)
  BY <1>1, <1>6, <1>7 DEF KeysOf
<1>9. c \in KeysOf(config) => Get(config, c) = full[c] /\ GetPath(config, c) = RelativeTo(full[c], None)
  <2> SUFFICES ASSUME c \in KeysOf(config) PROVE Get(config, c) = full[c]
    BY <1>7 DEF GetPath
  <2> DEFINE P(i) == c \in DOMAIN config[i].values /\ \A j \in 1 .. i - 1 : c \notin DOMAIN config[j].values
  <2>1. P(1)
    BY <1>1, <1>6, <1>7, <1>8
  <2>2. (CHOOSE i \in DOMAIN config : P(i)) = 1
    <3> HIDE DEF P
    <3> QED
      BY <1>7, <2>1
  <2>3. Get(config, c) = config[1].values[c]
    BY <2>2 DEF Get
  <2> QED
    BY <1>1, <1>6, <1>7, <1>8, <2>3
<1>10. ASSUME NEW path, IsPath(path), NEW dir, IsDir(dir)
       PROVE  RelativeTo(RelativeTo(path, dir), None) = RelativeTo(path, dir)
  <2>1. PICK S : Absolute(path, dir).names \in Seq(S)
    BY <1>10, AbsolutePath
  <2> QED
    BY <2>1, CanonicalStays DEF RelativeTo
<1>11. CASE c \in KeysOf(over)
  <2>1. IsDir(None)
    BY FilesAssumption DEF IsDir, NamesFrom
  <2>2. GetPath(over, c) = RelativeTo(Get(over, c), None)
    BY <1>3, <1>11 DEF GetPath
  <2>3. GetPath(config, c) = PathIn(own, c)
    BY <1>1, <1>2, <1>3, <1>8, <1>9, <1>10, <1>11, <2>1, <2>2
  <2>4. FirstToSay(all, c) = own
    BY <1>3, <1>11, WrittenShape DEF all, own
  <2>5. DocumentedPath(all, c) = PathIn(own, c)
    BY <2>4 DEF DocumentedPath, PathIn
  <2>6. \E i \in DOMAIN all : SaysWhere(all[i], c)
    BY <1>3, <1>11, WrittenShape DEF all, own
  <2> QED
    BY <1>8, <1>11, <2>3, <2>5, <2>6 DEF AsDocumented, config, over, base, all
<1>12. CASE c \notin KeysOf(over)
  <2>1. AsDocumented(base, file, all, c)
    BY <1>3, <1>12, FileAsDocumented DEF base, all, own
  <2>2. ASSUME c \in KeysOf(base) PROVE GetPath(config, c) = GetPath(base, c)
    <3>1. PICK N \in Nat \ {0} : /\ DOMAIN layers = 1 .. N /\ \A i \in 1 .. N : IsLayer(layers[i])
                                 /\ layers[1].dir = Parent(file)
      BY LayersOfFile DEF layers
    <3>2. base[1].dir = Parent(file)
      <4>1. 1 \in DOMAIN Chain[file]
        BY <3>1 DEF layers, FileLayers
      <4>2. layers[1].dir = Parent(Chain[file][1]) /\ base[1].dir = Parent(Chain[file][1])
        BY <4>1 DEF layers, FileLayers, base, Open, Layer
      <4> QED
        BY <3>1, <4>2
    <3>3. IsDir(Parent(file)) /\ IsPath(Get(base, c))
      <4>1. IsDir(Parent(file))
        BY <3>1 DEF IsLayer
      <4> QED
        BY <2>2, <4>1, OpenedPath DEF base
    <3>4. GetPath(base, c) = RelativeTo(Get(base, c), Parent(file))
      BY <3>2 DEF GetPath
    <3> QED
      BY <1>1, <1>2, <1>8, <1>9, <1>10, <1>12, <2>2, <3>3, <3>4
  <2> QED
    BY <1>8, <1>12, <2>1, <2>2 DEF AsDocumented, config, over, base, all
<1> QED
  BY <1>11, <1>12

(* An index has its components where the documentation has them.           *)
LEMMA ConfiguredIndex ==
  ASSUME NoneIsApart, FilesGivePaths, NEW file, CanOpen(file),
         NEW lines, AreLines(lines), GivesPaths(lines)
  PROVE  LET index == EntryOf(Load(file, lines)).index
             documented == DocumentedIndex(file, lines) IN
         /\ DOMAIN index = DOMAIN documented
         /\ \A c \in DOMAIN index : documented[c] # None => index[c] = documented[c]
<1> DEFINE config == Load(file, lines)
           all == Written(file, lines)
           index == EntryOf(config).index
           documented == DocumentedIndex(file, lines)
<1>1. ASSUME NEW c \in Components PROVE AsDocumented(config, file, all, c)
  <2>1. CASE lines = <<>>
    <3>1. DOMAIN Given(lines) = {}
      BY <2>1 DEF Given
    <3>2. ~ SaysWhere(OwnLayer(lines), c)
      BY <3>1 DEF SaysWhere, HasPath, OwnLayer
    <3> QED
      BY <2>1, <3>2, FileAsDocumented DEF Load
  <2>2. CASE lines # <<>>
    BY <2>2, ExtendedAsDocumented DEF Load
  <2> QED
    BY <2>1, <2>2
<1> HIDE DEF config, all
<1>2. index = [c \in KeysOf(config) \cap Components |-> GetPath(config, c)]
  BY DEF EntryOf
<1>3. documented = [c \in {c \in Components : \E i \in DOMAIN all : SaysWhere(all[i], c)} |->
        IF Excepted(file, all, c) THEN None ELSE DocumentedPath(all, c)]
  BY DEF DocumentedIndex, Excepted, all
<1> HIDE DEF index, documented
<1>4. DOMAIN index = DOMAIN documented
  BY <1>1, <1>2, <1>3 DEF AsDocumented
<1>5. ASSUME NEW c \in DOMAIN index, documented[c] # None PROVE index[c] = documented[c]
  <2>1. c \in Components /\ c \in KeysOf(config) /\ index[c] = GetPath(config, c)
    BY <1>2
  <2>2. documented[c] = IF Excepted(file, all, c) THEN None ELSE DocumentedPath(all, c)
    BY <1>3, <1>4
  <2>3. Excepted(file, all, c) \/ GetPath(config, c) = DocumentedPath(all, c)
    BY <1>1, <2>1 DEF AsDocumented
  <2> QED
    BY <1>5, <2>1, <2>2, <2>3
<1> QED
  BY <1>4, <1>5 DEF index, documented, config

(* Whatever extends what, and wherever home is set: a server that runs has *)
(* the parts of each index where the documentation has them, unless their  *)
(* relative paths were inherited from a file in another directory, or are  *)
(* set twice in the file that they come from.                              *)
THEOREM IndexesAreAsConfigured ==
  ASSUME NoneIsApart, FilesGivePaths, \A s \in Servers : GivesPaths(OverrideOf[s])
  PROVE  Spec => []IndexAsConfigured
<1>1. Init => ServiceInv
  BY InitKeeps
<1>2. ServiceInv /\ [Next]_vars => ServiceInv'
  BY NextKeeps
<1>3. ServiceInv => IndexAsConfigured
  <2> SUFFICES ASSUME ServiceInv, NEW s \in Servers, instances[s] # None, NEW i \in DOMAIN instances[s]
               PROVE  LET index == instances[s][i].index
                          documented == Documented[s][i]
                      IN /\ DOMAIN index = DOMAIN documented
                         /\ \A c \in DOMAIN index : documented[c] # None => index[c] = documented[c]
    BY DEF IndexAsConfigured
  <2> DEFINE file == ConfigFiles[s][i]
             lines == OverrideOf[s]
  <2>1. s \in CanStart /\ instances[s] = EntriesOf[s]
    BY DEF ServiceInv, ServersOK
  <2>2. i \in DOMAIN ConfigFiles[s] /\ instances[s][i] = EntryOf(Load(file, lines))
    BY <2>1, EntriesOfType, ServiceAssumption
  <2>3. CanOpen(file)
    BY <2>1, <2>2 DEF CanStart
  <2>4. Documented[s][i] = DocumentedIndex(file, lines)
    BY <2>1, <2>2 DEF Documented
  <2>5. AreLines(lines) /\ GivesPaths(lines)
    BY ServiceAssumption
  <2> QED
    BY <2>2, <2>3, <2>4, <2>5, ConfiguredIndex
<1> QED
  BY <1>1, <1>2, <1>3, PTL DEF Spec

=============================================================================
