--------------------------- MODULE NetspeakService --------------------------
(***************************************************************************)
(* Servers with indexes, a proxy in front of them, and their clients       *)
(* (UniqueMap, LoadBalanceProxy, RequestLogger and tracking of service/,   *)
(* the serve, proxy and stress commands of cli/).  A call is handled by a  *)
(* thread of its server from its arrival to its answer; a call that the    *)
(* proxy forwards waits for that of the server.  Servers can stop, and be  *)
(* started again on the same files.                                        *)
(***************************************************************************)
EXTENDS Configurations, Lists

CONSTANTS
  Servers,      \* the servers with indexes
  Proxy,        \* the proxy
  SourceLists,  \* bound: command lines of the proxy, as sequences of servers
  ConfigFiles,  \* per server: its files in the order of its command line
  OverrideOf,   \* per server: the overrides
  Logged,       \* the servers, and the proxy, that log requests
  Workers,      \* the threads of the stress command, which calls the proxy
  Visitors,     \* other clients, which call anybody once
  Requests,     \* bound: what visitors request
  TrackingIdOf, \* per client: its tracking id, a sequence of characters
  IdLength,     \* 32: the length of a tracking id
  CorpusKeys,   \* the keys of all corpora
  Queries,      \* bound: the queries of the stress command
  Hash,         \* of a query, mixed
  Loads,        \* bound: numbers of queries of the stress command, and who visits
  MaxStarts,    \* bound: how often the proxy is started
  MaxStops      \* bound: how often a server stops

ASSUME ServiceAssumption ==
  /\ Proxy \notin Servers
  /\ Logged \subseteq Servers \cup {Proxy}
  /\ SourceLists \subseteq Seq(Servers)
  /\ \A s \in Servers : AreLines(OverrideOf[s])
  /\ \A s \in Servers : Len(ConfigFiles[s]) \in Nat /\ DOMAIN ConfigFiles[s] = 1 .. Len(ConfigFiles[s])
  /\ \A r \in Requests :
       \/ r.method = "GetCorpora"
       \/ r.method = "Search" /\ Hash[r.query] \in Nat
  /\ \A query \in Queries : Hash[query] \in Nat

VARIABLES
  instances,  \* per server: the entries of its map, None if it does not run
  proxy,      \* None, or its sources, how many were asked, and their stubs
  frames,     \* per client: the calls that handle its request, outermost first
  visited,    \* the visitors that have called
  counter,    \* per site: req_counter_ of the logger
  log,        \* per site: the log files of this start
  maxQueries, \* of the stress command
  asked,      \* its req_counter
  ended,      \* the workers that have ended
  measured,   \* per corpus: the counters of the stress command
  handled,    \* history, per site: the calls that were answered since its start
  starts, stops

bounds == <<starts, stops>>
stress == <<maxQueries, asked, ended, measured>>
logger == <<counter, log>>
vars == <<instances, proxy, frames, visited, logger, stress, handled, bounds>>

Sites == Servers \cup {Proxy}
Clients == Workers \cup Visitors

-----------------------------------------------------------------------------
(* UniqueMap *)

EntriesOf ==
  [s \in Servers |-> [i \in DOMAIN ConfigFiles[s] |-> EntryOf(Load(ConfigFiles[s][i], OverrideOf[s]))]]
KeyOf(entry) == entry.corpus["corpus.key"]
CanStart ==
  {s \in Servers :
     /\ \A i \in DOMAIN ConfigFiles[s] :
          CanOpen(ConfigFiles[s][i]) /\ CanServe(Load(ConfigFiles[s][i], OverrideOf[s]))
     /\ IsInjective([i \in DOMAIN EntriesOf[s] |-> KeyOf(EntriesOf[s][i])])}
Corpora(s) == [i \in DOMAIN instances[s] |-> instances[s][i].corpus]
EntriesFor(s, key) == {e \in ToSet(instances[s]) : KeyOf(e) = key}

-----------------------------------------------------------------------------
(* LoadBalanceProxy: its services and corpora come from the stubs.         *)

(* Mutant of AreCompatible: corpora with one key are taken for the same.   *)
KeyIsEnough(a, b) == TRUE
AreCompatible(a, b) ==
  a["corpus.key"] = b["corpus.key"] =>
    a["corpus.language"] = b["corpus.language"] /\ a["corpus.name"] = b["corpus.name"]

Serves == proxy # None /\ proxy.asked = Len(proxy.sources)
StubsFor(key) ==
  ElementsAt(proxy.stubs, {i \in DOMAIN proxy.stubs : proxy.stubs[i].corpus["corpus.key"] = key})
ListedCorpora ==
  LET keys == {stub.corpus["corpus.key"] : stub \in ToSet(proxy.stubs)}
  IN {StubsFor(key)[1].corpus : key \in keys}

ServiceFor(key, query) ==
  StubsFor(key)[(Hash[query] % Len(StubsFor(key))) + 1].server

-----------------------------------------------------------------------------
(* Tracking ids: 32 hexadecimal digits, in lower case in the log.          *)

Lower(c) == CASE c = "A" -> "a" [] c = "B" -> "b" [] OTHER -> c
HexDigits == {"0", "1", "a", "b", "A", "B"}
IsValidTrackingId(id) == Len(id) = IdLength /\ ToSet(id) \subseteq HexDigits
NoUser == <<>>
SetTrackingId(id) == IF IsValidTrackingId(id) THEN id ELSE NoUser
GetTrackingId(id) ==
  IF IsValidTrackingId(id) THEN [i \in DOMAIN id |-> Lower(id[i])] ELSE NoUser

-----------------------------------------------------------------------------
(* A call is at the stage "receive" or "log" of the logger, "serve" of the *)
(* service, "wait" for another server, "error" of the logger or "return".  *)

Call(site, request, trackingId) ==
  [site |-> site, request |-> request, user |-> GetTrackingId(trackingId), id |-> None,
   stage |-> IF site \in Logged THEN "receive" ELSE "serve", answer |-> None]
Search(key, query) == [method |-> "Search", corpus |-> key, query |-> query]
GetCorpora == [method |-> "GetCorpora"]

Result(entry) == [status |-> "ok", kind |-> "result", entry |-> entry]
Error(kind) == [status |-> "ok", kind |-> kind]
List(corpora) == [status |-> "ok", kind |-> "corpora", corpora |-> corpora]
Unavailable == [status |-> "unavailable", kind |-> "none"]

Fails(call) ==
  \/ call.answer.status # "ok"
  \/ call.request.method = "Search" /\ call.answer.kind # "result"
(* Mutant of Answered: errors of the service are not logged.               *)
OnlyFailedCalls(call, answer) ==
  [call EXCEPT !.answer = answer,
               !.stage = IF call.site \in Logged /\ answer.status # "ok" THEN "error" ELSE "return"]
Answered(call, answer) ==
  LET answered == [call EXCEPT !.answer = answer]
  IN [answered EXCEPT !.stage = IF call.site \in Logged /\ Fails(answered) THEN "error" ELSE "return"]

Top(c) == Last(frames[c])
AtStage(c, stage) == frames[c] # <<>> /\ Top(c).stage = stage
WithTop(c, call) == frames' = [frames EXCEPT ![c][Len(frames[c])] = call]

Line(call) == [id |-> call.id, user |-> call.user, request |-> call.request]
Write(site, file, line) == log' = [log EXCEPT ![site][file] = Append(@, line)]
Outcome(call) == [line |-> Line(call), failed |-> Fails(call)]

NoLog == [file \in {"Search", "GetCorpora", "SearchError", "GetCorporaError"} |-> <<>>]
ErrorFile == [Search |-> "SearchError", GetCorpora |-> "GetCorporaError"]
NoMeasurement == [requests |-> 0, grpcErrors |-> 0, respErrors |-> 0, successes |-> 0]

(* The servers were started before the proxy, if their files allow it.     *)
Init ==
  /\ instances = [s \in Servers |-> IF s \in CanStart THEN EntriesOf[s] ELSE None]
  /\ proxy = None
  /\ frames = [c \in Clients |-> <<>>]
  /\ \E load \in Loads : maxQueries = load.queries /\ visited = Visitors \ load.visitors
  /\ counter = [s \in Sites |-> 0]
  /\ log = [s \in Sites |-> NoLog]
  /\ asked = 0 /\ ended = {} /\ measured = [k \in CorpusKeys |-> NoMeasurement]
  /\ handled = [s \in Sites |-> {}]
  /\ starts = 0 /\ stops = 0

-----------------------------------------------------------------------------
(* Servers start with new log files, unless a file cannot be used or two   *)
(* have the same corpus key.                                               *)

StartServer(s) ==
  /\ instances[s] = None
  /\ s \in CanStart
  /\ instances' = [instances EXCEPT ![s] = EntriesOf[s]]
  /\ counter' = [counter EXCEPT ![s] = 0]
  /\ log' = [log EXCEPT ![s] = NoLog]
  /\ handled' = [handled EXCEPT ![s] = {}]
  /\ UNCHANGED <<proxy, frames, visited, stress, bounds>>

(* A call that ends gives its answer to the call that waits for it.        *)
Answering(calls, answer) ==
  IF Len(calls) = 1 THEN <<>> ELSE <<Answered(calls[1], answer)>>

(* The calls of a server that stops get no answer of it.                   *)
Dropped(calls, s) ==
  IF calls # <<>> /\ Last(calls).site = s THEN Answering(calls, Unavailable) ELSE calls
StopServer(s) ==
  /\ instances[s] # None
  /\ stops < MaxStops
  /\ stops' = stops + 1
  /\ instances' = [instances EXCEPT ![s] = None]
  /\ frames' = [c \in Clients |-> Dropped(frames[c], s)]
  /\ UNCHANGED <<proxy, visited, logger, stress, handled, starts>>

(* The proxy asks its sources one after the other, by calls without a      *)
(* tracking id, and ends if one does not answer or has another corpus      *)
(* with a known key.                                                       *)
ListingOf(s) == [id |-> counter[s], user |-> NoUser, request |-> GetCorpora]
StartProxy ==
  /\ proxy = None
  /\ starts < MaxStarts
  /\ starts' = starts + 1
  /\ \E sources \in SourceLists : proxy' = [sources |-> sources, asked |-> 0, stubs |-> <<>>]
  /\ UNCHANGED <<instances, frames, visited, logger, stress, handled, stops>>

AskSource ==
  LET s == proxy.sources[proxy.asked + 1]
      stubs == [i \in DOMAIN instances[s] |-> [corpus |-> Corpora(s)[i], server |-> s]]
  IN /\ proxy # None /\ ~ Serves
     /\ IF instances[s] = None THEN proxy' = None /\ UNCHANGED <<logger, handled>>
        ELSE /\ proxy' = IF \A x \in ToSet(proxy.stubs), y \in ToSet(stubs) : AreCompatible(x.corpus, y.corpus)
                         THEN [proxy EXCEPT !.asked = @ + 1, !.stubs = @ \o stubs]
                         ELSE None
             /\ IF s \notin Logged THEN UNCHANGED <<logger, handled>>
                ELSE /\ counter' = [counter EXCEPT ![s] = @ + 1]
                     /\ Write(s, "GetCorpora", ListingOf(s))
                     /\ handled' = [handled EXCEPT ![s] = @ \cup {[line |-> ListingOf(s), failed |-> FALSE]}]
     /\ UNCHANGED <<instances, frames, visited, stress, bounds>>

-----------------------------------------------------------------------------
(* Clients.  A worker takes any query and any corpus that the proxy lists; *)
(* the call by which the command got that list is left out.                *)

Runs(site) == IF site = Proxy THEN Serves ELSE instances[site] # None

More == asked + 1 <= maxQueries

WorkerAsks(c) ==
  /\ Serves /\ frames[c] = <<>> /\ c \notin ended
  /\ asked' = asked + 1
  /\ IF More
     THEN /\ \E corpus \in ListedCorpora, query \in Queries :
               frames' = [frames EXCEPT ![c] =
                 <<Call(Proxy, Search(corpus["corpus.key"], query), SetTrackingId(TrackingIdOf[c]))>>]
          /\ UNCHANGED ended
     ELSE ended' = ended \cup {c} /\ UNCHANGED frames
  /\ UNCHANGED <<instances, proxy, visited, logger, maxQueries, measured, handled, bounds>>

VisitorAsks(c) ==
  /\ c \notin visited
  /\ visited' = visited \cup {c}
  /\ \E site \in {s \in Sites : Runs(s)}, request \in Requests :
       frames' = [frames EXCEPT ![c] = <<Call(site, request, TrackingIdOf[c])>>]
  /\ UNCHANGED <<instances, proxy, logger, stress, handled, bounds>>

-----------------------------------------------------------------------------
(* The threads of the servers and the proxy.                               *)

Receive(c) ==
  /\ AtStage(c, "receive")
  /\ WithTop(c, [Top(c) EXCEPT !.id = counter[Top(c).site], !.stage = "log"])
  /\ counter' = [counter EXCEPT ![Top(c).site] = @ + 1]
  /\ UNCHANGED <<instances, proxy, visited, log, stress, handled, bounds>>

LogRequest(c) ==
  /\ AtStage(c, "log")
  /\ Write(Top(c).site, Top(c).request.method, Line(Top(c)))
  /\ WithTop(c, [Top(c) EXCEPT !.stage = "serve"])
  /\ UNCHANGED <<instances, proxy, visited, counter, stress, handled, bounds>>

(* A search of an index finds a result or an error of its own.             *)
AnswersOf(call) ==
  IF call.request.method = "GetCorpora" THEN {List(ToSet(Corpora(call.site)))}
  ELSE IF EntriesFor(call.site, call.request.corpus) = {} THEN {Error("INVALID_CORPUS")}
  ELSE {Error("INTERNAL_ERROR")} \cup {Result(e) : e \in EntriesFor(call.site, call.request.corpus)}

ServeCall(c) ==
  /\ AtStage(c, "serve")
  /\ Top(c).site # Proxy
  /\ \E answer \in AnswersOf(Top(c)) : WithTop(c, Answered(Top(c), answer))
  /\ UNCHANGED <<instances, proxy, visited, logger, stress, handled, bounds>>

AnswerAtProxy(c) ==
  /\ AtStage(c, "serve")
  /\ Top(c).site = Proxy
  /\ \/ /\ Top(c).request.method = "GetCorpora"
        /\ WithTop(c, Answered(Top(c), List(ListedCorpora)))
     \/ /\ Top(c).request.method = "Search"
        /\ StubsFor(Top(c).request.corpus) = <<>>
        /\ WithTop(c, Answered(Top(c), Error("INVALID_CORPUS")))
  /\ UNCHANGED <<instances, proxy, visited, logger, stress, handled, bounds>>

(* The context of the forwarded call is new: without a tracking id.        *)
(* Mutant of Forwarding: the call waits until the server runs.             *)
ForwardingToRunning(c, s) ==
  /\ Runs(s)
  /\ frames' = [frames EXCEPT ![c] = <<[Top(c) EXCEPT !.stage = "wait"], Call(s, Top(c).request, NoUser)>>]
Forwarding(c, s) ==
  IF Runs(s)
  THEN frames' = [frames EXCEPT ![c] = <<[Top(c) EXCEPT !.stage = "wait"], Call(s, Top(c).request, NoUser)>>]
  ELSE WithTop(c, Answered(Top(c), Unavailable))

Forward(c) ==
  LET request == Top(c).request
      s == ServiceFor(request.corpus, request.query)
  IN /\ AtStage(c, "serve")
     /\ Top(c).site = Proxy /\ request.method = "Search"
     /\ StubsFor(request.corpus) # <<>>
     /\ Forwarding(c, s)
     /\ UNCHANGED <<instances, proxy, visited, logger, stress, handled, bounds>>

LogError(c) ==
  /\ AtStage(c, "error")
  /\ Write(Top(c).site, ErrorFile[Top(c).request.method], Line(Top(c)))
  /\ WithTop(c, [Top(c) EXCEPT !.stage = "return"])
  /\ UNCHANGED <<instances, proxy, visited, counter, stress, handled, bounds>>

Measured(m, call) ==
  LET counted == [m EXCEPT !.requests = @ + 1]
  IN CASE call.answer.status # "ok" -> [counted EXCEPT !.grpcErrors = @ + 1]
       [] call.answer.status = "ok" /\ Fails(call) -> [counted EXCEPT !.respErrors = @ + 1]
       [] OTHER -> [counted EXCEPT !.successes = @ + 1]

Return(c) ==
  /\ AtStage(c, "return")
  /\ frames' = [frames EXCEPT ![c] = Answering(@, Top(c).answer)]
  /\ handled' = [handled EXCEPT ![Top(c).site] = @ \cup {Outcome(Top(c))}]
  /\ measured' = IF c \in Workers /\ Len(frames[c]) = 1
                 THEN [measured EXCEPT ![Top(c).request.corpus] = Measured(@, Top(c))]
                 ELSE measured
  /\ UNCHANGED <<instances, proxy, visited, logger, maxQueries, asked, ended, bounds>>

Handle(c) ==
  \/ Receive(c) \/ LogRequest(c)
  \/ ServeCall(c) \/ AnswerAtProxy(c) \/ Forward(c)
  \/ LogError(c) \/ Return(c)

Next ==
  \/ \E s \in Servers : StartServer(s) \/ StopServer(s)
  \/ StartProxy \/ AskSource
  \/ \E c \in Workers : WorkerAsks(c)
  \/ \E c \in Visitors : VisitorAsks(c)
  \/ \E c \in Clients : Handle(c)

(* Some thread is scheduled as long as there are calls, or workers that    *)
(* have not ended: enough, as there are finitely many calls.               *)
Spec ==
  /\ Init /\ [][Next]_vars
  /\ WF_vars(\E c \in Clients : Handle(c))
  /\ WF_vars(\E c \in Workers : WorkerAsks(c))

-----------------------------------------------------------------------------

(* A server has the parts of an index that the documentation makes of its  *)
(* files and overrides, and opens them where it says, whatever extends     *)
(* what and wherever home is set; but a relative path that was inherited   *)
(* from a file in another directory is taken relative to the wrong one,    *)
(* and of a key that a file sets twice the wrong value is kept: of these   *)
(* components it says only that they are there.                            *)
Documented ==
  [s \in CanStart |-> [i \in DOMAIN ConfigFiles[s] |-> DocumentedIndex(ConfigFiles[s][i], OverrideOf[s])]]
IndexAsConfigured ==
  \A s \in Servers :
    instances[s] # None =>
      \A i \in DOMAIN instances[s] :
        LET index == instances[s][i].index
            documented == Documented[s][i]
        IN /\ DOMAIN index = DOMAIN documented
           /\ \A c \in DOMAIN index : documented[c] # None => index[c] = documented[c]

(* The log of a site tells what it answered, however calls interleave and  *)
(* other sites stop: request ids are unique, an error line has its request *)
(* in front of it, and a call that was answered has an error line if and   *)
(* only if it failed ("A unique request id, a tracking id, and the full    *)
(* request are logged everytime", cli/logging.cpp).                        *)
RequestFiles == {"Search", "GetCorpora"}
ErrorFiles == {"SearchError", "GetCorporaError"}
Positions(s, files) == UNION {{file} \X DOMAIN log[s][file] : file \in files}
LineAt(s, p) == log[s][p[1]][p[2]]
Lines(s, files) == {LineAt(s, p) : p \in Positions(s, files)}

LogTellsAnswers ==
  \A s \in Logged :
    /\ \A p, q \in Positions(s, RequestFiles) : LineAt(s, p).id = LineAt(s, q).id => p = q
    /\ \A p, q \in Positions(s, ErrorFiles) : LineAt(s, p) = LineAt(s, q) => p = q
    /\ Lines(s, ErrorFiles) \subseteq Lines(s, RequestFiles)
    /\ \A h \in handled[s] :
         h.line \in Lines(s, RequestFiles) /\ (h.line \in Lines(s, ErrorFiles) <=> h.failed)

(* An answer comes from an index of the corpus that was asked for, at the  *)
(* proxy from one that it lists by the same name and language.             *)
AnswersFromCorpus ==
  \A c \in Clients :
    \A i \in DOMAIN frames[c] :
      LET call == frames[c][i] IN
      call.answer # None /\ call.answer.kind = "result" =>
        /\ call.answer.entry.corpus["corpus.key"] = call.request.corpus
        /\ call.site = Proxy => call.answer.entry.corpus \in ListedCorpora

(* The stress command has ended: it has sent as many queries as it should *)
(* and counted each of them as one kind of answer.                         *)
StressCounted ==
  /\ ended = Workers
  /\ MapThenSumSet(LAMBDA k : measured[k].requests, CorpusKeys) = maxQueries
  /\ \A k \in CorpusKeys : measured[k].requests =
       measured[k].grpcErrors + measured[k].respErrors + measured[k].successes

(* Every call is answered, whatever stops, and the stress command comes to *)
(* its end with the right numbers.                                         *)
EveryCallAnswered ==
  /\ []<>(\A c \in Clients : frames[c] = <<>>)
  /\ Serves ~> StressCounted

=============================================================================
