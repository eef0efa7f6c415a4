CONSTANTS
  Words <- MCWords
  Qmark = Qmark
  Phrases <- MCPhrases
  Text <- MCText
  Freq <- MCFreq
  RefFreqLimit = 16
  NoLimit = 20
  Tie <- MCTie
  IndexStep = 1000
  StopwordFreq = 5
  PruningLow = 130
  PruningHigh = 160
  None = None
  QmarkText = "?"
  Threads = {t1, t2}
  Workloads <- MCWorkloads
  QueryProcessor <- MCQueryProcessor
  CacheCapacity = 1
  PriorityLimit = 16
SPECIFICATION Spec
CHECK_DEADLOCK FALSE
INVARIANTS
  TypeOK
  CacheFaithful
  RepliesSound
PROPERTIES
  ImplementsService
  EveryRequestAnswered
