CONSTANTS
  None = None
  Proxy = Proxy
  s1 = s1
  s2 = s2
  s3 = s3
  w1 = w1
  w2 = w2
  v1 = v1
  q1 = q1
  Files <- MCFiles
  WorkDir <- MCWorkDir
  Servers <- MCServers
  SourceLists <- MCSourceLists
  ConfigFiles <- MCConfigFiles
  OverrideOf <- MCOverrideOf
  Logged <- MCLogged
  Workers <- MCWorkers
  Visitors <- MCVisitors
  Requests <- MCRequests
  TrackingIdOf <- MCTrackingIdOf
  IdLength = 2
  CorpusKeys = {"k1", "k2"}
  Queries <- MCQueries
  Hash <- MCHash
  Loads <- MCLoads
  MaxStarts = 1
  MaxStops = 1
SPECIFICATION Spec
CHECK_DEADLOCK FALSE
INVARIANTS
  IndexAsConfigured
  LogTellsAnswers
  AnswersFromCorpus
PROPERTY
  EveryCallAnswered
