CONSTANTS
  Words <- MCWords
  Qmark = "?"
  Phrases <- MCPhrases
  Text <- MCText
  RefFreqLimit = 8
  NoLimit = 9
  Tie <- MCTie
  StopwordFreq = 2
  Windows <- MCWindows
  Freqs = {1, 2, 3}
  Counts = {0, 1, 2, 5}
  Queries <- MCQueries
SPECIFICATION Spec
CHECK_DEADLOCK FALSE
INVARIANTS
  Sound
  Complete
  NoGaps
  LostOnlyAtLimit
  UnknownMeansNoMatch
