SPECIFICATION Spec
CONSTANTS
  MaxUint32 = 127
  MaxUint64 = 16383
  MaxOrdered = 4
  MaxStackSize = 30
  Lower <- MCLower
  DictionaryFile <- MCDictionaryFile
  RegexMatches <- MCRegexMatches
  Inputs <- MCInputs
  Queries <- MCQueries
  OptionSets <- MCOptionSets
  Vocabulary <- MCVocabulary
INVARIANTS
  ParsedAsWritten
  NormQueriesSound
  MissedOnlyByStars
  EstimateCovers
CHECK_DEADLOCK FALSE
