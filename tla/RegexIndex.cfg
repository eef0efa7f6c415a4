CONSTANTS
  Utf8Bytes <- MCBytes
  Infinite = 64
  Vocabularies <- MCVocabularies
  Texts <- MCTexts
  Limits = {0, 1, 2, 9}
  Code <- MCCode
  HashSeed = 7
  HashRange = 1024
  LookupLimit = 8
  CheckEvery = 2
SPECIFICATION Spec
CHECK_DEADLOCK FALSE
INVARIANTS
  FirstMatches
  QueriesEquivalent
  OvertimeBounded
PROPERTY
  MatchingEnds
