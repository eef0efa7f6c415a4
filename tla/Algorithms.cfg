CONSTANTS
  MaxLength = 5
  Freqs = {1, 2, 3}
  Base = 2
  MaxTokens = 9
  MaxChars = 5
  None = None
SPECIFICATION Spec
CHECK_DEADLOCK FALSE
INVARIANTS
  MergedOutsideTies
  ValuesReadBack
  WordsFound
  PropertiesReadBack
  WritesJson
