CONSTANTS
  Hash <- MCHash
  Checksum <- MCChecksum
  RecordsPerMap = 2
  RefFreqLimit = 5
  IndexStep = 2
  MaxWords = 5
  Inputs <- MCInputs
  MaxCommands = 2
  MaxStops = 1
  None = None
  Partial = Partial
SPECIFICATION Spec
CHECK_DEADLOCK FALSE
INVARIANTS
  ComponentsAgree
  MergedOnce
  OpenedIsComplete
PROPERTY
  BuildsSucceed
