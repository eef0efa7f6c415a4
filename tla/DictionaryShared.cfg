CONSTANTS
  Keys <- MCKeys
  Known <- MCKnown
  Size = 2
  Slot <- MCSlot
  Checksum <- MCChecksum
  ValueOf <- MCValueOf
  Threads = {t1, t2}
  ThreadSafe = FALSE
  None = None
  Missing = Missing
  Error = Error
SPECIFICATION Spec
INVARIANT
  UndisplacedLookupsAnswered
