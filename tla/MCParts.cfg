CONSTANTS
  Opener = {o1, o2, o3, o4}
  Closer = {c1, c2}
  None = None
  MAX_BUF_BYTES = 2
  MaxChunk = 3
  MaxLength = 7
  Log = {k1, k2, k3}
  NoLog = NoLog
  Choice = {a}
  MAX_ENTRIES = 2
SYMMETRY Symmetry
SPECIFICATION PartsSpec
INVARIANTS OneServer CloseIsComplete NobodyIsStranded SplitIsExact StoredIsShown EntriesAreOwn
CHECK_DEADLOCK FALSE
