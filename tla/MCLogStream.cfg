CONSTANTS
  Stream = {c1, c2}
  Rival = {c2}
  MAX_SSE_CONNECTIONS = 1
  SNAPSHOT_CHUNK = 1
  maxBytes = 5
  maxFrames = 2
  maxRows = 2
  MaxRows = 2
  MaxPatches = 1
  MaxFiles = 1
  MaxErrors = 3
  MaxFewRows = 1
SPECIFICATION StreamSpec
INVARIANTS NothingLost CountersExact EndIsTold
PROPERTIES ViewOnlyAdvances CatchesUp EndedStreamCloses
