SPECIFICATION Spec
CONSTANTS
  MAX_DRAIN_FRAMES = 2
  ChunkRows = 1
  MaxRows = 2
  MaxPatches = 1
  MaxFiles = 1
  MaxStreams = 2
INVARIANT FlushKeepsOrder
