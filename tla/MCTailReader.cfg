SPECIFICATION Spec
CONSTANTS
  MaxSize = 2
  MaxRevisions = 2
  MaxFaults = 1
INVARIANTS BytesInPlace RestIsComplete
PROPERTY ComesToRest
