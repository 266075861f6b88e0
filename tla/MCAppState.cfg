CONSTANTS
  Id = {n1}
  MAX_PENDING = 1
  Timeout = 1
  MaxTime = 0
  MaxEvents = 2
  MAX_STICKY_WATCH_ERRORS = 2
  MaxErrors = 3
SPECIFICATION Spec
INVARIANTS RowsMirrorCorrelator ErrorsHeardOnce
PROPERTIES RowsFollowFrames PendingSettles
CHECK_DEADLOCK FALSE
