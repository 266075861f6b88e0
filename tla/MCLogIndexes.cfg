SPECIFICATION IndexSpec
CONSTANTS
  Search = {q1}
  limit = 1
  yieldEvery = 1
  MAX_SCAN_RESTARTS = 1
  maxCachedTextBytes = 2
  maxEntries = 2
  maxCostBytes = 3
  MaxEvents = 3
  MaxFiles = 2
INVARIANT KeptIsSound
PROPERTIES AnswersAreOfTheLog SearchesEnd
CHECK_DEADLOCK FALSE
