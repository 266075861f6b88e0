CONSTANTS
  Id = {n1, s1}
  MAX_PENDING = 2
  Timeout = 1
  MaxTime = 1
  MaxEvents = 4
SYMMETRY Symmetry
SPECIFICATION Spec
INVARIANTS MatchingIsComplete PendingBounded ExchangesDoNotCross
PROPERTY VerdictsAreFinal
