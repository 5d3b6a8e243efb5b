CONSTANTS
  s1 = s1
  s2 = s2
  Symbols = {s1, s2}
  MaxDate = 4
  RetryBound = 1
  Targets <- LongOnly
  Unhealable <- NoneUnhealable
  Gapless = FALSE
  MaxCrashes = 0
SPECIFICATION Spec
SYMMETRY SymbolPermutations
PROPERTIES
  PredecessorSettled
