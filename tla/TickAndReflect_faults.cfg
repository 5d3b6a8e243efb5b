CONSTANTS
  Symbols = {s1, s2}
  MaxDate = 3
  RetryBound = 1
  Targets <- LongOnly
  Unhealable <- NoneUnhealable
  Gapless = FALSE
  MaxCrashes = 1
  UseLessons = TRUE
  MaxEntries = 2
  MaxParts = 2
SPECIFICATION ReflectSpec
SYMMETRY SymbolPermutations
INVARIANTS
  RecordedDaysAreGenuine
  LoggedVerdictsAreCached
  ReflectTypeOK
  ReflectedOnce
  RunJsonTruthful
PROPERTIES
  VerdictsFrozen
  ImplementsTrackRecord
