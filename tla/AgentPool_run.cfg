CONSTANTS
  Symbols = {a, b, c}
  Targets <- LongOnly
  Workers = {w1, w2, w3}
  Interval = 3
  MaxLate = 1
  Span = 1
  NoTask = NoTask
SPECIFICATION FairSpec
INVARIANTS
  TypeOK
  RateBounded
  SlotsApart
PROPERTIES
  KeepsPromise
  BatchesEnd
